------------------------------ MODULE MCFalcon ------------------------------
(***************************************************************************)
(* Instances of FalconProperties for TLC.                                  *)
(***************************************************************************)
EXTENDS FalconProperties, TLC

CONSTANTS Alice, Bob, Pass, Guess

BothRegistered == [u \in User |-> <<Pass>>]
OnlyAlice == [u \in User |-> IF u = Alice THEN <<Pass>> ELSE <<>>]
Friends == {<<Alice, Bob>>, <<Bob, Alice>>}
Strangers == {}

Connections == Permutations(Conn)
=============================================================================
