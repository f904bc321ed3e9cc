---------------------------- MODULE MCMillennium ----------------------------
(***************************************************************************)
(* Instances of Millennium for TLC.                                        *)
(***************************************************************************)
EXTENDS MillenniumProperties

CONSTANTS c1, c2, Ann, Ben, Cat

Two == <<Ann, Ben>>
Three == <<Ann, Ben, Cat>>

NoPairs == {}
Both == {<<Ann, Ben>>, <<Ben, Ann>>}
AnnsFriends == Both \cup {<<Ann, Cat>>, <<Cat, Ann>>}

NewMachines == [c \in Client |-> EmptyTables]

\* Ann's machine knows her friends, and the other what Ben and Cat have.
Row(f, u) == [friend_name |-> f, user |-> u]
UsedMachines == [c \in Client |->
  [friends |-> IF c = c1 THEN <<Row(Ben, Ann), Row(Cat, Ann)>>
                         ELSE <<Row(Ann, Ben), Row(Ann, Cat)>>,
   messages |-> <<>>]]

\* Ann's machine knows Ben; the other is new.
AnnsMachine == [c \in Client |->
  [friends |-> IF c = c1 THEN <<Row(Ben, Ann)>> ELSE <<>>, messages |-> <<>>]]

\* New machines are alike.
Machines == Permutations(Client)
=============================================================================
