------------------------------ MODULE Sessions ------------------------------
(***************************************************************************)
(* What millennium_falcon promises of sessions, without threads, packets,  *)
(* statements or locks.                                                    *)
(*                                                                         *)
(* A connection is opened and makes a claim (a name and a password).  The  *)
(* claim is accepted if the password is one of the account's, or makes the *)
(* account; or if the password is the empty one and the account's could    *)
(* not be read.  Only what was accepted is entered.  The connection stays  *)
(* that user's until it ends, and its end is one step: the connection and  *)
(* the session are gone together.  The server may end at any moment, and   *)
(* every connection with it; accounts stay.                                *)
(***************************************************************************)
EXTENDS Naturals

CONSTANTS User, Password, Conn, NoUser, EmptyPassword

VARIABLES
  passwords,   \* passwords[u]: what opens the account of u; {} without one
  open,        \* the connections
  session,     \* session[c]: the user whose session is over c, or NoUser
  claim,       \* claim[c]: the <<name, password>> being examined, or NoClaim
  accepted,    \* the connections whose claim was found right
  failures     \* how many statements, sends or packets have failed

state == <<passwords, open, session, claim, accepted>>
vars == <<passwords, open, session, claim, accepted, failures>>

NoClaim == <<>>
Nobodys == [c \in Conn |-> NoUser]
Unclaimed == [c \in Conn |-> NoClaim]

Init ==
  /\ passwords \in [User -> SUBSET Password]
  /\ open = {}
  /\ session = Nobodys
  /\ claim = Unclaimed
  /\ accepted = {}
  /\ failures = 0

Open(c) ==
  /\ c \notin open
  /\ open' = open \cup {c}
  /\ UNCHANGED <<passwords, session, claim, accepted>>

\* Only who has no session yet may ask for one.
Claim(c) ==
  /\ c \in open /\ session[c] = NoUser /\ claim[c] = NoClaim
  /\ claim'[c] # NoClaim
  /\ \E u \in User, p \in Password : claim' = [claim EXCEPT ![c] = <<u, p>>]
  /\ UNCHANGED <<passwords, open, session, accepted>>

Create(c) ==
  /\ claim[c] # NoClaim /\ c \notin accepted
  /\ LET u == claim[c][1]
         p == claim[c][2]
     IN passwords' = [passwords EXCEPT ![u] = @ \cup {p}]
  /\ accepted' = accepted \cup {c}
  /\ UNCHANGED <<open, session, claim>>

Accept(c) ==
  /\ claim[c] # NoClaim /\ c \notin accepted
  /\ LET u == claim[c][1]
         p == claim[c][2]
     IN p \in passwords[u] \/ (p = EmptyPassword /\ failures' > failures)
  /\ accepted' = accepted \cup {c}
  /\ UNCHANGED <<passwords, open, session, claim>>

Refuse(c) ==
  /\ claim[c] # NoClaim /\ c \notin accepted
  /\ claim' = [claim EXCEPT ![c] = NoClaim]
  /\ UNCHANGED <<passwords, open, session, accepted>>

Enter(c) ==
  /\ c \in open /\ session[c] = NoUser /\ c \in accepted
  /\ session' = [session EXCEPT ![c] = claim[c][1]]
  /\ claim' = [claim EXCEPT ![c] = NoClaim]
  /\ accepted' = accepted \ {c}
  /\ UNCHANGED <<passwords, open>>

Close(c) ==
  /\ c \in open
  /\ open' = open \ {c}
  /\ session' = [session EXCEPT ![c] = NoUser]
  /\ UNCHANGED <<passwords, claim, accepted>>

Crash ==
  /\ open' = {}
  /\ session' = Nobodys
  /\ claim' = Unclaimed
  /\ accepted' = {}
  /\ UNCHANGED passwords

Step ==
  \/ \E c \in Conn : \/ Open(c) \/ Claim(c) \/ Create(c) \/ Accept(c)
                     \/ Refuse(c) \/ Enter(c) \/ Close(c)
  \/ Crash
  \/ UNCHANGED state

\* Whatever happens, something may fail with it.
Next == Step /\ failures' >= failures

Spec == Init /\ [][Next]_vars
=============================================================================
