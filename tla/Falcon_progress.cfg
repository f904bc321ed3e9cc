CONSTANTS
  Alice = Alice
  Bob = Bob
  Pass = Pass
  Guess = Guess
  User = {Alice, Bob}
  Password = {Pass, EmptyPassword}
  EmptyPassword = EmptyPassword
  NoUser = NoUser
  NoPassword = NoPassword
  Conn = {c1, c2}
  Registered <- OnlyAlice
  Befriended <- Strangers
  Workload = {"create", "login", "ask", "accept"}
  Relogin = FALSE
  SigPipe = TRUE
  MaxRequests = 2
  MaxFaults = 1
  MaxRestarts = 0
SPECIFICATION FairSpec
INVARIANTS TypeOK RegistryExact
PROPERTIES HandlersReturn LeaversAreForgotten KeepsSessions KeepsFriendships
