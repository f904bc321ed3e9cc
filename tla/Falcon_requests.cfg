CONSTANTS
  Alice = Alice
  Bob = Bob
  Pass = Pass
  Guess = Guess
  User = {Alice, Bob}
  Password = {Pass}
  EmptyPassword = EmptyPassword
  NoUser = NoUser
  NoPassword = NoPassword
  Conn = {c1, c2}
  Registered <- BothRegistered
  Befriended <- Strangers
  Workload = {"login", "ask", "accept", "reject", "hide"}
  Relogin = FALSE
  SigPipe = FALSE
  MaxRequests = 3
  MaxFaults = 0
  MaxRestarts = 1
SPECIFICATION Spec
SYMMETRY Connections
INVARIANTS NoLostRequest FriendsMutual StatusOfFriendsOnly OneSideSees
PROPERTIES KeepsFriendships
