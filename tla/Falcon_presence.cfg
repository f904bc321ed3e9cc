CONSTANTS
  Alice = Alice
  Bob = Bob
  Pass = Pass
  Guess = Guess
  User = {Alice, Bob}
  Password = {Pass, Guess}
  EmptyPassword = EmptyPassword
  NoUser = NoUser
  NoPassword = NoPassword
  Conn = {c1, c2, c3}
  Registered <- BothRegistered
  Befriended <- Friends
  Workload = {"login", "message"}
  Relogin = FALSE
  SigPipe = FALSE
  MaxRequests = 2
  MaxFaults = 0
  MaxRestarts = 0
SPECIFICATION Spec
SYMMETRY Connections
INVARIANTS RegistryExact OneSideSees ConfirmedIsDelivered
PROPERTIES KeepsSessions
