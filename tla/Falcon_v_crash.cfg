CONSTANTS
  Alice = Alice
  Bob = Bob
  Pass = Pass
  Guess = Guess
  User = {Alice, Bob}
  Password = {Pass}
  EmptyPassword = EmptyPassword
  NoUser = NoUser
  NoPassword = NoPassword
  Conn = {c1, c2}
  Registered <- BothRegistered
  Befriended <- Friends
  Workload = {"login"}
  Relogin = FALSE
  SigPipe = FALSE
  MaxRequests = 1
  MaxFaults = 0
  MaxRestarts = 0
SPECIFICATION Spec
INVARIANTS NoCrash
