SPECIFICATION Spec
INVARIANTS FriendsShown ShownAreFriends RequestsAnswerable
SYMMETRY Machines
CONSTANTS
  c1 = c1 c2 = c2
  Ann = Ann Ben = Ben Cat = Cat
  Client = {c1, c2}
  Names <- Two
  NoName = NoName
  PageSize = 2
  Keyword = {""}
  BookName = {"default"}
  Registered = {Ben}
  Befriended <- NoPairs
  Archive <- NewMachines
  Habits = {"register", "edit", "befriend"}
  MaxActs = 3
  MaxComings = 3
