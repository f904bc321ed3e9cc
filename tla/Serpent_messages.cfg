SPECIFICATION Spec
INVARIANTS TypeOK FiledRight PageIsConversation HandleIsUser
CONSTANTS
  c1 = c1 c2 = c2
  Ann = Ann Ben = Ben Cat = Cat
  Client = {c1, c2}
  Names <- Three
  NoName = NoName
  PageSize = 2
  Keyword = {"", "k"}
  BookName = {"default", "b"}
  Registered = {Ann, Ben, Cat}
  Befriended <- AnnsFriends
  Archive <- UsedMachines
  Habits = {"write", "encrypt"}
  MaxActs = 3
  MaxComings = 2
