SPECIFICATION Spec
PROPERTY ReceivedIsKept
CONSTANTS
  c1 = c1 c2 = c2
  Ann = Ann Ben = Ben Cat = Cat
  Client = {c1, c2}
  Names <- Two
  NoName = NoName
  PageSize = 2
  Keyword = {""}
  BookName = {"default"}
  Registered = {Ann, Ben}
  Befriended <- Both
  Archive <- AnnsMachine
  Habits = {"write"}
  MaxActs = 1
  MaxComings = 2
