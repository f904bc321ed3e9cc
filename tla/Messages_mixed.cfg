CONSTANTS
  s1 = s1
  s2 = s2
  s3 = s3
  Ann = Ann
  Ben = Ben
  Cat = Cat
  Session = {s1, s2, s3}
  User = {Ann, Ben, Cat}
  connectedUser <- Users
  NameSize <- Sizes
  PACKET_BUFFER_SIZE = 14
  Outgoing <- Mixed
  NoName = NoName
  Free = Free
  Junk = Junk
SPECIFICATION FairSpec
INVARIANTS TypeOK ReadsWhatWasSent PacketsTogether ArrivedIsShownRight
PROPERTIES EachIsShown
