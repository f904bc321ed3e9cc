CONSTANTS
 BLOCKSIZE = 45
 BUFFER_SIZE = 32
 Texts <- AllTexts
SPECIFICATION Spec
INVARIANTS RoundTrip RoomToEncrypt RoomToDecrypt
