\* The table of the shell alone, every input of up to 7 bytes.
SPECIFICATION FSpec
CONSTANTS
  Byte = {"#", "h", "b", "B"}
  Size = 3
  Default <- MCDefault
  User <- MCNone
  MaxInput = 7
INVARIANTS Aligned Filtered RoomForByte
PROPERTY IsFifo
