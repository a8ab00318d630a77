SPECIFICATION FairSpec
CONSTANTS
  HeadLength = 4
  BufferSize = 11
  MaxPackets = 4
  MaxResets = 1
  Bodies <- MCBodies
  Checked = TRUE
INVARIANTS TypeOK RoomToRead Intact
PROPERTIES AllReceived
CHECK_DEADLOCK FALSE
