SPECIFICATION SerialSpec
CONSTANTS
  Handlers = {h1, h2}
  Packets <- SomePackets
  Baud = 115200
INVARIANTS
  SerialTypeOK
  LedsAreOfOnePacket
  CommandsUnderstood
CHECK_DEADLOCK FALSE
