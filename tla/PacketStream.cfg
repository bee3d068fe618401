\* Every interleaving of four sends with the task, and every way the client
\* reads a stream of three packets.
SPECIFICATION StreamSpec
CONSTANTS
  MaxSent = 4
  Unknown = {"CursorShape"}
  AuxLen = 1
  MaxRead = 3
INVARIANTS FrameUnderItsConfig PosAfterItsShape ClipboardReliable StreamInSync
PROPERTY QueueDrains
\* The session ends.
CHECK_DEADLOCK FALSE
