\* Two transfers in opposite directions at once, whose applications may hang.
\* Every transfer ends, and then nothing is left to do.
SPECIFICATION Spec
CONSTANTS
  Window = 1
  Cap = 2
  OutCap = 2
  MaxChunks = 3
  ClientFetches = 1
  ServerFetches = 1
INVARIANTS NoticeFits WholeInOrder AbortsMeetTheirTransfer NobodyWaitsForNobody
CHECK_DEADLOCK FALSE
PROPERTY TransfersEnd
