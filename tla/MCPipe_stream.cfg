CONSTANTS
  Readers = {"r1", "r2"}
  Writers = {"w1", "w2"}
  PIPESIZE = 2
  MOD = 4
  Bytes = {0, 1}
  ReadSizes = {2}
  Payloads <- ShortAndLong
  Killable = {"r1"}
SPECIFICATION Spec
INVARIANTS NoLostWakeup NoUseAfterFree EofIsFinal
PROPERTIES CallsReturn ImplementsStream
CHECK_DEADLOCK FALSE
