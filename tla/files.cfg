SPECIFICATION Spec
CONSTANTS
  Formats = {"ihex", "srec"}
  Byte <- MCByte
  Page = 6
  BigPage = 10
  Segment = 2
  Chunk = 4
  MaxEnd = 12
  MaxLen = 7
CHECK_DEADLOCK FALSE
INVARIANTS TypeOK RoundTrip WithinWindow  DamageDetected WithinPage
