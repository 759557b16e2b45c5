SPECIFICATION FairSpec
CONSTANTS
  NSegments = 2
  MaxReceived = 3
INVARIANTS RecordingInv SegmentsInOnePlace EndComplete
PROPERTIES RefinesRecordLog RecordingEnds AcceptedIsWritten
CHECK_DEADLOCK FALSE
