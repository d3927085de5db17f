SPECIFICATION FairSpec
CONSTANTS
  Calls = {a, b}
  None = none
INVARIANTS OneJobPerPress ReportIsTrue PreviewIsOfAJob
PROPERTY PressEnds
CHECK_DEADLOCK FALSE
