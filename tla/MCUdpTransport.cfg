CONSTANTS
  BufLen = 4
  TxMax = 4
  RxSizes = {0, 2, 4, 5}
  TxSizes = {1, 4, 6}
  Timeouts = {0, 3}
  MaxDatagrams = 4
SPECIFICATION FairSpec
INVARIANTS
  TypeOK
PROPERTIES
  ImplementsPort
  ReportedIsSent
  CallsReturn
CHECK_DEADLOCK TRUE
