SPECIFICATION FairSpec
CONSTANTS
  Programs = {"c", "cpp"}
  Tests = {"throughput"}
  Protocols = {"udp"}
  Windows = {4}
  Platforms = {"linux"}
  MsgSize = 1
  NumMessages = 2
  MayFail = FALSE
PROPERTIES EndsAfterDuration
CHECK_DEADLOCK FALSE
