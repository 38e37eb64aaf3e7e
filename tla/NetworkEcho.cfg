SPECIFICATION FairSpec
CONSTANTS
  Programs = {"c", "cpp"}
  Tests = {"throughput", "buffer", "multiplexer"}
  Protocols = {"tcp", "udp"}
  Windows = {1, 2, 3, 4, 5}
  Platforms = {"linux", "apple"}
  MsgSize = 4
  NumMessages = 3
  MayFail = TRUE
INVARIANTS TypeOK EchoIsOfThisMessage NothingDroppedWhenItFits ClientWaitsForEcho CountsAgree
PROPERTIES Terminates
CHECK_DEADLOCK FALSE
