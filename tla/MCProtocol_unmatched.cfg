SPECIFICATION MCSpec
CONSTANTS
  Bits = 2
  Definitions <- AllDefinitions
  Loose = {"sized", "sizeless", "tags"}
  Unchecked = {"tags", "optional", "record"}
  NoMessage = NoMessage
  Regs <- MapRegs
  EncodeValue <- RegisterBytes
  DecodeValue <- RegisterIn
  UnknownKey = UnknownKey
  MapOrder = "big"
  MaxSets = 2
  MaxFlight = 2
  Calls <- RpcCalls
  Result <- HandlerResult
  EncodeRequest <- RequestBytes
  DecodeRequest <- RequestIn
  EncodeReply <- ReplyBytes
  DecodeReply <- ReplyIn
  CutsTags = TRUE
  MaxCalls = 2
  Nothing = Nothing
  Full = 4
  Data = {0, 1, 4}
  Room = 9
CHECK_DEADLOCK FALSE
INVARIANTS OnlyAskedRuns
