SPECIFICATION FairSpec
CONSTANTS
  r1 = r1
  r2 = r2
  Req <- MCReq
  Response <- MCResponse
  Upload <- MCUpload
  DropEnds <- MCDropEnds
INVARIANTS
  NoInternalError
  WholeBodyForwarded
PROPERTIES
  StreamSpec
  NoneServedUnguarded
  RequestTaskEnds
