SPECIFICATION FairSpec
CONSTANTS
  Peers = {p1}
  Requests <- MCRequests
  RespLen <- MCRespLen
  Iss <- MCIss
  MCIssBase = 14
  MCIssStride = 5
  PeerIss = 15
  SeqMod = 16
  MaxRetries = 1
  Window = 1
  MaxConns = 1
  MaxEmbryos = 1
  MaxReq = 2
PROPERTIES ExchangeEnds InFlightResolves
