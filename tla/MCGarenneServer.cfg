SPECIFICATION Spec
CONSTANTS
  Peers = {p1}
  Requests <- MCMoreRequests
  RespLen <- MCRespLen
  Iss <- MCIss
  MCIssBase = 14
  MCIssStride = 5
  PeerIss = 15
  SeqMod = 16
  MaxRetries = 1
  Window = 1
  MaxConns = 1
  MaxEmbryos = 2
  MaxReq = 2
INVARIANTS TypeOK OneInFlight NeverStalls FinIsLast TableFollowsConns NoRequestByteLost
PROPERTIES OrderlyCloseDelivered IsAnExchange
