CONSTANTS
  c1 = c1  c2 = c2  h1 = h1  h2 = h2  w1 = w1  w2 = w2  x1 = x1
  Conn <- MCConn
  Handle <- MCHandle
  Hub <- MCHub
  Result <- MCResult
  NoHandle = NoHandle
  NoHub = NoHub
  NoResult = NoResult
  ServerVersion = {90000, 90100}
  MaxPolls = 1
  AllocMayFail = FALSE
SPECIFICATION Spec
INVARIANT NoticeTargetsLive
