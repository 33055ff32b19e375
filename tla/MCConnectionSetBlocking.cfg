\* One connection object, one handle, one hub: connect, then set_blocking.
CONSTANTS
  c1 = c1  c2 = c2  h1 = h1  h2 = h2  w1 = w1  w2 = w2  x1 = x1
  Conn <- MCConnOne
  Handle <- MCHandleOne
  Hub <- MCHubOne
  Result <- MCResult
  NoHandle = NoHandle
  NoHub = NoHub
  NoResult = NoResult
  ServerVersion = {90100}
  MaxPolls = 0
  AllocMayFail = FALSE
SPECIFICATION Spec
PROPERTY SetBlockingHonoured
