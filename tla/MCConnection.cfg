\* Two connection objects (source and target of a move, or a connecting
\* object and the connection it produces), two handle addresses, two hub
\* addresses, one result, a 9.0.0 and a 9.1 server, one READING/WRITING poll.
\* close() can leak handles (its bad_alloc path), which can use up the two
\* handle addresses so that nothing can connect any more: that stop is an
\* artefact of the bound, so deadlock is not checked.
CONSTANTS
  c1 = c1  c2 = c2  h1 = h1  h2 = h2  w1 = w1  w2 = w2  x1 = x1
  Conn <- MCConn
  Handle <- MCHandle
  Hub <- MCHub
  Result <- MCResult
  NoHandle = NoHandle
  NoHub = NoHub
  NoResult = NoResult
  ServerVersion = {90000, 90100}
  MaxPolls = 1
  AllocMayFail = TRUE
SPECIFICATION Spec
INVARIANT ExclusiveLiveHandles
PROPERTY ImplementsSessions
CHECK_DEADLOCK FALSE
