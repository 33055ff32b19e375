\* listen(c, nullptr) on a channel without a handler, while a later
\* channel has one.  Handlers only, no receivers, no transactions.
CONSTANTS
  r1 = r1
  r2 = r2
  t1 = t1
  NoGuest = NoGuest
  NoHandler = NoHandler
  Channel <- MCChannel
  HandlerKind = {"returns"}
  Receiver <- NoReceiver
  RecvChannel <- NoRecvChannel
  Guest = {}
  MaxNotif = 1
SPECIFICATION Spec
INVARIANT ListenedChannelsWatched
