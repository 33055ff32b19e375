\* A handler that throws, on one channel; no receivers, no transactions.
CONSTANTS
  r1 = r1
  r2 = r2
  t1 = t1
  NoGuest = NoGuest
  NoHandler = NoHandler
  Channel = {1}
  HandlerKind = {"throws"}
  Receiver <- NoReceiver
  RecvChannel <- NoRecvChannel
  Guest = {}
  MaxNotif = 1
SPECIFICATION Spec
INVARIANT SubscriptionsListened
