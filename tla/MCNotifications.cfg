\* Dispatch of notifications to handlers and receivers, with transactions,
\* throwing handlers and receivers coming and going.
CONSTANTS
  r1 = r1
  r2 = r2
  t1 = t1
  NoGuest = NoGuest
  NoHandler = NoHandler
  Channel <- MCChannel
  HandlerKind = {"returns", "throws"}
  Receiver <- MCReceiver
  RecvChannel <- MCRecvChannel
  Guest <- MCGuest
  MaxNotif = 3
SPECIFICATION FairSpec
INVARIANT ReceiverDelivery
PROPERTY NotificationsEventuallyFetched
