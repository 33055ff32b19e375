--------------------------- MODULE Notifications ---------------------------
(***************************************************************************)
(* Notification listen/dispatch of one open pqxx::connection              *)
(* (src/src/connection.cxx): the handler map m_notification_handlers      *)
(* written by listen() (418-461), the legacy receiver multimap m_receivers *)
(* written by add_receiver() (394-415) and remove_receiver() (464-497),    *)
(* and get_notifs() (600-664), which drains libpq's notification queue    *)
(* into both and runs at the end of every exec() (722-735) and in          *)
(* await_notification() (1038-1063).                                       *)
(*                                                                         *)
(* The transaction slot m_trans is the GuestSlot component; here it is    *)
(* driven the way transaction objects drive it: register, then commit or  *)
(* abort and unregister.  The server side is modelled by what PostgreSQL  *)
(* does with LISTEN / UNLISTEN: a session receives notifications on the   *)
(* channels it listens on, and LISTEN / UNLISTEN issued inside a          *)
(* transaction block take effect at commit and are discarded on abort.   *)
(*                                                                         *)
(* A notification is identified by its arrival number; arrived[n] is its *)
(* channel.  A handler is abstracted to whether it returns or throws.     *)
(***************************************************************************)
EXTENDS Integers, Sequences, SequencesExt, FiniteSets

CONSTANTS
  Channel,       \* channel names, ordered as std::map orders its keys
  HandlerKind,   \* installable handlers: "returns" and/or "throws"
  NoHandler,     \* an empty notification_handler
  Receiver,      \* notification_receiver objects
  RecvChannel,   \* the channel each receiver object listens on
  Guest,         \* transaction objects
  NoGuest,       \* the null transaction pointer
  MaxNotif       \* bound on the notifications the server sends

ASSUME Channel \subseteq Nat \ {0}
ASSUME HandlerKind \subseteq {"returns", "throws"}
ASSUME RecvChannel \in [Receiver -> Channel]
ASSUME MaxNotif \in Nat

VARIABLES
  slot, open,    \* GuestSlot: m_trans, and the open transactions
  handlers,      \* m_notification_handlers, channel -> handler
  receivers,     \* m_receivers (as a set of receiver objects)
  rstate,        \* lifetime of each receiver object: "new", "active", "gone"
  span,          \* dispatch-log positions between which a receiver was registered
  listening,     \* server: the channels this session listens on
  pending,       \* server: LISTEN/UNLISTEN issued in the open transaction block
  arrived,       \* history: channel of every notification the server sent us
  inbox,         \* libpq's queue of received, not yet fetched notifications
  consumed,      \* history: notifications fetched by get_notifs, in order
  got            \* history: notifications each receiver was called with

vars == <<slot, open, handlers, receivers, rstate, span, listening, pending,
          arrived, inbox, consumed, got>>

Slot == INSTANCE GuestSlot

EndOfMap == 0
Command == {"none", "listen", "unlisten"}

TypeOK ==
  /\ Slot!TypeOK
  /\ handlers \in [Channel -> HandlerKind \cup {NoHandler}]
  /\ receivers \subseteq Receiver
  /\ rstate \in [Receiver -> {"new", "active", "gone"}]
  /\ span \in [Receiver -> [from : Nat, to : Nat]]
  /\ listening \subseteq Channel
  /\ pending \in [Channel -> Command]
  /\ arrived \in Seq(Channel)
  /\ inbox \in Seq(1..MaxNotif)
  /\ consumed \in Seq(1..MaxNotif)
  /\ got \in [Receiver -> Seq(1..MaxNotif)]

(***************************************************************************)
(* The server.                                                             *)
(***************************************************************************)
InBlock == open # {}

(* The server executes LISTEN or UNLISTEN on channel c. *)
ServerRuns(c, cmd) ==
  \/ /\ ~InBlock
     /\ listening' = IF cmd = "listen" THEN listening \cup {c}
                                       ELSE listening \ {c}
     /\ UNCHANGED pending
  \/ /\ InBlock
     /\ pending' = [pending EXCEPT ![c] = cmd]
     /\ UNCHANGED listening

NoPending == [c \in Channel |-> "none"]

Committed ==
  {c \in Channel : \/ pending[c] = "listen"
                   \/ c \in listening /\ pending[c] # "unlisten"}

(***************************************************************************)
(* get_notifs: fetch the queued notifications one by one; for each, call  *)
(* every receiver on its channel (their exceptions become notices), then  *)
(* the handler installed for it.  A handler's exception propagates and    *)
(* ends the loop; the notifications behind it stay queued.  Nothing is    *)
(* fetched while a transaction is registered.                            *)
(***************************************************************************)
Throws(n, hs) == hs[arrived[n]] = "throws"

FirstThrow(hs) == SelectInSeq(inbox, LAMBDA n : Throws(n, hs))

(* Mutant: the notification whose handler threw stays at the head of the *)
(* queue, as if it were popped only after its handler returned.            *)
DrainCountKeepThrower(hs) ==
  IF slot # NoGuest THEN 0
  ELSE IF FirstThrow(hs) = 0 THEN Len(inbox) ELSE FirstThrow(hs) - 1

DrainCount(hs) ==
  IF slot # NoGuest THEN 0
  ELSE IF FirstThrow(hs) = 0 THEN Len(inbox) ELSE FirstThrow(hs)

DrainThrows(hs) == slot = NoGuest /\ FirstThrow(hs) # 0

Delivered(r, q) == SelectSeq(q, LAMBDA n : arrived[n] = RecvChannel[r])

GetNotifs(recvs, hs) ==
  LET k == DrainCount(hs)
      taken == SubSeq(inbox, 1, k)
  IN /\ consumed' = consumed \o taken
     /\ inbox' = SubSeq(inbox, k + 1, Len(inbox))
     /\ got' = [r \in Receiver |->
                  IF r \in recvs THEN got[r] \o Delivered(r, taken) ELSE got[r]]

dispatchVars == <<inbox, consumed, got>>
serverVars == <<listening, pending>>
receiverVars == <<receivers, rstate, span>>

(***************************************************************************)
(* listen(channel, handler).  pos is m_notification_handlers.lower_bound: *)
(* the first channel at or after c that has a handler.  exec() runs the   *)
(* command and then get_notifs; if get_notifs throws, the map update      *)
(* after the exec is skipped.                                              *)
(***************************************************************************)
LowerBound(c) ==
  LET at == {d \in Channel : d >= c /\ handlers[d] # NoHandler}
  IN IF at = {} THEN EndOfMap ELSE Min(at)

Listen(c, h) ==
  LET pos == LowerBound(c) IN
  /\ slot = NoGuest
  /\ \/ /\ h # NoHandler
        /\ pos = c
        /\ handlers' = [handlers EXCEPT ![c] = h]
        /\ UNCHANGED <<serverVars, dispatchVars>>
     \/ /\ h # NoHandler
        /\ pos # c
        /\ ServerRuns(c, "listen")
        /\ GetNotifs(receivers, handlers)
        /\ handlers' = IF DrainThrows(handlers) THEN handlers
                       ELSE [handlers EXCEPT ![c] = h]
     \/ /\ h = NoHandler
        /\ pos # EndOfMap
        /\ ServerRuns(c, "unlisten")
        /\ GetNotifs(receivers, handlers)
        /\ handlers' = IF DrainThrows(handlers) THEN handlers
                       ELSE [handlers EXCEPT ![pos] = NoHandler]
  /\ UNCHANGED <<slot, open, receiverVars, arrived>>

(***************************************************************************)
(* add_receiver(n), called by the receiver's constructor: LISTEN only when *)
(* no receiver is registered on the channel yet.  It runs the command     *)
(* through make_result, not exec, so no notifications are fetched, and it *)
(* does not look at m_trans.                                              *)
(***************************************************************************)
AddReceiver(r) ==
  LET ch == RecvChannel[r] IN
  /\ rstate[r] = "new"
  /\ \/ /\ \A s \in receivers : RecvChannel[s] # ch
        /\ ServerRuns(ch, "listen")
     \/ /\ \E s \in receivers : RecvChannel[s] = ch
        /\ UNCHANGED serverVars
  /\ receivers' = receivers \cup {r}
  /\ rstate' = [rstate EXCEPT ![r] = "active"]
  /\ span' = [span EXCEPT ![r] = [from |-> Len(consumed), to |-> 0]]
  /\ UNCHANGED <<slot, open, handlers, arrived, dispatchVars>>

(***************************************************************************)
(* remove_receiver(T), called by the receiver's destructor: erase first,  *)
(* then UNLISTEN through exec if it was the channel's last receiver.      *)
(* Exceptions, a throwing handler's included, become notices.             *)
(***************************************************************************)
RemoveReceiverLateErase(r) ==
  LET ch == RecvChannel[r] IN
  /\ rstate[r] = "active"
  /\ receivers' = receivers \ {r}
  /\ rstate' = [rstate EXCEPT ![r] = "gone"]
  /\ span' = [span EXCEPT ![r].to = Len(consumed)]
  /\ \/ /\ \E s \in receivers' : RecvChannel[s] = ch
        /\ UNCHANGED <<serverVars, dispatchVars>>
     \/ /\ \A s \in receivers' : RecvChannel[s] # ch
        /\ ServerRuns(ch, "unlisten")
        /\ GetNotifs(receivers, handlers)
  /\ UNCHANGED <<slot, open, handlers, arrived>>

RemoveReceiver(r) ==
  LET ch == RecvChannel[r] IN
  /\ rstate[r] = "active"
  /\ receivers' = receivers \ {r}
  /\ rstate' = [rstate EXCEPT ![r] = "gone"]
  /\ span' = [span EXCEPT ![r].to = Len(consumed)]
  /\ \/ /\ \E s \in receivers' : RecvChannel[s] = ch
        /\ UNCHANGED <<serverVars, dispatchVars>>
     \/ /\ \A s \in receivers' : RecvChannel[s] # ch
        /\ ServerRuns(ch, "unlisten")
        /\ GetNotifs(receivers', handlers)
  /\ UNCHANGED <<slot, open, handlers, arrived>>

(* await_notification(): get_notifs, and after waiting on the socket,     *)
(* get_notifs again; a notification arriving during the wait is a Notify *)
(* step between the two.  exec() of any other command ends the same way. *)
AwaitNotification ==
  /\ GetNotifs(receivers, handlers)
  /\ UNCHANGED <<slot, open, handlers, receiverVars, serverVars, arrived>>

(***************************************************************************)
(* Transactions register in the slot before BEGIN and unregister after    *)
(* COMMIT or ROLLBACK; both of those run while m_trans is set, so they     *)
(* fetch no notifications.                                                 *)
(***************************************************************************)
BeginTransaction(t) ==
  /\ Slot!RegisterTransaction(t)
  /\ UNCHANGED <<handlers, receiverVars, serverVars, arrived, dispatchVars>>

CommitTransaction(t) ==
  /\ t \in open
  /\ Slot!UnregisterTransaction(t)
  /\ listening' = Committed
  /\ pending' = NoPending
  /\ UNCHANGED <<handlers, receiverVars, arrived, dispatchVars>>

AbortTransaction(t) ==
  /\ t \in open
  /\ Slot!UnregisterTransaction(t)
  /\ pending' = NoPending
  /\ UNCHANGED <<handlers, receiverVars, listening, arrived, dispatchVars>>

(* Another session runs NOTIFY c; the server sends it to this session     *)
(* when it listens on c and is not inside a transaction block.            *)
Notify(c) ==
  /\ c \in listening
  /\ ~InBlock
  /\ Len(arrived) < MaxNotif
  /\ arrived' = Append(arrived, c)
  /\ inbox' = Append(inbox, Len(arrived) + 1)
  /\ UNCHANGED <<slot, open, handlers, receiverVars, serverVars, consumed, got>>

Init ==
  /\ Slot!Init
  /\ handlers = [c \in Channel |-> NoHandler]
  /\ receivers = {}
  /\ rstate = [r \in Receiver |-> "new"]
  /\ span = [r \in Receiver |-> [from |-> 0, to |-> 0]]
  /\ listening = {}
  /\ pending = NoPending
  /\ arrived = <<>>
  /\ inbox = <<>>
  /\ consumed = <<>>
  /\ got = [r \in Receiver |-> <<>>]

Next ==
  \/ \E c \in Channel, h \in HandlerKind \cup {NoHandler} : Listen(c, h)
  \/ \E r \in Receiver : AddReceiver(r) \/ RemoveReceiver(r)
  \/ AwaitNotification
  \/ \E t \in Guest : \/ BeginTransaction(t)
                      \/ CommitTransaction(t)
                      \/ AbortTransaction(t)
  \/ \E c \in Channel : Notify(c)

Spec == Init /\ [][Next]_vars

(***************************************************************************)
(* Fairness.  A transaction object ends (commit, or the abort its          *)
(* destructor runs), and the program that waits for notifications calls  *)
(* await_notification again and again: strongly fair, since it fetches    *)
(* nothing while a transaction is registered and so is enabled only       *)
(* between transactions.                                                   *)
(***************************************************************************)
Fairness ==
  /\ SF_vars(AwaitNotification)
  /\ \A t \in Guest : WF_vars(CommitTransaction(t) \/ AbortTransaction(t))

FairSpec == Spec /\ Fairness

-----------------------------------------------------------------------------
(***************************************************************************)
(* Properties.                                                             *)
(***************************************************************************)

(* Every notification the server sends is fetched in the end (spec 4.3,  *)
(* 9: "deferred, not dropped"): transactions delay dispatch but do not    *)
(* block it forever, and a handler that throws from get_notifs does not   *)
(* wedge the queue, since libpq has already handed its notification over. *)
NotificationsEventuallyFetched ==
  \A i \in 1 .. MaxNotif : (Len(arrived) >= i) ~> (Len(consumed) >= i)

(* Every receiver is called with exactly the notifications on its channel *)
(* fetched while it was registered, once each and in order: none missed   *)
(* because another callback threw, and none delivered to a receiver that  *)
(* is being destroyed (remove_receiver erases before its UNLISTEN exec).  *)
Upto(r) == IF rstate[r] = "active" THEN Len(consumed) ELSE span[r].to

ReceiverDelivery ==
  \A r \in Receiver :
    got[r] = Delivered(r, SubSeq(consumed, span[r].from + 1, Upto(r)))

(* A channel is watched when it has a handler or a receiver.  Outside a   *)
(* transaction, the server listens on every watched channel, so no        *)
(* handler or receiver silently stops receiving notifications.            *)
Watched(c) ==
  \/ handlers[c] # NoHandler
  \/ \E r \in receivers : RecvChannel[r] = c

SubscriptionsListened ==
  ~InBlock => \A c \in Channel : Watched(c) => c \in listening

(* Outside a transaction, the server listens only on watched channels:   *)
(* listen(c, nullptr) on an unwatched channel is a no-op (spec 4.3) and   *)
(* never drops another channel's handler.                                 *)
ListenedChannelsWatched ==
  ~InBlock => \A c \in listening : Watched(c)
=============================================================================
