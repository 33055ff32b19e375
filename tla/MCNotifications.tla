-------------------------- MODULE MCNotifications --------------------------
(* Model checking instances of Notifications. *)
EXTENDS Notifications, TLC

CONSTANTS r1, r2, t1

\* Two channels, so that std::map::lower_bound can land on another channel.
MCChannel == {1, 2}
\* Both receivers on channel 1: one UNLISTEN is shared by two receivers.
MCReceiver == {r1, r2}
MCRecvChannel == [r \in MCReceiver |-> 1]
OneReceiver == {r1}
OneRecvChannel == [r \in OneReceiver |-> 1]
MCGuest == {t1}
NoReceiver == {}
NoRecvChannel == [r \in NoReceiver |-> 1]
=============================================================================
