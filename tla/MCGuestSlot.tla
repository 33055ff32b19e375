---------------------------- MODULE MCGuestSlot ----------------------------
(* Model checking instance of GuestSlot: a handful of transaction objects. *)
EXTENDS GuestSlot, TLC

CONSTANTS t1, t2, t3, t4, t5

MCGuest == {t1, t2, t3, t4, t5}
=============================================================================
