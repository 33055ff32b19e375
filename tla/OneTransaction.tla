--------------------------- MODULE OneTransaction ---------------------------
(***************************************************************************)
(* What the guest registration of a connection promises (spec 4.2, 9):     *)
(* at any time at most one transaction object is open on a connection.     *)
(* A transaction opens only when none is open, and the open one is the    *)
(* only one that can close.                                                *)
(***************************************************************************)
CONSTANT Guest

VARIABLE open        \* the transactions that are open on the connection

Enter(t) ==
  /\ open = {}
  /\ open' = {t}

Leave(t) ==
  /\ t \in open
  /\ open' = {}

Init == open = {}

Next == \E t \in Guest : Enter(t) \/ Leave(t)

Spec == Init /\ [][Next]_open
=============================================================================
