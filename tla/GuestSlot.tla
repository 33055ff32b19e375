----------------------------- MODULE GuestSlot -----------------------------
(***************************************************************************)
(* The single-slot registration of a transaction (the guest) in a          *)
(* pqxx::connection (the host): the member m_trans, written by             *)
(* connection::register_transaction and connection::unregister_transaction *)
(* (src/src/connection.cxx 848-870) through the gate                        *)
(* connection_transaction.  The checks they delegate to,                  *)
(* check_unique_register and check_unique_unregister, are declared with   *)
(* their contract in src/include/pqxx/util.hxx 378-403.                   *)
(*                                                                         *)
(* "open" is the callers' side: the transaction objects whose              *)
(* registration returned normally and which have not unregistered since.  *)
(***************************************************************************)
CONSTANTS
  Guest,      \* transaction objects (their addresses)
  NoGuest     \* the null pointer

ASSUME NoGuest \notin Guest

VARIABLES
  slot,       \* m_trans
  open        \* transactions that registered and have not yet unregistered

slotVars == <<slot, open>>

TypeOK ==
  /\ slot \in Guest \cup {NoGuest}
  /\ open \subseteq Guest

(* check_unique_register: registering is an error while the host already  *)
(* has a guest (util.hxx 378-393).                                         *)
CheckUniqueRegister(old, new) == old = NoGuest

(* check_unique_unregister: the guest being unregistered must be the one   *)
(* that is registered (util.hxx 396-403).                                  *)
CheckUniqueUnregister(old, new) == old = new

(* register_transaction(t): a refused registration throws usage_error out *)
(* of the transaction's constructor and changes nothing, so only the      *)
(* accepted case is a step.                                                *)
RegisterTransaction(t) ==
  /\ t \notin open
  /\ CheckUniqueRegister(slot, t)
  /\ slot' = t
  /\ open' = open \cup {t}

(* unregister_transaction(t) is noexcept: a failed check becomes a notice, *)
(* and m_trans is cleared whatever the check said.                         *)
UnregisterTransaction(t) ==
  /\ slot' = NoGuest
  /\ open' = open \ {t}

Init ==
  /\ slot = NoGuest
  /\ open = {}

Next ==
  \E t \in Guest :
    \/ RegisterTransaction(t)
    \/ UnregisterTransaction(t)

Spec == Init /\ [][Next]_slotVars

-----------------------------------------------------------------------------
(* The promise of spec 4.2: at most one open transaction per connection,  *)
(* i.e. this module implements OneTransaction with "open" mapped to      *)
(* itself.                                                                 *)
Abstract == INSTANCE OneTransaction
OneOpenTransaction == Abstract!Spec
=============================================================================
