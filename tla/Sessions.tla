------------------------------ MODULE Sessions ------------------------------
(***************************************************************************)
(* What a connection object promises about its transport handle (spec,   *)
(* Connection entity): each object owns at most one session, no session   *)
(* is owned twice, moving transfers the session and empties the source,  *)
(* and an object with a registered transaction is neither moved from nor  *)
(* moved into.  A session only ever starts fresh and may end at any time. *)
(***************************************************************************)
CONSTANTS
  Conn,      \* connection objects
  Session,   \* session identities
  None       \* no session

VARIABLES
  session,   \* the session each object owns, or None
  trans      \* whether a transaction is registered on the object

Held == {session[c] : c \in Conn} \ {None}

Open(c, s) ==
  /\ session[c] = None
  /\ s \notin Held
  /\ session' = [session EXCEPT ![c] = s]
  /\ UNCHANGED trans

End(c) ==
  /\ session[c] # None
  /\ session' = [session EXCEPT ![c] = None]
  /\ UNCHANGED trans

(* A move into d drops whatever session d had. *)
Move(c, d) ==
  /\ c # d
  /\ session[c] # None
  /\ ~trans[c]
  /\ ~trans[d]
  /\ session' = [session EXCEPT ![d] = session[c], ![c] = None]
  /\ UNCHANGED trans

Begin(c) ==
  /\ session[c] # None
  /\ ~trans[c]
  /\ trans' = [trans EXCEPT ![c] = TRUE]
  /\ UNCHANGED session

Finish(c) ==
  /\ trans[c]
  /\ trans' = [trans EXCEPT ![c] = FALSE]
  /\ UNCHANGED session

Init ==
  /\ session = [c \in Conn |-> None]
  /\ trans = [c \in Conn |-> FALSE]

Next ==
  \/ \E c \in Conn, s \in Session : Open(c, s)
  \/ \E c \in Conn : End(c) \/ Begin(c) \/ Finish(c)
  \/ \E c, d \in Conn : Move(c, d)

Spec == Init /\ [][Next]_<<session, trans>>
=============================================================================
