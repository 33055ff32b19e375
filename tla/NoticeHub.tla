------------------------------ MODULE NoticeHub ------------------------------
(***************************************************************************)
(* The notice hubs (notice_waiters) of connection objects and what a move *)
(* of a connection carries (src/src/connection.cxx 64-93, 108-116,        *)
(* 119-141, 166-179, 242-257, 369-380, 698-720, 787-829, 1066-1073).      *)
(*                                                                         *)
(* A connection makes its hub when it connects and points libpq's notice  *)
(* processor for its handle at it; moving the connection moves the        *)
(* handle, the hub and the unique-id counter.  errorhandler objects       *)
(* register at the end of the hub of the connection they are given and    *)
(* remember that connection (m_home); their destructor, and close(),      *)
(* unregister them through m_home.  A notice, from libpq or from a result *)
(* that outlives the connection, goes to a hub's errorhandlers newest     *)
(* first until one returns false, and to its notice handler.              *)
(*                                                                         *)
(* The errorhandler class is not in this repository: its constructor      *)
(* (register through the connection, remember it) and unregister() (if   *)
(* m_home, unregister through it and clear it) are modelled from the      *)
(* spec.  Moves refused by check_movable / check_overwritable are         *)
(* Connection's concern; here every move is one they accept.  Dereferencing *)
(* a null hub or a destroyed connection ends the program (crashed).       *)
(***************************************************************************)
EXTENDS Integers, Sequences, SequencesExt

CONSTANTS
  Conn,         \* connection objects (their storage)
  Handle,       \* PGconn addresses, each used by one session
  Hub,          \* notice_waiters objects
  Observer,     \* errorhandler objects
  NoHandle,     \* m_conn == nullptr
  NoHub,        \* an empty shared_ptr<notice_waiters>
  NoHome,       \* an errorhandler's m_home == nullptr
  MaxUniqueId   \* bound on m_unique_id (an int: 2^31 - 1 in the code)

VARIABLES
  cstate,     \* object lifetime: "unborn", "live", "dead"
  conn,       \* m_conn
  hub,        \* m_notice_waiters
  uid,        \* m_unique_id
  processor,  \* libpq: the notice processor argument set on each handle
  issued,     \* ids adorn_name has handed out on each handle's session
  handlers,   \* each hub's errorhandlers, oldest first
  callback,   \* each hub's notice_handler is set
  home,       \* each errorhandler's m_home
  alive,      \* errorhandlers constructed and not yet destroyed
  used,       \* errorhandlers constructed at some point
  registered, \* history: every errorhandler in the order it registered
  last,       \* the dispatch the step just taken made, if it was a notice:
              \* hub, errorhandlers called, their answers, whether the
              \* notice handler was called
  crashed     \* the program dereferenced a null hub or a destroyed object

vars == <<cstate, conn, hub, uid, processor, issued, handlers, callback,
          home, alive, used, registered, last, crashed>>

objVars == <<cstate, conn, hub, uid, processor, issued>>
hubVars == <<handlers, callback, home, alive, used, registered>>

NoDispatch == [hub |-> NoHub, calls |-> <<>>, answers |-> [o \in {} |-> TRUE],
               toCallback |-> FALSE]

TypeOK ==
  /\ cstate \in [Conn -> {"unborn", "live", "dead"}]
  /\ conn \in [Conn -> Handle \cup {NoHandle}]
  /\ hub \in [Conn -> Hub \cup {NoHub}]
  /\ uid \in [Conn -> 0 .. MaxUniqueId]
  /\ processor \in [Handle -> Hub \cup {NoHub}]
  /\ issued \in [Handle -> SUBSET (1 .. MaxUniqueId)]
  /\ handlers \in [Hub -> Seq(Observer)]
  /\ callback \in [Hub -> BOOLEAN]
  /\ home \in [Observer -> Conn \cup {NoHome}]
  /\ alive \subseteq used /\ used \subseteq Observer
  /\ registered \in Seq(Observer)
  /\ crashed \in BOOLEAN

(* A hub exists once a connection made it; results may keep it alive     *)
(* after every connection has let go of it.                                *)
MadeHubs == {processor[h] : h \in Handle} \ {NoHub}
FreshHandles == {h \in Handle : processor[h] = NoHub}

(* A connection an errorhandler can unregister through: it exists and    *)
(* has a hub to remove it from.                                            *)
Reachable(c) == cstate[c] = "live" /\ hub[c] # NoHub

(* The loop of process_notice_raw: from the newest errorhandler, call each *)
(* and go on while it answers true.                                        *)
RECURSIVE Chain(_, _)
Chain(r, answer) ==
  IF r = <<>> THEN <<>>
  ELSE <<Head(r)>> \o (IF answer[Head(r)] THEN Chain(Tail(r), answer) ELSE <<>>)

(* The answers kept are those of the errorhandlers called. *)
Answered(calls, answer) == [o \in Range(calls) |-> answer[o]]

(* process_notice_raw, reached from pqxx_notice_processor or from          *)
(* connection::process_notice; an empty message is dropped before.        *)
Dispatch(w, answer) ==
  LET calls == Chain(Reverse(handlers[w]), answer) IN
  [hub |-> w, calls |-> calls, answers |-> Answered(calls, answer),
   toCallback |-> callback[w]]

(***************************************************************************)
(* errorhandler::unregister() through the gate, one step of close()'s     *)
(* loop or of the destructor: if m_home is set, m_home->                   *)
(* unregister_errorhandler(this) (list::remove on m_home's hub), then     *)
(* m_home = nullptr.  st holds the hub lists, the homes and the crash.    *)
(***************************************************************************)
Detach(st, o) ==
  LET t == st.home[o] IN
  CASE st.crashed \/ t = NoHome -> st
    [] ~Reachable(t) -> [st EXCEPT !.crashed = TRUE]
    [] OTHER -> [st EXCEPT !.lists[hub[t]] = Remove(@, o), !.home[o] = NoHome]

(* close() on an open connection: copy its hub's list and unregister each *)
(* errorhandler in it, newest first; then PQfinish and m_conn = nullptr.  *)
(* A closed connection's close() returns at once.                          *)
CloseHub(c) ==
  FoldLeft(Detach, [lists |-> handlers, home |-> home, crashed |-> crashed],
           Reverse(handlers[hub[c]]))

(* The effect of close() on the hubs and homes, and whether it crashed. *)
CloseEffect(c) ==
  LET st == IF conn[c] # NoHandle /\ hub[c] # NoHub THEN CloseHub(c)
            ELSE [lists |-> handlers, home |-> home, crashed |-> crashed]
  IN  /\ handlers' = st.lists
      /\ home' = st.home
      /\ crashed' = st.crashed

(***************************************************************************)
(* Actions of the connection objects                                      *)
(***************************************************************************)

(* connection(options) (init, 201-214, with set_up_notice_handlers and    *)
(* complete_init), or connection(connect_mode, ...) (119-136): a new      *)
(* handle, a new hub, the notice processor pointed at it; m_unique_id 0. *)
Connect(c, h, w) ==
  /\ cstate[c] = "unborn"
  /\ cstate' = [cstate EXCEPT ![c] = "live"]
  /\ conn' = [conn EXCEPT ![c] = h]
  /\ hub' = [hub EXCEPT ![c] = w]
  /\ processor' = [processor EXCEPT ![h] = w]
  /\ UNCHANGED <<uid, issued, hubVars, crashed>>

(* connection(connection &&rhs) (108-116), check_movable passing. *)
(* Mutant: m_unique_id not taken from rhs (left at 0). *)
MoveConstructFreshId(c, d) ==
  /\ cstate[c] = "live"
  /\ cstate[d] = "unborn"
  /\ cstate' = [cstate EXCEPT ![d] = "live"]
  /\ conn' = [conn EXCEPT ![d] = conn[c], ![c] = NoHandle]
  /\ hub' = [hub EXCEPT ![d] = hub[c], ![c] = NoHub]
  /\ UNCHANGED <<uid, processor, issued, hubVars, crashed>>

MoveConstruct(c, d) ==
  /\ cstate[c] = "live"
  /\ cstate[d] = "unborn"
  /\ cstate' = [cstate EXCEPT ![d] = "live"]
  /\ conn' = [conn EXCEPT ![d] = conn[c], ![c] = NoHandle]
  /\ hub' = [hub EXCEPT ![d] = hub[c], ![c] = NoHub]
  /\ uid' = [uid EXCEPT ![d] = uid[c]]
  /\ UNCHANGED <<processor, issued, hubVars, crashed>>

(* operator=(connection &&rhs) (242-257), the checks passing: close()      *)
(* then take rhs's handle, m_unique_id and hub.  For d = c the exchange   *)
(* finds the handle close() emptied and the self-move keeps the hub.     *)
(* Mutant: the hub is not taken from rhs. *)
MoveAssignKeepHub(d, c) ==
  /\ cstate[d] = "live" /\ cstate[c] = "live"
  /\ CloseEffect(d)
  /\ conn' = [conn EXCEPT ![d] = IF d = c THEN NoHandle ELSE conn[c],
                          ![c] = NoHandle]
  /\ uid' = [uid EXCEPT ![d] = uid[c]]
  /\ UNCHANGED <<cstate, hub, processor, issued, callback, alive, used, registered>>

MoveAssign(d, c) ==
  /\ cstate[d] = "live" /\ cstate[c] = "live"
  /\ CloseEffect(d)
  /\ conn' = [conn EXCEPT ![d] = IF d = c THEN NoHandle ELSE conn[c],
                          ![c] = NoHandle]
  /\ uid' = [uid EXCEPT ![d] = uid[c]]
  /\ hub' = IF d = c THEN hub ELSE [hub EXCEPT ![d] = hub[c], ![c] = NoHub]
  /\ UNCHANGED <<cstate, processor, issued, callback, alive, used, registered>>

Close(c) ==
  /\ cstate[c] = "live"
  /\ conn[c] # NoHandle
  /\ CloseEffect(c)
  /\ conn' = [conn EXCEPT ![c] = NoHandle]
  /\ UNCHANGED <<cstate, hub, uid, processor, issued, callback, alive, used, registered>>

(* ~connection(): close(), then the members go, the share of the hub too. *)
Destroy(c) ==
  /\ cstate[c] = "live"
  /\ CloseEffect(c)
  /\ cstate' = [cstate EXCEPT ![c] = "dead"]
  /\ conn' = [conn EXCEPT ![c] = NoHandle]
  /\ hub' = [hub EXCEPT ![c] = NoHub]
  /\ UNCHANGED <<uid, processor, issued, callback, alive, used, registered>>

(* adorn_name(n) (1066-1073): ++m_unique_id and the name n_<id>, or x<id> *)
(* for an empty n.  No name of the one form has the other's shape and the *)
(* id is the text after the last '_', so names differ when ids differ;    *)
(* the prefix is left out.  The name is used on the current session.       *)
AdornName(c) ==
  /\ cstate[c] = "live"
  /\ uid[c] < MaxUniqueId
  /\ uid' = [uid EXCEPT ![c] = @ + 1]
  /\ issued' = IF conn[c] = NoHandle THEN issued
               ELSE [issued EXCEPT ![conn[c]] = @ \cup {uid[c] + 1}]
  /\ UNCHANGED <<cstate, conn, hub, processor, hubVars, crashed>>

(***************************************************************************)
(* Actions of the errorhandlers and the hubs                              *)
(***************************************************************************)

(* Mutant: the errorhandler is put at the front of the list. *)
RegisterErrorhandlerFront(list, o) == <<o>> \o list

(* register_errorhandler (698-701): push_back on the hub's list. *)
RegisterErrorhandler(list, o) == Append(list, o)

(* errorhandler(connection &cx): cx.register_errorhandler(this), m_home = &cx. *)
Register(o, c) ==
  /\ o \notin used
  /\ cstate[c] = "live"
  /\ IF hub[c] = NoHub
       THEN /\ crashed' = TRUE
            /\ UNCHANGED <<handlers, home, alive, used, registered>>
       ELSE /\ handlers' = [handlers EXCEPT ![hub[c]] = RegisterErrorhandler(@, o)]
            /\ home' = [home EXCEPT ![o] = c]
            /\ alive' = alive \cup {o}
            /\ used' = used \cup {o}
            /\ registered' = Append(registered, o)
            /\ UNCHANGED crashed
  /\ UNCHANGED <<objVars, callback>>

(* ~errorhandler(): unregister() through m_home (704-710). *)
Unregister(o) ==
  /\ o \in alive
  /\ LET st == Detach([lists |-> handlers, home |-> home, crashed |-> crashed], o)
     IN  /\ handlers' = st.lists
         /\ home' = st.home
         /\ crashed' = st.crashed
  /\ alive' = IF crashed' THEN alive ELSE alive \ {o}
  /\ UNCHANGED <<objVars, callback, used, registered>>

(* set_notice_handler on a connection installs or clears its hub's        *)
(* callback.                                                                *)
SetNoticeHandler(c, b) ==
  /\ cstate[c] = "live"
  /\ hub[c] # NoHub
  /\ callback' = [callback EXCEPT ![hub[c]] = b]
  /\ UNCHANGED <<objVars, handlers, home, alive, used, registered, crashed>>

(* A notice reaches a hub; each errorhandler called answers true (go on)  *)
(* or false (stop).                                                        *)
Notice(w) ==
  /\ w \in MadeHubs
  /\ \E answer \in [Observer -> BOOLEAN] : last' = Dispatch(w, answer)
  /\ UNCHANGED <<objVars, handlers, callback, home, alive, used, registered, crashed>>

Init ==
  /\ cstate = [c \in Conn |-> "unborn"]
  /\ conn = [c \in Conn |-> NoHandle]
  /\ hub = [c \in Conn |-> NoHub]
  /\ uid = [c \in Conn |-> 0]
  /\ processor = [h \in Handle |-> NoHub]
  /\ issued = [h \in Handle |-> {}]
  /\ handlers = [w \in Hub |-> <<>>]
  /\ callback = [w \in Hub |-> FALSE]
  /\ home = [o \in Observer |-> NoHome]
  /\ alive = {} /\ used = {}
  /\ registered = <<>>
  /\ last = NoDispatch
  /\ crashed = FALSE

(* Nothing happens after the program crashed.  last records only the     *)
(* dispatch of the step just taken.                                         *)
Step(A) == ~crashed /\ last' = NoDispatch /\ A

Next ==
  \/ ~crashed /\ \E w \in Hub : Notice(w)
  \/ Step(\E c \in Conn, h \in FreshHandles, w \in Hub \ MadeHubs : Connect(c, h, w))
  \/ Step(\E c, d \in Conn : MoveConstruct(c, d))
  \/ Step(\E c \in Conn : Close(c))
  \/ Step(\E c, d \in Conn : MoveAssign(d, c))
  \/ Step(\E c \in Conn : Destroy(c))
  \/ Step(\E c \in Conn : AdornName(c))
  \/ Step(\E o \in Observer, c \in Conn : Register(o, c))
  \/ Step(\E o \in Observer : Unregister(o))
  \/ Step(\E c \in Conn, b \in BOOLEAN : SetNoticeHandler(c, b))

Spec == Init /\ [][Next]_vars

(***************************************************************************)
(* Properties                                                              *)
(***************************************************************************)

(* Every errorhandler in a hub's list is alive: one destroyed, before or  *)
(* after its connection closed or moved, is never called by a later       *)
(* notice (which may come from a result that outlives the connection).    *)
ListedObserversAlive ==
  \A w \in Hub : \A i \in 1 .. Len(handlers[w]) : handlers[w][i] \in alive

(* A notice reaches the errorhandlers still registered with its hub in   *)
(* the reverse of the order they registered, whatever closes, moves and    *)
(* unregistrations came between, and stops at the first that answers      *)
(* false (spec 4.3 and 6).  The order is taken from the history of         *)
(* registrations, not from the hub's list the dispatch walks.              *)
NewestFirstUntilStopped ==
  [][\A w \in Hub :
       Notice(w) =>
         LET r == Reverse(SelectSeq(registered, LAMBDA o : o \in Range(handlers[w])))
             k == Len(last'.calls)
         IN  /\ last'.calls = SubSeq(r, 1, k)
             /\ \A i \in 1 .. k - 1 : last'.answers[r[i]]
             /\ k < Len(r) => (k > 0 /\ ~last'.answers[r[k]])]_vars

(* What libpq reports on a connection's handle reaches the hub that the   *)
(* connection's own errorhandlers and notice handler are registered with, *)
(* after any sequence of moves, self-moves, closes and destructions.      *)
NoticesReachOwner ==
  \A c \in Conn : conn[c] # NoHandle => processor[conn[c]] = hub[c]

(* adorn_name never hands out a name twice on one session, however the    *)
(* connection holding it was moved (the counter travels with the handle). *)
AdornedNamesFresh ==
  [][\A c \in Conn :
       (AdornName(c) /\ conn[c] # NoHandle) => uid[c] + 1 \notin issued[conn[c]]]_vars
====
