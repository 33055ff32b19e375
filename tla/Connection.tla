----------------------------- MODULE Connection -----------------------------
(***************************************************************************)
(* Lifecycle of pqxx::connection objects (src/src/connection.cxx): the    *)
(* libpq handle m_conn they own, the shared notice hub m_notice_waiters   *)
(* that libpq's notice processor and every result point at, the blocking  *)
(* and non-blocking (pqxx::connecting) ways to open one, close(), move    *)
(* construction and move assignment, transactions registering on it, and  *)
(* results created by it.                                                  *)
(*                                                                         *)
(* Handles and hubs are addresses: a freed one may be handed out again by *)
(* the allocator.  A hub is alive while a connection or a result holds a  *)
(* shared_ptr to it.  The transport (libpq and the server) is             *)
(* nondeterministic within libpq's contract.                              *)
(***************************************************************************)
EXTENDS Integers, FiniteSets

CONSTANTS
  Conn,           \* connection objects (their storage)
  Handle,         \* PGconn addresses
  Hub,            \* notice_waiters addresses
  Result,         \* result objects
  NoHandle,       \* m_conn == nullptr
  NoHub,          \* an empty shared_ptr<notice_waiters>
  NoResult,       \* a result object that does not exist
  ServerVersion,  \* server versions the server may report
  MaxPolls,       \* transport: polls a connection attempt may still need
  AllocMayFail    \* whether allocations inside close() may throw bad_alloc

ASSUME ServerVersion \subseteq Nat /\ MaxPolls \in Nat /\ AllocMayFail \in BOOLEAN

VARIABLES
  cstate,     \* object lifetime: "none", "connecting" (inside a pqxx::connecting), "live"
  conn,       \* m_conn
  hub,        \* m_notice_waiters
  trans,      \* m_trans # nullptr
  rw,         \* pqxx::connecting's m_reading / m_writing: "reading", "writing", "done"
  hstate,     \* libpq: "free", "connecting", "ok", "bad"
  polls,      \* transport: polls left before the attempt must finish
  version,    \* libpq: PQserverVersion of the handle
  processor,  \* libpq: the notice processor argument set on the handle
  rhub,       \* each result's hub, or NoResult
  nonblock    \* the socket's O_NONBLOCK flag, per handle

vars == <<cstate, conn, hub, trans, rw, hstate, polls, version, processor,
          rhub, nonblock>>

TypeOK ==
  /\ cstate \in [Conn -> {"none", "connecting", "live"}]
  /\ conn \in [Conn -> Handle \cup {NoHandle}]
  /\ hub \in [Conn -> Hub \cup {NoHub}]
  /\ trans \in [Conn -> BOOLEAN]
  /\ rw \in [Conn -> {"reading", "writing", "done"}]
  /\ hstate \in [Handle -> {"free", "connecting", "ok", "bad"}]
  /\ polls \in [Handle -> 0 .. MaxPolls]
  /\ version \in [Handle -> ServerVersion]
  /\ processor \in [Handle -> Hub \cup {NoHub}]
  /\ rhub \in [Result -> Hub \cup {NoHub, NoResult}]
  /\ nonblock \in [Handle -> BOOLEAN]

HubAlive(w) == (\E c \in Conn : hub[c] = w) \/ (\E x \in Result : rhub[x] = w)

FreeHandle == {h \in Handle : hstate[h] = "free"}
FreeHub == {w \in Hub : ~HubAlive(w)}

Owned(c) == conn[c] # NoHandle

(* PQfinish(m_conn); m_conn = nullptr.  The socket is closed; its flag   *)
(* is reset, as a new socket at this address starts afresh.              *)
Finish(c) ==
  /\ hstate' = [hstate EXCEPT ![conn[c]] = "free"]
  /\ conn' = [conn EXCEPT ![c] = NoHandle]
  /\ nonblock' = [nonblock EXCEPT ![conn[c]] = TRUE]

(* set_up_state (343-360): server versions up to 90000 are refused. *)

SetUpState(v) == v > 90000

(***************************************************************************)
(* connection(options): init (201-206) connects with PQconnectdb, sets up *)
(* a fresh hub as the handle's notice processor (set_up_notice_handlers,  *)
(* 166-178) and runs complete_init (181-198).  A refused connection, or   *)
(* one whose server set_up_state rejects, is finished and the constructor *)
(* throws: nothing of it remains.                                          *)
(***************************************************************************)
ConnectBlocking(c, h, w, v) ==
  /\ cstate[c] = "none"
  /\ SetUpState(v)
  /\ cstate' = [cstate EXCEPT ![c] = "live"]
  /\ conn' = [conn EXCEPT ![c] = h]
  /\ hub' = [hub EXCEPT ![c] = w]
  /\ hstate' = [hstate EXCEPT ![h] = "ok"]
  /\ version' = [version EXCEPT ![h] = v]
  /\ processor' = [processor EXCEPT ![h] = w]
  /\ nonblock' = [nonblock EXCEPT ![h] = TRUE]
  /\ UNCHANGED <<trans, rw, polls, rhub>>

(* connecting(connstr): connection(connect_mode, ...) (119-135) starts a  *)
(* non-blocking attempt with PQconnectStart; m_reading / m_writing start  *)
(* as false / true.                                                        *)
StartConnect(c, h, w) ==
  /\ cstate[c] = "none"
  /\ cstate' = [cstate EXCEPT ![c] = "connecting"]
  /\ conn' = [conn EXCEPT ![c] = h]
  /\ hub' = [hub EXCEPT ![c] = w]
  /\ rw' = [rw EXCEPT ![c] = "writing"]
  /\ hstate' = [hstate EXCEPT ![h] = "connecting"]
  /\ polls' = [polls EXCEPT ![h] = MaxPolls]
  /\ processor' = [processor EXCEPT ![h] = w]
  /\ nonblock' = [nonblock EXCEPT ![h] = TRUE]
  /\ UNCHANGED <<trans, version, rhub>>

(***************************************************************************)
(* connecting::process (1220-1225) stores what poll_connect (144-163)     *)
(* makes of PQconnectPoll.  FAILED throws broken_connection and leaves     *)
(* the flags as they were; OK on an open handle is "done".  libpq answers *)
(* FAILED for a bad handle and OK again for an established one.           *)
(***************************************************************************)
PollOutcome(st) ==
  CASE st = "reading" -> "reading"
    [] st = "writing" -> "writing"
    [] st = "ok"      -> "done"

Poll(c) ==
  LET h == conn[c] IN
  /\ cstate[c] = "connecting"
  /\ Owned(c)
  /\ \/ /\ hstate[h] = "connecting"
        /\ polls[h] > 0
        /\ \E st \in {"reading", "writing"} :
             rw' = [rw EXCEPT ![c] = PollOutcome(st)]
        /\ polls' = [polls EXCEPT ![h] = @ - 1]
        /\ UNCHANGED <<hstate, version>>
     \/ /\ hstate[h] = "connecting"
        /\ \E v \in ServerVersion :
             /\ hstate' = [hstate EXCEPT ![h] = "ok"]
             /\ version' = [version EXCEPT ![h] = v]
        /\ rw' = [rw EXCEPT ![c] = PollOutcome("ok")]
        /\ UNCHANGED polls
     \/ /\ hstate[h] = "connecting"
        /\ hstate' = [hstate EXCEPT ![h] = "bad"]
        /\ UNCHANGED <<rw, polls, version>>
     \/ /\ hstate[h] = "ok"
        /\ rw' = [rw EXCEPT ![c] = PollOutcome("ok")]
        /\ UNCHANGED <<hstate, polls, version>>
  /\ UNCHANGED <<cstate, conn, hub, trans, processor, rhub, nonblock>>

(***************************************************************************)
(* connecting::produce (1230-1237): usage_error unless done; then         *)
(* complete_init, which finishes the handle if it is not open or the       *)
(* server is refused; then the connection is moved into a new object d.   *)
(***************************************************************************)
Produce(c, d) ==
  /\ cstate[c] = "connecting"
  /\ cstate[d] = "none"
  /\ rw[c] = "done"
  /\ Owned(c)
  /\ \/ /\ hstate[conn[c]] = "ok"
        /\ SetUpState(version[conn[c]])
        /\ cstate' = [cstate EXCEPT ![c] = "none", ![d] = "live"]
        /\ conn' = [conn EXCEPT ![c] = NoHandle, ![d] = conn[c]]
        /\ hub' = [hub EXCEPT ![c] = NoHub, ![d] = hub[c]]
        /\ UNCHANGED <<hstate, nonblock>>
     \/ /\ hstate[conn[c]] # "ok"
        /\ Finish(c)
        /\ UNCHANGED <<cstate, hub>>
     \/ /\ hstate[conn[c]] = "ok"
        /\ ~SetUpState(version[conn[c]])
        /\ Finish(c)
        /\ UNCHANGED <<cstate, hub>>
  /\ UNCHANGED <<trans, rw, polls, version, processor, rhub>>

(***************************************************************************)
(* close() (787-829): nothing to do without a handle.  Otherwise it warns *)
(* about an open transaction, unregisters error handlers and finishes the *)
(* handle.  If one of those steps throws (bad_alloc while formatting the  *)
(* notice or copying the handler list), the catch block nulls m_conn      *)
(* without PQfinish and rethrows.                                          *)
(***************************************************************************)
CloseFailing(c) ==
  /\ conn' = [conn EXCEPT ![c] = NoHandle]
  /\ UNCHANGED <<hstate, nonblock>>

CloseSteps(c) ==
  \/ Finish(c)
  \/ AllocMayFail /\ CloseFailing(c)

Close(c) ==
  /\ cstate[c] = "live"
  /\ Owned(c)
  /\ CloseSteps(c)
  /\ UNCHANGED <<cstate, hub, trans, rw, polls, version, processor, rhub>>

(* The destructor of a connection (or of the connecting wrapping it)       *)
(* closes it and destroys its members, releasing its share of the hub.    *)
(* A transaction must be gone before its connection.                       *)
Destroy(c) ==
  /\ cstate[c] # "none"
  /\ ~trans[c]
  /\ IF Owned(c) THEN Finish(c) ELSE UNCHANGED <<hstate, conn, nonblock>>
  /\ cstate' = [cstate EXCEPT ![c] = "none"]
  /\ hub' = [hub EXCEPT ![c] = NoHub]
  /\ UNCHANGED <<trans, rw, polls, version, processor, rhub>>

(***************************************************************************)
(* connection(connection &&rhs) (108-116): the member initialisers copy   *)
(* the handle and move the hub out of rhs before the body runs            *)
(* check_movable, which throws when rhs has a transaction.  The new       *)
(* object then never exists: its members, the moved hub included, are    *)
(* destroyed, and rhs keeps its handle but no hub.                         *)
(***************************************************************************)
(* Mutant: the body forgets rhs.m_conn = nullptr. *)
MoveConstructKeepSource(c, d) ==
  /\ cstate[c] = "live"
  /\ cstate[d] = "none"
  /\ \/ /\ ~trans[c]
        /\ cstate' = [cstate EXCEPT ![d] = "live"]
        /\ conn' = [conn EXCEPT ![d] = conn[c]]
        /\ hub' = [hub EXCEPT ![d] = hub[c], ![c] = NoHub]
     \/ /\ trans[c]
        /\ hub' = [hub EXCEPT ![c] = NoHub]
        /\ UNCHANGED <<cstate, conn>>
  /\ UNCHANGED <<trans, rw, hstate, polls, version, processor, rhub, nonblock>>

MoveConstruct(c, d) ==
  /\ cstate[c] = "live"
  /\ cstate[d] = "none"
  /\ \/ /\ ~trans[c]
        /\ cstate' = [cstate EXCEPT ![d] = "live"]
        /\ conn' = [conn EXCEPT ![d] = conn[c], ![c] = NoHandle]
        /\ hub' = [hub EXCEPT ![d] = hub[c], ![c] = NoHub]
     \/ /\ trans[c]
        /\ hub' = [hub EXCEPT ![c] = NoHub]
        /\ UNCHANGED <<cstate, conn>>
  /\ UNCHANGED <<trans, rw, hstate, polls, version, processor, rhub, nonblock>>

(***************************************************************************)
(* operator=(connection &&rhs) (242-257): check_overwritable and          *)
(* rhs.check_movable throw before anything changes; then close(), whose   *)
(* exception would propagate with the move not done; then the handle and  *)
(* the hub are taken from rhs.  For d = c, close() empties the handle the *)
(* exchange would take, and the self-move leaves the hub in place.        *)
(***************************************************************************)
(* Mutant: operator= without check_overwritable. *)
MoveAssignUnchecked(d, c) ==
  /\ cstate[d] = "live"
  /\ cstate[c] = "live"
  /\ ~trans[c]
  /\ d # c
  /\ Owned(d)
  /\ hstate' = [hstate EXCEPT ![conn[d]] = "free"]
  /\ nonblock' = [nonblock EXCEPT ![conn[d]] = TRUE]
  /\ conn' = [conn EXCEPT ![c] = NoHandle, ![d] = conn[c]]
  /\ hub' = [hub EXCEPT ![c] = NoHub, ![d] = hub[c]]
  /\ UNCHANGED <<cstate, trans, rw, polls, version, processor, rhub>>

MoveAssign(d, c) ==
  /\ cstate[d] = "live"
  /\ cstate[c] = "live"
  /\ ~trans[d]
  /\ ~trans[c]
  /\ \/ /\ ~Owned(d)
        /\ conn' = [conn EXCEPT ![c] = NoHandle, ![d] = conn[c]]
        /\ hub' = [hub EXCEPT ![c] = NoHub, ![d] = hub[c]]
        /\ UNCHANGED <<hstate, nonblock>>
     \/ /\ Owned(d)
        /\ d # c
        /\ hstate' = [hstate EXCEPT ![conn[d]] = "free"]
        /\ nonblock' = [nonblock EXCEPT ![conn[d]] = TRUE]
        /\ conn' = [conn EXCEPT ![c] = NoHandle, ![d] = conn[c]]
        /\ hub' = [hub EXCEPT ![c] = NoHub, ![d] = hub[c]]
     \/ /\ Owned(d)
        /\ d = c
        /\ Finish(d)
        /\ UNCHANGED hub
     \/ /\ Owned(d)
        /\ AllocMayFail
        /\ CloseFailing(d)
        /\ UNCHANGED hub
  /\ UNCHANGED <<cstate, trans, rw, polls, version, processor, rhub>>

(* register_transaction / unregister_transaction (848-870), as driven by a *)
(* transaction object whose BEGIN succeeds on an open connection.         *)
BeginTransaction(c) ==
  /\ cstate[c] = "live"
  /\ ~trans[c]
  /\ Owned(c)
  /\ hstate[conn[c]] = "ok"
  /\ trans' = [trans EXCEPT ![c] = TRUE]
  /\ UNCHANGED <<cstate, conn, hub, rw, hstate, polls, version,
                 processor, rhub, nonblock>>

EndTransaction(c) ==
  /\ trans[c]
  /\ trans' = [trans EXCEPT ![c] = FALSE]
  /\ UNCHANGED <<cstate, conn, hub, rw, hstate, polls, version,
                 processor, rhub, nonblock>>

(* exec through make_result (260-278): a command on an open handle yields *)
(* a result sharing the connection's hub; any other case throws.          *)
Exec(c, x) ==
  /\ cstate[c] = "live"
  /\ Owned(c)
  /\ hstate[conn[c]] = "ok"
  /\ rhub[x] = NoResult
  /\ rhub' = [rhub EXCEPT ![x] = hub[c]]
  /\ UNCHANGED <<cstate, conn, hub, trans, rw, hstate, polls, version,
                 processor, nonblock>>

DropResult(x) ==
  /\ rhub[x] # NoResult
  /\ rhub' = [rhub EXCEPT ![x] = NoResult]
  /\ UNCHANGED <<cstate, conn, hub, trans, rw, hstate, polls, version,
                 processor, nonblock>>

(* The server or the network drops an established connection. *)
Break(h) ==
  /\ hstate[h] = "ok"
  /\ hstate' = [hstate EXCEPT ![h] = "bad"]
  /\ UNCHANGED <<cstate, conn, hub, trans, rw, polls, version,
                 processor, rhub, nonblock>>

(***************************************************************************)
(* set_blocking(block) (543-575), POSIX branch: fcntl F_GETFL on sock(),  *)
(* which fails for a connection without a handle (sock() is -1) and then  *)
(* throws broken_connection with nothing changed; then O_NONBLOCK is set  *)
(* when block is true and cleared when it is false, and F_SETFL stores    *)
(* the flags.                                                              *)
(***************************************************************************)
SetBlocking(c, block) ==
  /\ cstate[c] = "live"
  /\ Owned(c)
  /\ nonblock' = [nonblock EXCEPT ![conn[c]] = block]
  /\ UNCHANGED <<cstate, conn, hub, trans, rw, hstate, polls, version,
                 processor, rhub>>

Init ==
  /\ cstate = [c \in Conn |-> "none"]
  /\ conn = [c \in Conn |-> NoHandle]
  /\ hub = [c \in Conn |-> NoHub]
  /\ trans = [c \in Conn |-> FALSE]
  /\ rw = [c \in Conn |-> "writing"]
  /\ hstate = [h \in Handle |-> "free"]
  /\ polls = [h \in Handle |-> 0]
  /\ version = [h \in Handle |-> CHOOSE v \in ServerVersion : TRUE]
  /\ processor = [h \in Handle |-> NoHub]
  /\ rhub = [x \in Result |-> NoResult]
  /\ nonblock = [h \in Handle |-> TRUE]

Next ==
  \/ \E c \in Conn, h \in FreeHandle, w \in FreeHub :
       \/ \E v \in ServerVersion : ConnectBlocking(c, h, w, v)
       \/ StartConnect(c, h, w)
  \/ \E c \in Conn :
       \/ Poll(c) \/ Close(c) \/ Destroy(c)
       \/ BeginTransaction(c) \/ EndTransaction(c)
       \/ \E block \in BOOLEAN : SetBlocking(c, block)
  \/ \E c, d \in Conn : Produce(c, d) \/ MoveConstruct(c, d) \/ MoveAssign(d, c)
  \/ \E c \in Conn, x \in Result : Exec(c, x)
  \/ \E x \in Result : DropResult(x)
  \/ \E h \in Handle : Break(h)

Spec == Init /\ [][Next]_vars

(***************************************************************************)
(* Properties                                                              *)
(***************************************************************************)

(* Every handle a connection object holds is allocated and held by no     *)
(* other object: move construction, move assignment (self-assignment      *)
(* included), produce() and close() never leave two owners of one PGconn  *)
(* nor an owner of a finished one.                                         *)
ExclusiveLiveHandles ==
  \A c \in Conn : Owned(c) =>
     /\ hstate[conn[c]] # "free"
     /\ \A d \in Conn \ {c} : conn[d] # conn[c]

(* The connection objects implement the session promise of the spec's   *)
(* Connection entity, with each object's session its m_conn: a handle is *)
(* owned once, a move (move construction, move assignment, produce())    *)
(* transfers it and empties the source, an object with a registered       *)
(* transaction is never moved from or into (check_movable,                *)
(* check_overwritable), and a new connection never gets a handle an      *)
(* object still holds.  Failed connects, closes (the failing ones too)   *)
(* and destruction only end sessions.                                      *)
Abstract == INSTANCE Sessions WITH Session <- Handle, None <- NoHandle,
                                   session <- conn, trans <- trans
ImplementsSessions == Abstract!Spec

(* After set_blocking(block) returns, the connection's socket is in the  *)
(* mode asked for: blocking I/O exactly when block is true, as the        *)
(* Windows branch (FIONBIO = not block, 548) makes it.  libpq itself      *)
(* opens every socket non-blocking, so the step that shows a wrong mode   *)
(* is set_blocking(false): a set_blocking(true) that leaves the flag set  *)
(* changes no state and is not a step this property examines.             *)
SetBlockingHonoured ==
  [][\A c \in Conn, block \in BOOLEAN :
       SetBlocking(c, block) => nonblock'[conn[c]] = ~block]_vars

(* The notice processor libpq holds for a handle in use points at a hub   *)
(* that still exists (the reason set_up_notice_handlers passes the hub and *)
(* not the connection: comment at 172-175).                                *)
NoticeTargetsLive ==
  \A h \in Handle :
    (hstate[h] # "free" /\ processor[h] # NoHub) => HubAlive(processor[h])
=============================================================================
