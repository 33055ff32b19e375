# TLA+ models of libpqxx's connection

These modules model `pqxx::connection` (`src/src/connection.cxx`) and the
helpers it relies on (`src/include/pqxx/util.hxx`, the
`connection_transaction` gate, `src/include/pqxx/composite.hxx`). They are checked with TLC. Every action is
translated from the C++ source. `PROJECT.json` maps each definition to the
lines it stands for.

## The system

A `pqxx::connection` owns a libpq handle (`m_conn`, a `PGconn *`). It also
shares a notice hub (`m_notice_waiters`, a `shared_ptr<notice_waiters>`)
with every result it creates. libpq's notice processor for the handle points
at that hub.

On top of the handle the connection keeps:

- one transaction "guest" slot (`m_trans`);
- the legacy notification receivers (`m_receivers`, a multimap from channel to
  receiver);
- the newer notification handlers (`m_notification_handlers`, a map from
  channel to callback);
- state for COPY streaming, escaping and encodings.

The parts interact as follows:

- **Guest slot** (`register_transaction`, `unregister_transaction`,
  `check_unique_register`/`unregister`). A transaction registers before BEGIN
  and unregisters after COMMIT or ROLLBACK. Other parts read the slot:
  `listen` refuses while a transaction is registered, `get_notifs` does not
  drain, and a move is refused (`check_movable`, `check_overwritable`).
- **Notifications** (`add_receiver`, `remove_receiver`, `listen`,
  `get_notifs`, `await_notification`, and `exec`, which ends with
  `get_notifs`). Receivers and handlers both subscribe through LISTEN and
  UNLISTEN on the same server session. `get_notifs` calls every receiver of
  the notification's channel (catching their exceptions), then the channel's
  handler (not catching).
- **Lifecycle** (`init`/`complete_init`/`set_up_state`, the `connect_mode`
  constructor, `poll_connect`, `connecting::process`/`produce`, `close`, the
  move constructor, move assignment, `set_blocking`, `make_result`). These
  operations create, transfer and finish handles, and create, move and
  release hubs.
- **Notice hub** (`pqxx_notice_processor`, `process_notice`,
  `register_errorhandler`/`unregister_errorhandler`, and the part of `close`
  that unregisters errorhandlers). libpq, or a result that outlives the
  connection, hands a notice to the hub. The hub offers it to the
  errorhandlers newest first, then to the notice handler. An errorhandler
  remembers the connection it registered on (`m_home`) and unregisters
  through it, so a move of the connection (which moves the hub) changes
  where that unregistration lands.
- **Unique names** (`adorn_name`, `m_unique_id`). The counter moves with the
  handle in both moves, so a session's names continue.
- **COPY** (`read_copy_line`, `write_copy_line`, `end_copy_write`). These are
  line I/O over libpq's copy state. The stream classes that start a COPY are
  not in this repository.
- **Helpers:** `esc_like`, `check_cast`, `copy_chars`, the BYTEA size
  helpers `size_esc_bin`/`size_unesc_bin`, and composite values
  (`composite_size_buffer`, `composite_into_buf`, `parse_composite`). They
  are pure functions.
- **Escaping and quoting** (`esc_to_buf`, `esc`, `esc_raw`, `quote_raw`,
  `quote_name`, both `quote_table` overloads) and **`connection_string`**
  (with `get_default`). These are pure functions of their arguments, the
  session's `standard_conforming_strings` setting and the process
  environment, around libpq's `PQescapeStringConn`, `PQescapeIdentifier`
  and `PQconninfo`.
- **Not modelled:** encodings, prepared statements, the exec variants,
  session variables, `cancel_query`, `trace` (see below).

The server is part of each model, with the semantics the code depends on:

- LISTEN/UNLISTEN inside a transaction block take effect at COMMIT and are
  discarded on ROLLBACK.
- Notifications are delivered only outside a transaction block.
- The socket and libpq are nondeterministic within libpq's contract:
  `PQconnectPoll` answers READING/WRITING a bounded number of times and then
  OK or FAILED, and an open connection can break at any time.

## Modules

| Module | Models | State (VARIABLES) ↔ code |
|---|---|---|
| `OneTransaction` | abstract: at most one open transaction per connection | `open` |
| `GuestSlot` | `register_transaction`, `unregister_transaction` and the `check_unique_*` contract | `slot` = `m_trans`; `open` = the transactions whose BEGIN has run and whose end has not |
| `Notifications` | `listen`, `add_receiver`, `remove_receiver`, `get_notifs`, `await_notification`, transactions begin/commit/abort, the server's LISTEN and NOTIFY | `handlers` = `m_notification_handlers`; `receivers` = `m_receivers`; `listening`/`pending` = the server's subscriptions and the not-yet-committed LISTEN/UNLISTEN; `arrived`/`inbox` = notifications sent and not yet drained; `consumed`/`got` = history of dispatch per receiver; GuestSlot by INSTANCE |
| `NoticeHub` | the hubs of several connection objects: connect, `close`, destruction, move construction and move assignment (as `check_movable`/`check_overwritable` accept them), `register_errorhandler`, `unregister_errorhandler` (from an errorhandler's destructor, through its `m_home`), `close()`'s unregistration of all, `set_notice_handler`, dispatch of a notice to a hub, `adorn_name` | `cstate`/`conn`/`hub`/`uid` = each object's lifetime, `m_conn`, `m_notice_waiters`, `m_unique_id`; `processor` = libpq's notice-processor argument per handle; `issued` = the ids each session was given; `handlers`/`callback` = each hub's `errorhandlers` and `notice_handler`; `home` = each errorhandler's `m_home`; `registered` = history of registrations, in order; `last` = the dispatch of the step just taken; `crashed` = a null hub or destroyed connection was dereferenced |
| `Copy` | `read_copy_line`, `write_copy_line`, `end_copy_write`, over libpq's COPY state and the server | `mode` = the session's COPY state; `sendq`/`served` = rows sent by the server; `got` = lines returned; `data` = bytes received by the server in COPY FROM; `written` = lines whose write returned; `committed` = rows stored; a failed put keeps or loses COPY mode |
| `EscLike` | `esc_like` as an operator over glyph sequences | `call` = one call (text, escape character); `Like` is a recursive reference matcher for LIKE |
| `Conversions` | `check_cast` (integral branch), `copy_chars`, `size_esc_bin`, `size_unesc_bin` with fixed-width integers | `call` = one call and its arguments |
| `Composite` | `composite_size_buffer`, `composite_into_buf`, `parse_composite`; the field writer and reader from the spec | `call` = the fields of one composite and the buffer size; `ParseComposite` is a recursive parser |
| `Quoting` | `esc_to_buf`, `esc`, `esc_raw`, `quote_raw`, `quote_name`, `quote_table`; libpq's two escape functions by their documented behaviour; `esc_bin` and `separated_list` from the spec | `call` = one call (a text and the session's `standard_conforming_strings`, a binary value, or a table path); `Literal` and `QualifiedName` are reference definitions of the server's lexer |
| `ConnString` | `connection_string`, `get_default` | `call` = one call: whether `m_conn` is set, and for each of PQconninfo's options its value, environment variable and compiled default |
| `Sessions` | abstract: each connection object owns at most one session, moves transfer it, never from or into an object with a transaction | `session`, `trans` |
| `Connection` | connect (blocking and non-blocking), `poll_connect`, `produce`, `close`, move construction and assignment, `set_blocking`, transactions, `make_result`, destruction; `Sessions` by INSTANCE with `session <- conn` | `conn` = `m_conn`; `hub` = `m_notice_waiters`; `trans` = `m_trans != nullptr`; `rw` = `connecting::m_reading/m_writing`; `hstate`/`version`/`processor` = libpq's view of each handle address; `nonblock` = each socket's O_NONBLOCK flag; `rhub` = each result's hub |

Each operation is one action. Its guard comes from the early returns and
checks of the C++ function. Where the function can end in several ways (an
exception thrown before or after a state change), each ending is a disjunct.
For example, `Listen` has three disjuncts:

- the handler is replaced;
- LISTEN runs and the map update happens only if `get_notifs` did not throw;
- UNLISTEN runs and the erase of `lower_bound`'s entry is skipped if
  `get_notifs` threw.

Addresses are model values. A finished handle and a released hub can be handed
out again, as the allocator does.

Omitted paths and their reasons:

- Paths that throw without changing anything are left out as stutter steps:
  a usage error, `PQconnectStart` failing at once, or `complete_init` without
  a handle.
- `~connection` is declared in a header this repository does not include. It
  is modelled from the spec as `close()` followed by the release of the
  members (`Destroy`, marked spec_modelled).

## Runs

| Run | cfg | Expect | Shows |
|---|---|---|---|
| guest_slot_refines | MCGuestSlotRefine.cfg | violation | GuestSlot does not implement OneTransaction: a stray unregister clears the slot and a second transaction registers while the first is open |
| notifications | MCNotifications.cfg | pass | `NotificationsEventuallyFetched` (liveness): every notification sent is fetched in the end, through transactions and throwing handlers. `ReceiverDelivery`: each receiver gets exactly its channel's notifications that were drained while it was registered, including across its own UNLISTEN on removal |
| listen_lower_bound | MCNotificationsLowerBound.cfg | violation | `listen(1, nullptr)` erases channel 2's handler; the server keeps sending 2 to nobody |
| throwing_handler | MCNotificationsThrowingHandler.cfg | violation | a throwing handler makes `listen(c, nullptr)` keep the handler after UNLISTEN |
| connection | MCConnection.cfg | pass | `ExclusiveLiveHandles`: no handle is owned twice or used after PQfinish. `ImplementsSessions`: the objects implement `Sessions` with each object's session its `m_conn` (refinement): a move transfers the handle and empties the source, never from or into an object with a transaction, and a connect never gets a handle an object still holds. |
| set_blocking_inverted | MCConnectionSetBlocking.cfg | violation | `set_blocking(false)`, which asks for non-blocking I/O, makes libpq's non-blocking socket blocking: the POSIX branch clears O_NONBLOCK when `block` is false and sets it when `block` is true (line 564-567), the reverse of the Windows branch. TLC's trace connects and calls `set_blocking(false)`, taking `nonblock` from TRUE to FALSE. `set_blocking(true)` on the same socket sets a flag that is already set: no state changes, so the action property does not see that call |
| failed_move_hub | MCConnectionFailedMove.cfg | violation | a move construction refused by `check_movable` has already moved the hub out: libpq's notice processor for the source points at a freed hub |
| notice_hub | MCNoticeHub.cfg | pass | `NoticesReachOwner`: after any connects, closes, destructions, moves and self-moves, libpq's notices for a handle go to the hub of the object that owns it. `NewestFirstUntilStopped`: each notice is offered to the errorhandlers still registered with its hub in the reverse of their registration order, and the walk stops at the first false. The order comes from a history variable `registered`, which every registration appends to. It does not come from the list the dispatch walks, so a registration that puts a handler at the wrong end is caught. `AdornedNamesFresh`: `adorn_name` never repeats an id on a session, whichever objects held it |
| notice_errorhandler_move | MCNoticeHubMove.cfg | violation | `ListedObserversAlive` fails: an errorhandler registered on a closed connection that is then move-assigned is removed from the wrong hub when destroyed, and the old hub, which results may keep, still lists it |
| copy_streams | MCCopy.cfg | pass | `CopyOutFaithful`: the lines read are the server's rows, in order and with their lengths, and the end marker comes only after the COPY's result was fetched. COPY in is modelled with its failures. This includes a second `PQputCopyData` that fails while the connection stays in COPY mode. No property states what the server stores, because that depends on whether the caller goes on after the failure, and the caller is the stream classes, which are not in this repository (hazard at line 918) |
| helpers | MCHelpers.cfg | pass | `EscapedMatchesOnlyItselfWithoutEscapeChar`: for texts without the escape character, the escaped text as a LIKE pattern matches exactly itself. `CheckCastExact`: `check_cast` throws exactly when the target type cannot hold the value. `CopyCharsInBounds`: `copy_chars` throws exactly when the copy would pass the end of the buffer, and its size_t sum cannot wrap for sizes objects can have. `BinSizeRoundTrip`: `size_unesc_bin` undoes `size_esc_bin`. `CompositeFitsBuffer`: `composite_into_buf` never writes past the estimate it checked. `CompositeRoundTrip`: `parse_composite` gives back the fields `composite_into_buf` rendered, quotes, backslashes and commas included (composites of 0 and 2 fields). `EscWithinBuffer`: everything `PQescapeStringConn` writes, the zero included, fits esc's 2n+1 bytes, under either quoting rule and for invalid input. `EscLiteralRoundTrip`: esc's text between quotes is read by the server, under the same setting, as the original text. `QuotedPathRoundTrip`: `quote_table`'s text reads as the qualified name with exactly the path's names, dots and double quotes in them included, and it fails only for invalid input. |
| composite_single_field | MCHelpersCompositeOneField.cfg | violation | a one-field composite keeps its trailing comma, `(\"x\",)`, so it does not parse back (and overruns the estimate by a byte) |

`SubscriptionsListened` is violated by more than the throwing handler. With
receivers or transactions in the bounds (the throwing_handler run has
neither), removing a handler sends UNLISTEN for a channel a receiver
still waits on (line 457; `remove_receiver` likewise ignores handlers), and
`add_receiver` issues LISTEN inside a transaction block that may abort
(line 408). These are listed as hazards of the same property.

Each property of a passing run has a mutant in `PROJECT.json`. The mutant is
a plausible bug in the mapped code, and TLC finds it violating the property:

- `remove_receiver` draining before the erase;
- the move constructor keeping `rhs.m_conn`;
- `operator=` without `check_overwritable`;
- `get_notifs` keeping a notification whose handler threw at the head of
  the queue;
- `register_errorhandler` putting the handler at the front of the list;
- `operator=` not taking `rhs`'s hub;
- the move constructor not copying `m_unique_id`;
- `read_copy_line` returning the end marker without fetching the result;
- `esc_like` escaping only `_`;
- `check_cast` with `>=`;
- `copy_chars` leaving the terminator out of its check;
- `size_unesc_bin` not subtracting the `\x` prefix;
- `composite_size_buffer` without the terminating zero;
- `composite_into_buf` backspacing the comma only from three fields on;
- `esc` sizing its buffer 2n, without room for the zero;
- `esc` resizing to the count plus one, keeping the zero;
- `quote_table` joining the names without `quote_name`.

`EscLike`'s property carries the proviso "without the escape character"
because `esc_like` does not escape the escape character itself: without the
proviso TLC finds `\` (escape `\`) matching nothing. The spec describes
exactly this behaviour, so it is listed as a hazard, not checked as a
disagreement.

## Bounds

- **GuestSlot:** the refinement run uses five transactions, enough for
  register/unregister/stray-unregister sequences of any order up to the
  point where states repeat. The slot's own
  invariant is checked inside the notifications run, where transactions
  interleave with drains.
- **Notifications:**
  - two channels, so `lower_bound` can land on a different channel;
  - two receivers on one channel, so one may leave while another stays;
  - one transaction;
  - handlers that return or throw;
  - `MaxNotif` = 3 notifications in a behaviour, so a notification can be
    deferred by a transaction, queued behind another, and delivered around a
    receiver's arrival and departure.

  The violation runs shrink the constants to the smallest setting that shows
  the disagreement.
- **Connection:**
  - two connection objects, so there is a source and a target of a move,
    and a `connecting` object and the connection it produces;
  - two handle addresses;
  - two hub addresses, so a connection and a result, or a source and the
    target of a failed move, can hold different hubs;
  - one result;
  - server versions 90000 and 90100;
  - `MaxPolls` = 1: one READING/WRITING answer before OK or FAILED, so the
    poll loop and its `rw` flags are exercised.

  No symmetry is declared, since the run checks a temporal (refinement) property.
  The set_blocking run uses one object, one handle and one hub: a connect
  and one call show the inversion.
- **NoticeHub:** two connection objects, two handles, two hubs, two
  errorhandlers and ids up to 2 (`MaxUniqueId`). That gives a move in
  either direction after both objects connected, a self-move, a notice
  stopped at the newest or passed on to the older errorhandler, and a
  counter taken over by a move and continued. Every answer pattern is tried
  at every notice. Objects, handles, hubs and errorhandlers are symmetry
  sets (`MCNoticeHub`): nothing in the model or its properties names one.
  The violation run uses three objects and one errorhandler. A crash ends
  the program, so neither run checks deadlock. (`ListedObserversAlive` also
  fails with two objects, so the pass run does not check it.)
- **Copy:** lines of 0, 1 and 2 bytes, and up to 3 lines per COPY. A break
  can fall between any two steps, including between a line and its newline,
  and a put can fail with the connection still in COPY mode. A COPY's
  stream holds at most 3 lines and their newlines.
  A broken connection accepts no further step, so deadlock is not checked
  there.
- **Helpers** (one run, `MCHelpers`, whose states are single calls of
  `esc_like`, of a `Conversions` helper, of `composite_into_buf`, of an
  escaping or quoting function or of `connection_string`):
  - `esc_like`: texts of up to 3 glyphs over `a`, `_`, `%`, a backslash and
    one multi-byte glyph. Every such text is compared with every other.
  - integers: signed and unsigned types of 3 and 4 bits, every value;
    `size_t` of 4 bits, with objects up to `PTRDIFF_MAX` and every binary
    size whose escaped form fits.
  - composites: no field or two fields, each of up to two characters among
    a letter, a quote, a backslash and a comma (every character the writer
    escapes or the reader treats specially), with a buffer of exactly the
    estimate or one byte less. One field is left to the violation run,
    where it fails; three fields add nothing the backspacing code tells
    apart from two.
  - escaping and quoting: texts and names of up to two characters among a
    letter, `'`, `"`, a backslash, a dot and one invalid multibyte sequence
    (every character one of the escapers or readers treats specially), with
    `standard_conforming_strings` on and off; binary values of up to two
    bytes among 0x00, 0x0f, 0xa0 and 0xff (both hex digits at both
    extremes); table paths of one or two non-empty names.
  - `connection_string`: two options and two values; each option with or
    without a value, with no environment variable or one that is unset or
    set, and with or without a compiled default. That covers a value equal
    to the compiled default while the variable says otherwise, the case
    that tells the two defaults apart.
- **Deadlock:** MCConnection.cfg does not check for deadlock. The leak that
  `close()` can cause uses up the finite handle addresses, after which
  nothing can connect. That stop is an artefact of the bound.

## Fairness

`NotificationsEventuallyFetched` assumes two things. First, each
transaction ends: weak fairness of commit or abort, since a transaction
object that is not committed is aborted by its destructor. Second, the
program waiting for notifications keeps calling `await_notification`: strong
fairness, because `get_notifs` fetches nothing while a transaction is
registered, so the step is enabled only between transactions.

The other runs check safety only and assume no fairness. No fairness is
assumed for user calls (close, move, exec) or for the server.

## Not modelled, and why

- The errorhandler class and `set_notice_handler` are not in this
  repository. They are modelled from the spec: registration in the
  constructor, self-unregistration in the destructor.
- NoticeHub takes every move as accepted by `check_movable` and
  `check_overwritable`. The refused move construction, which has already
  moved the hub out, is Connection's failed_move_hub run.
- The notice handler is called even after an errorhandler stopped the
  notice (line 75), where spec 4.3 says it gets only notices no observer
  stopped. `Dispatch` records the call (`toCallback`), but no run states the
  spec's rule, because the code's choice looks deliberate for the newer
  `notice_handler` API. The disagreement is listed as a hazard.
- `check_cast`'s floating-point and bool branches.
- The handle leak in `close()`'s catch block (it nulls `m_conn` without
  PQfinish, line 826) is modelled (`CloseFailing`) and listed as a hazard,
  but no run states a leak property.
- `read_copy_line`'s 0 return (only possible in async mode, which is never
  requested). A "-2" error that changes nothing.
- Reentrant calls from a notification handler into the connection: the
  handler is modelled only as returning or throwing.
- Per-receiver exception containment: it needs the multimap's order.
- Payloads, backend pids and names are abstracted away. The properties only
  need to tell channels and notifications apart.
- `write_composite_field` and `parse_composite_field` live in
  `pqxx/internal/array-composite.hxx`, which this repository does not
  include. They are modelled from the spec's description (quote, escape
  quotes and backslashes, comma after each field; read a quoted or unquoted
  field and expect a comma or, after the last, `)` and the end). Fields are
  strings: nulls, other field types and multi-byte encodings are not
  modelled.
- `set_blocking`'s Windows branch: the model follows the POSIX build.
- `adorn_name`'s overflow: its counter is an `int` incremented without a
  check. Names would repeat only after 2^32 calls, and the signed overflow is
  undefined. A model with the real width cannot reach that, and a narrower
  one would not be faithful. NoticeHub bounds the counter below the
  overflow.
- `cancel_query`, session variables, `set_client_encoding`/`encoding_id`,
  `prepare`/`unprepare`, `exec`/`exec_params`/`exec_prepared`, `trace` and
  the server-information accessors: one libpq call each. What they add is
  `make_result` (Connection's `Exec`), `get_notifs` (Notifications'
  `AwaitNotification` stands for every exec that drains notifications),
  `quote_name` around their SQL text (Quoting), and the mapping of libpq's
  -1 to `failure` or `broken_connection` by `is_open()`.
- libpq's `PQescapeStringConn` and `PQescapeIdentifier` are not code of
  this repository and are not in the map: Quoting models them by their
  documented behaviour (double `'`, and `\` without standard strings;
  enclose in `"` and double it; report invalid multibyte input).
- Characters inside connection-string values: `ConnString` treats keywords
  and values as tokens. `connection_string` writes values without conninfo
  quoting (line 1204), so an empty value, or one with a blank, quote or
  backslash, would not read back. At the token level that loss cannot be
  seen, and a round-trip property would hold only because of the
  abstraction, so ConnString states no property. It models which options
  are listed.
- `quote_raw` with `standard_conforming_strings` off: its `\x` text inside
  a plain literal is then read as an escape. With standard strings the
  literal reads back by the shape of the format string alone, which is not
  worth a property; the other case is listed as a hazard.
- `unprepare("")` for the unnamed statement: `DEALLOCATE ""` is a
  zero-length identifier, which the server rejects; statement names are
  not modelled.

## Plan

1. Done:
   - GuestSlot with its refinement check;
   - Notifications;
   - Connection;
   - NoticeHub;
   - Copy;
   - EscLike;
   - Conversions, with the BYTEA size helpers;
   - Composite, with the one-field trailing comma;
   - `set_blocking` in Connection;
   - the Sessions abstraction of Connection and its refinement check;
   - NoticeHub across several connection objects and their moves, with
     `adorn_name`'s counter;
   - the liveness of notification dispatch;
   - Quoting (esc, quote_raw, quote_name, quote_table) against reference
     definitions of the server's lexer, and ConnString.
2. Next:
   - Composition: Notifications with Connection (receivers and
     `check_movable`). The move constructor also moves
     `m_notification_handlers` before `check_movable` can refuse.
   - A handle-leak property for `close()`'s catch block.
