--------------------------------- MODULE Copy ---------------------------------
(***************************************************************************)
(* The COPY sub-protocol as the connection drives it (src/src/connection. *)
(* cxx 872-943): read_copy_line for COPY TO STDOUT, write_copy_line and   *)
(* end_copy_write for COPY FROM STDIN, over libpq's copy state and the    *)
(* server.  A line is abstracted to its length in bytes; the server       *)
(* stores the rows it parses out of the byte stream at the end of a COPY  *)
(* FROM.  The connection may break at any point.                          *)
(***************************************************************************)
EXTENDS Integers, Sequences, SequencesExt

CONSTANTS
  LineLen,    \* the lengths a line may have
  MaxLines    \* most lines in one COPY

NL == -1      \* the "\n" write_copy_line sends after each line

VARIABLES
  mode,       \* libpq/server: "idle", "copy_out", "out_done" (CopyDone sent,
              \* result pending), "copy_in", "bad"
  sendq,      \* copy out: rows the server sent that the client has not read
  served,     \* copy out: every row the server sent in this COPY
  got,        \* copy out: lines read_copy_line returned
  data,       \* copy in: the byte stream the server received, lines and NLs
  written,    \* copy in: lines whose write_copy_line returned
  committed,  \* copy in: the rows the server stored, or <<>> until the end
  ended       \* the last COPY ended normally: "no", "out", "in"

vars == <<mode, sendq, served, got, data, written, committed, ended>>

(* The server splits the stream at every NL into rows; PostgreSQL also     *)
(* accepts a last row without a newline.                                   *)
Rows(d) ==
  LET step(acc, b) ==
        IF b = NL THEN [rows |-> Append(acc.rows, acc.cur), cur |-> 0]
        ELSE [acc EXCEPT !.cur = @ + b]
      r == FoldLeft(step, [rows |-> <<>>, cur |-> 0], d)
  IN IF d # <<>> /\ Last(d) # NL THEN Append(r.rows, r.cur) ELSE r.rows

(* The query of a COPY ... TO STDOUT / FROM STDIN, run by the stream       *)
(* classes outside this library's connection code.                         *)
StartCopyOut ==
  /\ mode = "idle"
  /\ mode' = "copy_out"
  /\ sendq' = <<>> /\ served' = <<>> /\ got' = <<>> /\ ended' = "no"
  /\ UNCHANGED <<data, written, committed>>

StartCopyIn ==
  /\ mode = "idle"
  /\ mode' = "copy_in"
  /\ data' = <<>> /\ written' = <<>> /\ committed' = <<>> /\ ended' = "no"
  /\ UNCHANGED <<sendq, served, got>>

(* The server sends a row (its bytes and the row's newline), or CopyDone   *)
(* followed by the COPY's command result.                                   *)
ServerSends(l) ==
  /\ mode = "copy_out"
  /\ Len(served) < MaxLines
  /\ sendq' = Append(sendq, l + 1)
  /\ served' = Append(served, l)
  /\ UNCHANGED <<mode, got, data, written, committed, ended>>

ServerDone ==
  /\ mode = "copy_out"
  /\ mode' = "out_done"
  /\ UNCHANGED <<sendq, served, got, data, written, committed, ended>>

(***************************************************************************)
(* read_copy_line: PQgetCopyData(async = false) blocks until a row, the   *)
(* end of the COPY (-1) or an error (-2, which throws and changes         *)
(* nothing).  A row's size counts its terminator, which is dropped.  At   *)
(* the end the COPY's result is fetched with PQgetResult and checked by   *)
(* make_result before the end marker (nullptr, 0) is returned.            *)
(***************************************************************************)
TextLen(lineLen) == lineLen - 1

GetCopyResult ==
  /\ mode' = "idle"
  /\ ended' = "out"

(* Mutant: the end marker is returned without fetching the result. *)
ReadCopyLineNoResult ==
  /\ \/ /\ mode \in {"copy_out", "out_done"}
        /\ sendq # <<>>
        /\ got' = Append(got, TextLen(Head(sendq)))
        /\ sendq' = Tail(sendq)
        /\ UNCHANGED <<mode, ended>>
     \/ /\ mode = "out_done"
        /\ sendq = <<>>
        /\ ended' = "out"
        /\ UNCHANGED <<mode, sendq, got>>
  /\ UNCHANGED <<served, data, written, committed>>

ReadCopyLine ==
  /\ \/ /\ mode \in {"copy_out", "out_done"}
        /\ sendq # <<>>
        /\ got' = Append(got, TextLen(Head(sendq)))
        /\ sendq' = Tail(sendq)
        /\ UNCHANGED <<mode, ended>>
     \/ /\ mode = "out_done"
        /\ sendq = <<>>
        /\ GetCopyResult
        /\ UNCHANGED <<sendq, got>>
  /\ UNCHANGED <<served, data, written, committed>>

(***************************************************************************)
(* write_copy_line: check_cast of the size (lines are short), then two    *)
(* PQputCopyData calls, the line and "\n"; a non-positive answer throws   *)
(* failure.  libpq answers -1 when the connection is broken, and also     *)
(* when it cannot grow its output buffer, the connection staying in COPY  *)
(* mode.  The second put can fail after the first has queued the line;  *)
(* a first put that fails changes nothing.  A COPY's stream holds at most *)
(* MaxLines lines and their newlines.                                      *)
(***************************************************************************)
WriteCopyLine(l) ==
  /\ mode = "copy_in"
  /\ Len(written) < MaxLines /\ Len(data) < 2 * MaxLines
  /\ \/ /\ data' = data \o <<l, NL>>
        /\ written' = Append(written, l)
        /\ UNCHANGED mode
     \/ /\ data' = data \o <<l>>
        /\ mode' \in {"bad", "copy_in"}
        /\ UNCHANGED written
  /\ UNCHANGED <<sendq, served, got, committed, ended>>

(* end_copy_write: PQputCopyEnd answers 1 on a live connection (-1 on a   *)
(* broken one throws and changes nothing); the server stores the rows and *)
(* the result is fetched and checked by make_result.                       *)
EndCopyWrite ==
  /\ mode = "copy_in"
  /\ committed' = Rows(data)
  /\ mode' = "idle"
  /\ ended' = "in"
  /\ UNCHANGED <<sendq, served, got, data, written>>

(* The connection to the server is lost; a COPY in progress is aborted.   *)
Break ==
  /\ mode # "bad"
  /\ mode' = "bad"
  /\ UNCHANGED <<sendq, served, got, data, written, committed, ended>>

Init ==
  /\ mode = "idle"
  /\ sendq = <<>> /\ served = <<>> /\ got = <<>>
  /\ data = <<>> /\ written = <<>> /\ committed = <<>>
  /\ ended = "no"

Next ==
  \/ StartCopyOut \/ StartCopyIn
  \/ \E l \in LineLen : ServerSends(l) \/ WriteCopyLine(l)
  \/ ServerDone \/ ReadCopyLine \/ EndCopyWrite \/ Break

Spec == Init /\ [][Next]_vars

(***************************************************************************)
(* Properties                                                              *)
(***************************************************************************)

(* read_copy_line returns the server's rows in order with their lengths,  *)
(* and once it has returned the end marker every row has been read and    *)
(* the COPY's result fetched, so the connection is no longer in COPY mode. *)
CopyOutFaithful ==
  /\ IsPrefix(got, served)
  /\ ended = "out" => got = served /\ mode \in {"idle", "bad"}
=============================================================================
