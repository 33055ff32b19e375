------------------------------ MODULE Quoting ------------------------------
(***************************************************************************)
(* Escaping and quoting of connection.cxx: esc (a text for a string       *)
(* literal, through PQescapeStringConn into a buffer of 2n+1 bytes),      *)
(* esc_raw and quote_raw (binary data as a hex bytea literal, through     *)
(* internal::esc_bin), quote_name and both quote_table overloads (through *)
(* PQescapeIdentifier).  libpq's two escape functions are modelled by     *)
(* what their documentation promises; esc_bin lives in a source file this *)
(* repository does not include and is modelled from the spec (Encoding &  *)
(* Escaping: "\x", two hex digits per byte).  The server's reading of the *)
(* texts produced is given by reference definitions of its lexer.         *)
(***************************************************************************)
EXTENDS Integers, Sequences, SequencesExt

CONSTANTS
  TextChar,     \* characters of texts and names
  Invalid,      \* the members of TextChar that are invalid multibyte input
  Byte,         \* byte values of binary data
  MaxQuoteLen   \* longest text, name, binary value and table path

Quote == "'"
DQuote == "\""
Backslash == "\\"
Nul == "NUL"
Bytea == "::bytea"     \* the cast quote_raw appends, as one token

ASSUME Invalid \subseteq TextChar /\ Byte \subseteq 0 .. 255

Returns(v) == [thrown |-> FALSE, value |-> v]
Throws == [thrown |-> TRUE, value |-> <<>>]

HasInvalid(t) == \E i \in DOMAIN t : t[i] \in Invalid

(* c written twice when it must be doubled, else once. *)
Doubled(t, MustDouble(_)) ==
  FoldLeft(LAMBDA out, c : out \o (IF MustDouble(c) THEN <<c, c>> ELSE <<c>>),
           <<>>, t)

(***************************************************************************)
(* libpq, as documented: PQescapeStringConn doubles every quote, and every *)
(* backslash when the session does not have standard_conforming_strings,  *)
(* writes a terminating zero and reports an invalid multibyte sequence in *)
(* err, writing two bytes in its place; PQescapeIdentifier encloses the   *)
(* name in double quotes, doubling those inside, and returns NULL on an   *)
(* invalid sequence.                                                       *)
(***************************************************************************)
PQescapeStringConn(t, std) ==
  Doubled(t, LAMBDA c : c = Quote \/ (c = Backslash /\ ~std) \/ c \in Invalid)
  \o <<Nul>>

PQescapeIdentifier(n) == <<DQuote>> \o Doubled(n, LAMBDA c : c = DQuote) \o <<DQuote>>

(***************************************************************************)
(* esc_to_buf(text, buf): PQescapeStringConn into buf, argument_error when *)
(* err is set; else the number of bytes copied, the zero not counted.     *)
(* esc(text) sizes its string 2 * size(text) + 1, escapes into it and      *)
(* resizes it to what was copied.  An outcome records whether the bytes   *)
(* written stay inside the buffer, and the result.                         *)
(***************************************************************************)
(* Mutant: no room left for the terminating zero. *)
EscBufferSizeNoZero(n) == 2 * n

EscBufferSize(n) == 2 * n + 1

EscToBuf(t, std, size) ==
  LET w == PQescapeStringConn(t, std) IN
  [inBounds |-> Len(w) <= size,
   result   |-> IF HasInvalid(t) THEN Throws ELSE Returns(Len(w) - 1),
   bytes    |-> w]

(* Mutant: the string is resized to include the terminating zero. *)
EscKeepZero(t, std) ==
  LET e == EscToBuf(t, std, EscBufferSize(Len(t))) IN
  [inBounds |-> e.inBounds,
   result   |-> IF e.result.thrown THEN Throws
                ELSE Returns(SubSeq(e.bytes, 1, e.result.value + 1))]

Esc(t, std) ==
  LET e == EscToBuf(t, std, EscBufferSize(Len(t))) IN
  [inBounds |-> e.inBounds,
   result   |-> IF e.result.thrown THEN Throws
                ELSE Returns(SubSeq(e.bytes, 1, e.result.value))]

(* esc_bin: "\x" and two lower-case hex digits per byte. *)
HexDigit == <<"0", "1", "2", "3", "4", "5", "6", "7",
              "8", "9", "a", "b", "c", "d", "e", "f">>

EscBin(bs) ==
  <<Backslash, "x">>
  \o FoldLeft(LAMBDA out, b : out \o <<HexDigit[b \div 16 + 1], HexDigit[(b % 16) + 1]>>,
              <<>>, bs)

EscRaw(bs) == EscBin(bs)

(* quote_raw: std::format("'{}'::bytea", esc_raw(bytes)). *)
QuoteRaw(bs) == <<Quote>> \o EscRaw(bs) \o <<Quote, Bytea>>

(* quote_name: PQescapeIdentifier, or failure when it returns NULL. *)
QuoteName(n) ==
  IF HasInvalid(n) THEN Throws ELSE Returns(PQescapeIdentifier(n))

(* separated_list(".", ...): the parts joined with dots. *)
Joined(parts) ==
  IF parts = <<>> THEN <<>>
  ELSE FoldLeft(LAMBDA out, p : out \o <<".">> \o p, Head(parts), Tail(parts))

(* Mutant: the lambda passes each name through without quote_name. *)
QuoteTableUnquoted(path) == Returns(Joined(path))

(* quote_table(table_path): every name through quote_name, the first      *)
(* failure propagating, joined with dots.  quote_table(string_view) is    *)
(* quote_name of the whole text, i.e. this for a path of one name.        *)
QuoteTable(path) ==
  IF \E i \in DOMAIN path : QuoteName(path[i]).thrown THEN Throws
  ELSE Returns(Joined([i \in DOMAIN path |-> QuoteName(path[i]).value]))

(***************************************************************************)
(* The server's reading of the texts (reference definitions).  A read is  *)
(* [ok, value, next], next the position after what was read.              *)
(***************************************************************************)
NoRead == [ok |-> FALSE, value |-> <<>>, next |-> 0]
Read(v, next) == [ok |-> TRUE, value |-> v, next |-> next]

(* The body of a string literal from i, its opening quote before i: a     *)
(* doubled quote is a quote; without standard_conforming_strings a        *)
(* backslash takes the next character literally.                          *)
RECURSIVE LiteralBody(_, _, _, _)
LiteralBody(t, i, std, acc) ==
  CASE i > Len(t) -> NoRead
    [] t[i] = Quote /\ i < Len(t) /\ t[i + 1] = Quote ->
         LiteralBody(t, i + 2, std, Append(acc, Quote))
    [] t[i] = Quote -> Read(acc, i + 1)
    [] t[i] = Backslash /\ ~std ->
         IF i = Len(t) THEN NoRead ELSE LiteralBody(t, i + 2, std, Append(acc, t[i + 1]))
    [] OTHER -> LiteralBody(t, i + 1, std, Append(acc, t[i]))

(* A string literal starting at i. *)
Literal(t, i, std) ==
  IF i <= Len(t) /\ t[i] = Quote THEN LiteralBody(t, i + 1, std, <<>>) ELSE NoRead

(* A delimited identifier from i, its opening double quote before i; a    *)
(* zero-length one is an error.                                           *)
RECURSIVE IdentBody(_, _, _)
IdentBody(t, i, acc) ==
  CASE i > Len(t) -> NoRead
    [] t[i] = DQuote /\ i < Len(t) /\ t[i + 1] = DQuote ->
         IdentBody(t, i + 2, Append(acc, DQuote))
    [] t[i] = DQuote -> IF acc = <<>> THEN NoRead ELSE Read(acc, i + 1)
    [] OTHER -> IdentBody(t, i + 1, Append(acc, t[i]))

(* A qualified name from i to the end: delimited identifiers and dots. *)
RECURSIVE QualifiedName(_, _, _)
QualifiedName(t, i, acc) ==
  LET r == IF i <= Len(t) /\ t[i] = DQuote THEN IdentBody(t, i + 1, <<>>) ELSE NoRead
  IN  CASE ~r.ok -> NoRead
        [] r.next > Len(t) -> Read(Append(acc, r.value), r.next)
        [] t[r.next] = "." -> QualifiedName(t, r.next + 1, Append(acc, r.value))
        [] OTHER -> NoRead

(***************************************************************************)
(* Each state is one call: esc of a text under either setting of          *)
(* standard_conforming_strings, quote_raw of a binary value, quote_table  *)
(* of a path of non-empty names.                                          *)
(***************************************************************************)
Text == BoundedSeq(TextChar, MaxQuoteLen)
Name == Text \ {<<>>}

Calls ==
  [op : {"esc"}, text : Text, std : BOOLEAN]
  \cup [op : {"quote_raw"}, bytes : BoundedSeq(Byte, MaxQuoteLen)]
  \cup [op : {"quote_table"}, path : BoundedSeq(Name, MaxQuoteLen) \ {<<>>}]

VARIABLE call

Init == call \in Calls

Invoke == \E c \in Calls : call' = c

Next == Invoke

Spec == Init /\ [][Next]_call

(***************************************************************************)
(* Properties                                                              *)
(***************************************************************************)

(* esc's 2n+1-byte buffer holds everything PQescapeStringConn writes, the *)
(* zero included, for every text and either quoting rule, invalid input   *)
(* (written before err is looked at) included.                             *)
EscWithinBuffer ==
  call.op = "esc" => Esc(call.text, call.std).inBounds

(* What esc returns, put between quotes, is read by the server under the  *)
(* same setting of standard_conforming_strings as exactly the text given, *)
(* quotes and backslashes in it included.                                  *)
EscLiteralRoundTrip ==
  (call.op = "esc" /\ ~HasInvalid(call.text)) =>
    LET q == <<Quote>> \o Esc(call.text, call.std).result.value \o <<Quote>> IN
    Literal(q, 1, call.std) = Read(call.text, Len(q) + 1)

(* quote_table's text is read by the server as the qualified name with     *)
(* exactly the path's names, dots and double quotes inside names included; *)
(* it fails only when a name is invalid input.                             *)
QuotedPathRoundTrip ==
  call.op = "quote_table" =>
    LET r == QuoteTable(call.path) IN
    IF \E i \in DOMAIN call.path : HasInvalid(call.path[i]) THEN r.thrown
    ELSE ~r.thrown /\ QualifiedName(r.value, 1, <<>>) = Read(call.path, Len(r.value) + 1)
=============================================================================
