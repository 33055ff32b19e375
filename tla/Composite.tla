------------------------------ MODULE Composite ------------------------------
(***************************************************************************)
(* Composite values (src/include/pqxx/composite.hxx): composite_into_buf  *)
(* renders string fields as "(f1,f2,...)" into a caller's buffer after    *)
(* checking it against composite_size_buffer's estimate; parse_composite  *)
(* reads such a text back into a fixed number of fields.  The per-field   *)
(* helpers write_composite_field and parse_composite_field live in        *)
(* pqxx/internal/array-composite.hxx, which this repository does not      *)
(* include: they are modelled from the spec (Encoding & Escaping) and    *)
(* marked so in the map.  Text is a sequence of one-byte characters       *)
(* (MONOBYTE encoding); the terminating zero is the character Nul.         *)
(***************************************************************************)
EXTENDS Integers, Sequences, SequencesExt

CONSTANTS
  Char,         \* characters a field may contain
  Arity,        \* numbers of fields of the composite types checked
  MaxFieldLen   \* longest field checked

Quote == "\""
Backslash == "\\"
Nul == "NUL"

ASSUME Nul \notin Char /\ Arity \subseteq Nat

Field == BoundedSeq(Char, MaxFieldLen)

(* The outcome of a call: the value it returns, or conversion_error. *)
Returns(v) == [thrown |-> FALSE, value |-> v]
Throws == [thrown |-> TRUE, value |-> <<>>]

(* string_traits<std::string>::size_buffer: the text and its zero. *)
SizeBuffer(f) == Len(f) + 1

(***************************************************************************)
(* composite_size_buffer(fields...): "()" and its zero for no fields,     *)
(* else 1 + 3 * num + sum of (2 * size_buffer(field) - 2) + 1.            *)
(***************************************************************************)
(* Mutant: the terminating zero left out of the estimate. *)
CompositeSizeBufferNoZero(fs) ==
  IF fs = <<>> THEN 3
  ELSE 1 + 3 * Len(fs)
         + FoldLeft(LAMBDA n, f : n + 2 * SizeBuffer(f) - 2, 0, fs)

CompositeSizeBuffer(fs) ==
  IF fs = <<>> THEN 3
  ELSE 1 + 3 * Len(fs)
         + FoldLeft(LAMBDA n, f : n + 2 * SizeBuffer(f) - 2, 0, fs) + 1

(* write_composite_field for a field that needs quoting: an opening quote, *)
(* the text with a backslash before every quote and backslash, a closing  *)
(* quote and a comma.                                                      *)
WriteCompositeField(f) ==
  <<Quote>>
  \o FoldLeft(LAMBDA out, c :
                out \o (IF c \in {Quote, Backslash} THEN <<Backslash, c>>
                        ELSE <<c>>), <<>>, f)
  \o <<Quote, ",">>

(***************************************************************************)
(* composite_into_buf(begin, end, fields...): conversion_error when the   *)
(* buffer is smaller than the estimate; "()" for no fields; otherwise '(' *)
(* and every field, the last comma "backspaced" when there is more than   *)
(* one field, then ')' and the zero.  The value is the bytes written.     *)
(***************************************************************************)
(* Mutant: the comma is backspaced only from three fields on. *)
CompositeIntoBufLateBackspace(size, fs) ==
  LET body == FoldLeft(LAMBDA out, f : out \o WriteCompositeField(f),
                       <<"(">>, fs)
  IN  IF size < CompositeSizeBuffer(fs) THEN Throws
      ELSE IF fs = <<>> THEN Returns(<<"(", ")", Nul>>)
      ELSE Returns((IF Len(fs) > 2 THEN Front(body) ELSE body)
                   \o <<")", Nul>>)

CompositeIntoBuf(size, fs) ==
  LET body == FoldLeft(LAMBDA out, f : out \o WriteCompositeField(f),
                       <<"(">>, fs)
  IN  IF size < CompositeSizeBuffer(fs) THEN Throws
      ELSE IF fs = <<>> THEN Returns(<<"(", ")", Nul>>)
      ELSE Returns((IF Len(fs) > 1 THEN Front(body) ELSE body)
                   \o <<")", Nul>>)

(***************************************************************************)
(* parse_composite_field: a field is a double-quoted string (a backslash  *)
(* takes the next character literally, a doubled quote is a quote), or an *)
(* unquoted run up to ',' or ')'; an empty field is null, which a         *)
(* std::string cannot hold.  After the field comes ',' unless it is the   *)
(* last one, and after the last one ')' and the end of the text.  A field *)
(* read is [value, next], next the position after it; Malformed is the    *)
(* conversion_error.                                                       *)
(***************************************************************************)
Malformed == [value |-> <<>>, next |-> 0]

RECURSIVE QuotedField(_, _, _)
QuotedField(t, i, acc) ==
  CASE i > Len(t) -> Malformed
    [] t[i] = Backslash ->
         IF i = Len(t) THEN Malformed
         ELSE QuotedField(t, i + 2, Append(acc, t[i + 1]))
    [] t[i] = Quote /\ i < Len(t) /\ t[i + 1] = Quote ->
         QuotedField(t, i + 2, Append(acc, Quote))
    [] t[i] = Quote -> [value |-> acc, next |-> i + 1]
    [] OTHER -> QuotedField(t, i + 1, Append(acc, t[i]))

RECURSIVE UnquotedField(_, _, _)
UnquotedField(t, i, acc) ==
  IF i > Len(t) \/ t[i] \in {",", ")"} THEN [value |-> acc, next |-> i]
  ELSE UnquotedField(t, i + 1, Append(acc, t[i]))

ParseCompositeField(t, i) ==
  CASE i > Len(t) \/ t[i] \in {",", ")"} -> Malformed
    [] t[i] = Quote -> QuotedField(t, i + 1, <<>>)
    [] OTHER -> UnquotedField(t, i, <<>>)

(* The separator after field number index (counting from 0) at j. *)
Separated(t, j, index, last) ==
  /\ j <= Len(t)
  /\ IF index < last THEN t[j] = "," ELSE t[j] = ")" /\ j = Len(t)

RECURSIVE ParseFields(_, _, _, _, _)
ParseFields(t, i, index, last, acc) ==
  LET r == ParseCompositeField(t, i) IN
  IF r = Malformed \/ ~Separated(t, r.next, index, last) THEN Throws
  ELSE IF index = last THEN Returns(Append(acc, r.value))
  ELSE ParseFields(t, r.next + 1, index + 1, last, Append(acc, r.value))

(* parse_composite(text, fields...) for n fields: the text must be       *)
(* non-empty and start with '(', then every field is parsed in turn.     *)
ParseComposite(t, n) ==
  IF t = <<>> \/ t[1] # "(" THEN Throws
  ELSE ParseFields(t, 2, 0, n - 1, <<>>)

(***************************************************************************)
(* Each state is one call: the fields of a composite and the size of the  *)
(* buffer handed to composite_into_buf (the estimate, or one byte less).  *)
(***************************************************************************)
Calls ==
  UNION {{[op |-> "composite", fields |-> fs, size |-> s] :
            s \in {CompositeSizeBuffer(fs) - 1, CompositeSizeBuffer(fs)}} :
           fs \in UNION {[1 .. n -> Field] : n \in Arity}}

VARIABLE call

Init == call \in Calls

Render == \E c \in Calls : call' = c

Next == Render

Spec == Init /\ [][Next]_call

(***************************************************************************)
(* Properties                                                              *)
(***************************************************************************)

(* composite_into_buf writes only inside the buffer it was given: when it *)
(* does not throw, the text and its zero fit in size bytes, i.e. the      *)
(* conservative estimate really bounds what the field writers produce.    *)
CompositeFitsBuffer ==
  call.op = "composite" =>
    LET r == CompositeIntoBuf(call.size, call.fields) IN
    ~r.thrown => Len(r.value) <= call.size

(* Round trip (spec, Encoding & Escaping): parsing what composite_into_buf *)
(* rendered, with as many fields, gives the fields back, quotes, commas    *)
(* and backslashes inside them included.                                   *)
CompositeRoundTrip ==
  (call.op = "composite" /\ call.fields # <<>>) =>
    LET r == CompositeIntoBuf(call.size, call.fields) IN
    ~r.thrown =>
      ParseComposite(Front(r.value), Len(call.fields)) = Returns(call.fields)
=============================================================================
