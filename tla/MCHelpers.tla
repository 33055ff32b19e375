----------------------------- MODULE MCHelpers -----------------------------
(* Model-checking instance of the pure helpers: esc_like, the integer and *)
(* size helpers of util.hxx, composite rendering and parsing, the         *)
(* escaping and quoting functions of the connection, and                  *)
(* connection_string.  Each state is one call of one of them; a step      *)
(* makes any other call.                                                  *)
EXTENDS TLC

CONSTANTS
  Glyph, MultiByte, Escape, MaxLen,   \* EscLike
  Widths, SizeBits,                   \* Conversions
  Char, Arity, MaxFieldLen,           \* Composite
  TextChar, Invalid, Byte, MaxQuoteLen, \* Quoting
  Options, Value, Null                 \* ConnString

(* PQconninfo's options checked, in its order. *)
MCOptions == <<"host", "user">>

VARIABLE call

Esc == INSTANCE EscLike
Conv == INSTANCE Conversions
Comp == INSTANCE Composite
Quo == INSTANCE Quoting
CS == INSTANCE ConnString

Init == Esc!Init \/ Conv!Init \/ Comp!Init \/ Quo!Init \/ CS!Init

Next == Esc!Next \/ Conv!Next \/ Comp!Next \/ Quo!Next \/ CS!Next

Spec == Init /\ [][Next]_call

(* The properties of the five modules, each about its own calls. *)
EscapedMatchesOnlyItselfWithoutEscapeChar ==
  Esc!EscapedMatchesOnlyItselfWithoutEscapeChar
CheckCastExact == Conv!CheckCastExact
CopyCharsInBounds == Conv!CopyCharsInBounds
BinSizeRoundTrip == Conv!BinSizeRoundTrip
CompositeFitsBuffer == Comp!CompositeFitsBuffer
CompositeRoundTrip == Comp!CompositeRoundTrip
EscWithinBuffer == Quo!EscWithinBuffer
EscLiteralRoundTrip == Quo!EscLiteralRoundTrip
QuotedPathRoundTrip == Quo!QuotedPathRoundTrip
=============================================================================
