------------------------------- MODULE EscLike -------------------------------
(***************************************************************************)
(* connection::esc_like (src/src/connection.cxx 1018-1035): escape a text *)
(* for use as a literal inside a LIKE pattern, prefixing every glyph that *)
(* is a single '_' or '%' byte with the caller's escape character.  The   *)
(* text is a sequence of glyphs as for_glyphs splits it; a multi-byte     *)
(* glyph is never escaped.  The result is checked against a reference     *)
(* LIKE matcher with the server's semantics.                               *)
(***************************************************************************)
EXTENDS Integers, Sequences, SequencesExt

CONSTANTS
  Glyph,       \* the glyphs a text is made of, wildcards among them
  MultiByte,   \* the glyphs that take more than one byte
  Escape,      \* escape characters a caller may pass
  MaxLen       \* longest text checked

ASSUME MultiByte \subseteq Glyph /\ {"_", "%"} \subseteq Glyph
ASSUME Escape \cap MultiByte = {}

Text == BoundedSeq(Glyph, MaxLen)

(* One glyph of the for_glyphs callback: prefix the escape character when *)
(* the glyph is one byte long and is '_' or '%'.                           *)
EscGlyph(g, e) ==
  IF g \notin MultiByte /\ g \in {"_", "%"} THEN <<e, g>> ELSE <<g>>

(* Mutant: only '_' is treated as a wildcard. *)
EscLikeUnderscoreOnly(t, e) ==
  FoldLeft(LAMBDA out, g : out \o (IF g = "_" THEN <<e, g>> ELSE <<g>>), <<>>, t)

EscLike(t, e) == FoldLeft(LAMBDA out, g : out \o EscGlyph(g, e), <<>>, t)

(***************************************************************************)
(* Reference: does pattern p match text s under LIKE with escape e?  '%'  *)
(* matches any run of glyphs, '_' any one glyph, e makes the next pattern *)
(* glyph literal (a pattern ending in e matches nothing: the server       *)
(* rejects it), any other glyph matches itself.                            *)
(***************************************************************************)
RECURSIVE Like(_, _, _)
Like(p, s, e) ==
  IF p = <<>> THEN s = <<>>
  ELSE CASE Head(p) = e ->
              /\ Len(p) > 1 /\ s # <<>>
              /\ Head(s) = p[2]
              /\ Like(Tail(Tail(p)), Tail(s), e)
         [] Head(p) = "%" ->
              \/ Like(Tail(p), s, e)
              \/ s # <<>> /\ Like(p, Tail(s), e)
         [] Head(p) = "_" ->
              s # <<>> /\ Like(Tail(p), Tail(s), e)
         [] OTHER ->
              s # <<>> /\ Head(s) = Head(p) /\ Like(Tail(p), Tail(s), e)

(* Each state is one call: every text up to MaxLen glyphs with either     *)
(* escape character is an input esc_like may be called with.              *)
Calls == [op : {"esc_like"}, text : Text, escape : Escape]

VARIABLE call

Init == call \in Calls

Call == \E c \in Calls : call' = c

Next == Call

Spec == Init /\ [][Next]_call

(***************************************************************************)
(* Properties                                                              *)
(***************************************************************************)

(* The escaped text, used as a LIKE pattern with the same escape          *)
(* character, matches the text itself and no other text, provided the    *)
(* text does not contain the escape character.                            *)
EscapedMatchesOnlyItselfWithoutEscapeChar ==
  (call.op = "esc_like" /\ call.escape \notin Range(call.text)) =>
    \A s \in Text :
      Like(EscLike(call.text, call.escape), s, call.escape) <=> s = call.text
=============================================================================
