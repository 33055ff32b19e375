\* esc_like: glyphs a plain letter, the two wildcards, a backslash and one
\* multi-byte glyph; texts up to three glyphs; escape character '\' or '!'.
\* Integers: types of 3 and 4 bits, signed and unsigned; size_t of 4 bits.
\* Composites: none or two string fields of up to two characters
\* among a letter, a quote, a backslash and a comma.
\* Escaping and quoting: texts, names and table paths of up to two
\* characters or names among a letter, a quote, a double quote, a
\* backslash, a dot and an invalid multibyte byte; binary values of up to
\* two bytes among 0, 0x0f, 0xa0 and 0xff.
\* connection_string: two options, two values, each option with or without
\* a value, an environment variable (set or not) and a compiled default.
CONSTANTS
  Glyph = {"a", "_", "%", "\\", "mb"}
  MultiByte = {"mb"}
  Escape = {"\\", "!"}
  MaxLen = 3
  Widths = {3, 4}
  SizeBits = 4
  Char = {"a", "\"", "\\", ","}
  Arity = {0, 2}
  MaxFieldLen = 2
  TextChar = {"a", "'", "\"", "\\", ".", "bad"}
  Invalid = {"bad"}
  Byte = {0, 15, 160, 255}
  MaxQuoteLen = 2
  Options <- MCOptions
  Value = {"v1", "v2"}
  Null = Null
SPECIFICATION Spec
INVARIANT EscapedMatchesOnlyItselfWithoutEscapeChar
INVARIANT CheckCastExact CopyCharsInBounds BinSizeRoundTrip
INVARIANT CompositeFitsBuffer CompositeRoundTrip
INVARIANT EscWithinBuffer EscLiteralRoundTrip QuotedPathRoundTrip
