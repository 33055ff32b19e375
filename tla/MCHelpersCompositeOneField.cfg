\* Composites of one string field of up to two characters.
CONSTANTS
  Glyph = {"a"}
  MultiByte = {}
  Escape = {"!"}
  MaxLen = 0
  Widths = {1}
  SizeBits = 2
  Char = {"a", "\"", "\\", ","}
  Arity = {1}
  MaxFieldLen = 2
  TextChar = {"a"}
  Invalid = {}
  Byte = {0}
  MaxQuoteLen = 0
  Options <- MCOptions
  Value = {"v1"}
  Null = Null
SPECIFICATION Spec
INVARIANT CompositeRoundTrip
