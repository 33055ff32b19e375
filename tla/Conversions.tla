----------------------------- MODULE Conversions -----------------------------
(***************************************************************************)
(* Integer helpers of src/include/pqxx/util.hxx: check_cast between        *)
(* integral types (77-141) and copy_chars' buffer-space check (656-673),  *)
(* with fixed-width arithmetic.  Integer types are scaled down to a few   *)
(* bits; size_t and its companion ptrdiff_t to SizeBits bits.  Each state *)
(* is one call; Next makes any other call.                                 *)
(***************************************************************************)
EXTENDS Integers

CONSTANTS
  Widths,     \* bit widths of the integral types
  SizeBits    \* bit width of std::size_t

IntType == [signed : BOOLEAN, bits : Widths]

Lowest(T) == IF T.signed THEN -(2^(T.bits - 1)) ELSE 0
Highest(T) == IF T.signed THEN 2^(T.bits - 1) - 1 ELSE 2^T.bits - 1
Values(T) == Lowest(T) .. Highest(T)

SizeMax == 2^SizeBits - 1
(* Objects are never larger than PTRDIFF_MAX bytes. *)
MaxObject == 2^(SizeBits - 1) - 1

(* The outcome of a call: it returns a value or throws. *)
Returns(v) == [thrown |-> FALSE, value |-> v]
Throws == [thrown |-> TRUE, value |-> 0]

(***************************************************************************)
(* check_cast<TO>(value) for integral FROM and TO.  Underflow is checked  *)
(* only for a signed FROM: against TO's lowest for a signed TO, against 0 *)
(* for an unsigned one.  Overflow is checked only when FROM's maximum     *)
(* exceeds TO's, with std::cmp_greater (a comparison of values, free of   *)
(* the usual conversions).                                                 *)
(***************************************************************************)
Underflows(to, from, v) ==
  from.signed /\ IF to.signed THEN v < Lowest(to) ELSE v < 0

(* Mutant: the overflow test uses >= (cmp_greater_equal). *)
CheckCastInclusive(to, from, v) ==
  IF \/ Underflows(to, from, v)
     \/ Highest(from) > Highest(to) /\ v >= Highest(to)
  THEN Throws ELSE Returns(v)

CheckCast(to, from, v) ==
  IF \/ Underflows(to, from, v)
     \/ Highest(from) > Highest(to) /\ v > Highest(to)
  THEN Throws ELSE Returns(v)

(***************************************************************************)
(* copy_chars<terminate>(src, dst, dst_offset): throws conversion_overrun *)
(* when dst_offset + size(src) + terminate, computed in size_t, exceeds   *)
(* size(dst); otherwise copies and returns the offset after the copy (and *)
(* after the terminating zero).                                            *)
(***************************************************************************)
(* Mutant: the terminating zero is left out of the check. *)
CopyCharsNoTerminator(sz, dstSize, offset, term) ==
  IF (offset + sz) % (SizeMax + 1) > dstSize THEN Throws
  ELSE Returns(offset + sz + term)

CopyChars(sz, dstSize, offset, term) ==
  IF (offset + sz + term) % (SizeMax + 1) > dstSize THEN Throws
  ELSE Returns(offset + sz + term)

(***************************************************************************)
(* size_esc_bin(binary_bytes) = 2 + 2 * binary_bytes + 1: the "\x"       *)
(* prefix, two hex digits per byte and the zero.  size_unesc_bin(         *)
(* escaped_bytes) = (escaped_bytes - 2) / 2 for a text without its zero.  *)
(* Both in size_t.                                                         *)
(***************************************************************************)
SizeEscBin(n) == (2 + 2 * n + 1) % (SizeMax + 1)

(* Mutant: the "\x" prefix is not subtracted. *)
SizeUnescBinNoPrefix(e) == (e % (SizeMax + 1)) \div 2

SizeUnescBin(e) == ((e - 2) % (SizeMax + 1)) \div 2

CastCall == [op : {"check_cast"}, to : IntType, from : IntType, v : Int]
CopyCall == [op : {"copy_chars"}, sz : 0 .. MaxObject, dstSize : 0 .. MaxObject,
             offset : 0 .. MaxObject, term : 0 .. 1]

(* Every value of every FROM type, cast to every TO type; every source     *)
(* size, buffer size and offset an object can have; every binary size.    *)
Calls ==
  UNION {{[op |-> "check_cast", to |-> to, from |-> from, v |-> v] :
            v \in Values(from)} : to, from \in IntType}
  \cup CopyCall
  \cup [op : {"size_bin"}, n : 0 .. MaxObject]

VARIABLE call

Init == call \in Calls

Invoke == \E c \in Calls : call' = c

Next == Invoke

Spec == Init /\ [][Next]_call

(***************************************************************************)
(* Properties                                                              *)
(***************************************************************************)

(* check_cast returns the value unchanged exactly when TO can represent   *)
(* it, and throws range_error otherwise, for every pair of integral types *)
(* (signed and unsigned, narrower and wider).                              *)
CheckCastExact ==
  call.op = "check_cast" =>
    CheckCast(call.to, call.from, call.v)
      = IF call.v \in Values(call.to) THEN Returns(call.v) ELSE Throws

(* copy_chars writes only inside the destination: it throws exactly when  *)
(* the bytes and the terminator do not fit after the offset, and the      *)
(* size_t addition cannot wrap for sizes real objects have.               *)
CopyCharsInBounds ==
  call.op = "copy_chars" =>
    LET need == call.offset + call.sz + call.term IN
    CopyChars(call.sz, call.dstSize, call.offset, call.term)
      = IF need > call.dstSize THEN Throws ELSE Returns(need)

(* The two size helpers agree: for every binary size whose escaped form   *)
(* fits in size_t, size_unesc_bin of the escaped text's length (without   *)
(* the zero esc_bin writes last) is the binary size again, so unesc_bin   *)
(* allocates exactly what the hex digits decode to.                       *)
BinSizeRoundTrip ==
  (call.op = "size_bin" /\ 2 + 2 * call.n + 1 <= SizeMax) =>
    SizeUnescBin(SizeEscBin(call.n) - 1) = call.n
=============================================================================
