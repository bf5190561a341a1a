------------------------------- MODULE BitArray -------------------------------
(***************************************************************************)
(* BitArray<BYTES> (canadensis_encoding/src/bits.rs): BYTES bytes of       *)
(* storage and a bit_length.  Bit i lives in byte i / 8 at bit i % 8, so   *)
(* the storage is modelled as the function from bit positions             *)
(* 0 .. 8 * BYTES - 1 to {0, 1}; the bits at bit_length and above are      *)
(* padding that get/set never reach but fill() writes.  The code generator *)
(* uses BitArray<ceil(N / 8)> for both bool[N] and bool[<=N] fields.       *)
(*                                                                         *)
(* The cursors (canadensis_encoding's ReadCursor and WriteCursor) are not  *)
(* among the sources: a cursor is a bit position in a buffer of bits,      *)
(* written least significant bit of each byte first, and a read past the  *)
(* end of the buffer gives zeros (the implicit zero extension of the DSDL *)
(* serialization).                                                         *)
(***************************************************************************)
EXTENDS Integers, Sequences

CONSTANTS
    MaxLen,    \* N of the DSDL field bool[N] or bool[<=N]
    MaxOffset  \* largest bit offset of the field within its message

ASSUME BitArrayAssumption == MaxLen \in Nat \ {0} /\ MaxOffset \in Nat

(* to_rust_type in the code generator: BitArray<(len + 7) / 8>.            *)
BytesFor(len) == (len + 7) \div 8

BYTES == BytesFor(MaxLen)

VARIABLES
    bytes,       \* the storage, bit by bit
    bit_length   \* the number of bits in the array

vars == <<bytes, bit_length>>

Positions == 0 .. 8 * BYTES - 1
Bit == {0, 1}

(* An array value as the comparisons see it.                               *)
Arr(b, l) == [bytes |-> b, len |-> l]
Self == Arr(bytes, bit_length)

(* All arrays of this width, padding included.                             *)
Arrays == [bytes : [Positions -> Bit], len : 0 .. 8 * BYTES]

(* get(i): bit i % 8 of byte i / 8 (split_index asserts i < bit_length).  *)
Get(a, i) == a.bytes[i]

(* Iter and IntoIter: get(0), get(1), ... up to len(), then None.          *)
IterBits(a) == [k \in 1 .. a.len |-> Get(a, k - 1)]

(* The pairs zip() yields: as many as the shorter iterator has.            *)
ZipLen(l, r) == IF l.len <= r.len THEN l.len ELSE r.len

(* ReadCursor: read_bool and read_aligned_u8 at bit position p of buffer  *)
(* buf; past its end the buffer reads as zeros.                            *)
ReadBit(buf, p) == IF p + 1 <= Len(buf) THEN buf[p + 1] ELSE 0

(* Plausible faults of the comparisons, each of which a property must     *)
(* detect: the first differing bits read the wrong way round, and eq       *)
(* comparing the zipped bits without comparing the lengths.               *)
CompareBitsSwapped(l, r) ==
    LET diff == {k \in 1 .. ZipLen(l, r) : IterBits(l)[k] /= IterBits(r)[k]}
        first == CHOOSE k \in diff : \A m \in diff : k <= m
    IN  IF l.len < r.len THEN "Less"
        ELSE IF l.len > r.len THEN "Greater"
        ELSE IF diff = {} THEN "Equal"
        ELSE IF IterBits(l)[first] = 1 THEN "Less" ELSE "Greater"
EqZipOnly(l, r) ==
    \A k \in 1 .. ZipLen(l, r) : IterBits(l)[k] = IterBits(r)[k]

(* compare(): lengths first, then the first bit where the zipped          *)
(* iterators differ: (true, false) is Greater, (false, true) is Less.      *)
Compare(l, r) ==
    LET diff == {k \in 1 .. ZipLen(l, r) : IterBits(l)[k] /= IterBits(r)[k]}
        first == CHOOSE k \in diff : \A m \in diff : k <= m
    IN  IF l.len < r.len THEN "Less"
        ELSE IF l.len > r.len THEN "Greater"
        ELSE IF diff = {} THEN "Equal"
        ELSE IF IterBits(l)[first] = 1 THEN "Greater" ELSE "Less"

(* PartialEq::eq: equal lengths and equal bits along the zip.              *)
Eq(l, r) ==
    /\ l.len = r.len
    /\ \A k \in 1 .. ZipLen(l, r) : IterBits(l)[k] = IterBits(r)[k]

(* serialize(): the whole storage when the array is full and the cursor   *)
(* is aligned (write_aligned_bytes), else bit_length bits one by one;     *)
(* off is the cursor's bit position.                                       *)
Serialize(a, off) ==
    IF a.len = 8 * BYTES /\ off % 8 = 0
    THEN [i \in 1 .. 8 * BYTES |-> a.bytes[i - 1]]
    ELSE [i \in 1 .. a.len |-> Get(a, i - 1)]

(* deserialize_in_place(): the storage and the cursor position after      *)
(* reading array a from buf at position p.  The fast path, taken when     *)
(* bit_length is a multiple of 8 and the cursor is aligned, fills every   *)
(* byte of the storage from the cursor.                                    *)
DeserializeInPlace(a, buf, p) ==
    IF a.len % 8 = 0 /\ p % 8 = 0
    THEN [bytes |-> [i \in Positions |-> ReadBit(buf, p + i)], len |-> a.len,
          pos |-> p + 8 * BYTES]
    ELSE [bytes |-> [i \in Positions |-> IF i < a.len THEN ReadBit(buf, p + i)
                                                       ELSE a.bytes[i]],
          len |-> a.len, pos |-> p + a.len]

(* BitArray::new(bit_length): all zero.                                    *)
New(l) == Arr([i \in Positions |-> 0], l)

-----------------------------------------------------------------------------

Init ==
    /\ bytes = [i \in Positions |-> 0]   \* Default::default()
    /\ bit_length = 0

(* new(bit_length); the assert rejects a length above 8 * BYTES.          *)
NewArray(l) ==
    /\ l <= 8 * BYTES
    /\ bytes' = New(l).bytes
    /\ bit_length' = l

(* set(i, v): split_index asserts i < bit_length.                          *)
Set(i, v) ==
    /\ i < bit_length
    /\ bytes' = [bytes EXCEPT ![i] = v]
    /\ UNCHANGED bit_length

(* fill(v): every byte, padding included, becomes 0xff or 0x00.            *)
Fill(v) ==
    /\ bytes' = [i \in Positions |-> v]
    /\ UNCHANGED bit_length

(* deserialize(bit_length, cursor) from buffer buf at offset p: new(),    *)
(* then deserialize_in_place().                                            *)
Deserialize(l, buf, p) ==
    /\ l <= 8 * BYTES
    /\ LET r == DeserializeInPlace(New(l), buf, p)
       IN  /\ bytes' = r.bytes
           /\ bit_length' = r.len

(* deserialize_in_place(cursor) on the array as it is, bit_length kept.   *)
ReadInPlace(buf, p) ==
    LET r == DeserializeInPlace(Self, buf, p)
    IN  /\ bytes' = r.bytes
        /\ UNCHANGED bit_length

Next ==
    \/ \E l \in 0 .. 8 * BYTES : NewArray(l)
    \/ \E i \in Positions, v \in Bit : Set(i, v)
    \/ \E v \in Bit : Fill(v)
    \/ \E l \in 0 .. 8 * BYTES, buf \in [1 .. 8 * BYTES -> Bit], p \in 0 .. MaxOffset :
         Deserialize(l, [k \in 1 .. p |-> 0] \o buf, p)
    \/ \E buf \in [1 .. 8 * BYTES -> Bit], p \in 0 .. MaxOffset :
         ReadInPlace([k \in 1 .. p |-> 0] \o buf, p)

Spec == Init /\ [][Next]_vars

-----------------------------------------------------------------------------

TypeOK ==
    /\ bytes \in [Positions -> Bit]
    /\ bit_length \in 0 .. 8 * BYTES

(* The bits an array holds, in order: all that a comparison may look at.  *)
Visible(a) == [i \in 1 .. a.len |-> a.bytes[i - 1]]

(* The value of a bit string read with its first bit most significant.    *)
Weight(s) == LET w[k \in 0 .. Len(s)] == IF k = 0 THEN 0 ELSE 2 * w[k - 1] + s[k]
             IN  w[Len(s)]

(* The order Ord::cmp must implement, defined apart from the code: shorter *)
(* arrays first, then arrays of a length in lexicographic order of their   *)
(* bits with false < true, whatever the padding bits hold.                *)
Shortlex(l, r) ==
    LET wl == Weight(Visible(l))
        wr == Weight(Visible(r))
    IN  IF l.len /= r.len THEN (IF l.len < r.len THEN "Less" ELSE "Greater")
        ELSE IF wl = wr THEN "Equal"
        ELSE IF wl < wr THEN "Less" ELSE "Greater"

(* Ord::cmp on the array built by the calls so far agrees with the        *)
(* reference order against every array of the same width.                 *)
CompareIsShortlex == \A other \in Arrays : Compare(Self, other) = Shortlex(Self, other)

(* PartialEq and Ord agree, as Rust requires of an Eq + Ord type used as a *)
(* key: eq holds exactly when cmp answers Equal, padding notwithstanding.   *)
EqAgreesWithCmp == \A other \in Arrays : Eq(Self, other) <=> Compare(Self, other) = "Equal"

(* Round trip through a message: the array serialized at bit offset p and *)
(* followed by one more field is deserialized with its own bit_length:     *)
(* the same bits come back and the cursor stops where the next field      *)
(* starts, so that field is read intact.                                    *)
RoundTrip ==
    \A p \in 0 .. MaxOffset, next \in Bit :
        LET buf == [k \in 1 .. p |-> 0] \o Serialize(Self, p) \o <<next>>
            r   == DeserializeInPlace(New(bit_length), buf, p)
        IN  /\ Visible(r) = Visible(Self)
            /\ ReadBit(buf, r.pos) = next

=============================================================================
