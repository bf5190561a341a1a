--------------------------- MODULE BitArray_proofs ---------------------------
(***************************************************************************)
(* Proofs about BitArray: the type invariant, and that PartialEq::eq and  *)
(* Ord::cmp agree for every width.  The agreement is a fact about the two *)
(* operators alone: cmp answers Equal only from its third branch, reached *)
(* with equal lengths and no differing zipped bit, which is what eq asks. *)
(* It needs of the arrays only that their lengths are numbers, so it      *)
(* holds in every state the type invariant allows.                        *)
(***************************************************************************)
EXTENDS BitArray, TLAPS

USE BitArrayAssumption

(* The storage size BytesFor gives the code generator's arrays is a       *)
(* natural number, so Positions is an interval of naturals.                *)
LEMMA BytesNat == BYTES \in Nat /\ 8 * BYTES \in Nat
BY DEF BYTES, BytesFor

LEMMA InitTypeOK == Init => TypeOK
BY BytesNat DEF Init, TypeOK, Positions, Bit

(* The bits deserialize_in_place stores are bits: a read past the end of  *)
(* the buffer gives 0, one inside it a bit of the buffer.                  *)
LEMMA ReadBitType ==
  ASSUME NEW buf \in Seq(Bit), NEW p \in Nat
  PROVE  ReadBit(buf, p) \in Bit
BY DEF ReadBit, Bit

(* The buffers Next offers: p zero bits, then 8 * BYTES bits.              *)
LEMMA BufferType ==
  ASSUME NEW buf \in [1 .. 8 * BYTES -> Bit], NEW p \in Nat
  PROVE  [k \in 1 .. p |-> 0] \o buf \in Seq(Bit)
<1>1. [k \in 1 .. p |-> 0] \in Seq(Bit)
  BY DEF Bit
<1>2. buf \in Seq(Bit)
  BY BytesNat
<1>3. QED
  BY <1>1, <1>2

LEMMA NextTypeOK == TypeOK /\ [Next]_vars => TypeOK'
<1> SUFFICES ASSUME TypeOK, [Next]_vars PROVE TypeOK'
  OBVIOUS
<1> USE BytesNat
<1>1. CASE \E l \in 0 .. 8 * BYTES : NewArray(l)
  BY <1>1 DEF NewArray, New, Arr, TypeOK, Bit
<1>2. CASE \E i \in Positions, v \in Bit : Set(i, v)
  BY <1>2 DEF Set, TypeOK
<1>3. CASE \E v \in Bit : Fill(v)
  BY <1>3 DEF Fill, TypeOK
<1>4. CASE \E l \in 0 .. 8 * BYTES, buf \in [1 .. 8 * BYTES -> Bit], p \in 0 .. MaxOffset :
             Deserialize(l, [k \in 1 .. p |-> 0] \o buf, p)
  <2>1. PICK l \in 0 .. 8 * BYTES, buf \in [1 .. 8 * BYTES -> Bit], p \in 0 .. MaxOffset :
             Deserialize(l, [k \in 1 .. p |-> 0] \o buf, p)
    BY <1>4
  <2> DEFINE b == [k \in 1 .. p |-> 0] \o buf
  <2>2. b \in Seq(Bit)
    <3>1. p \in Nat
      OBVIOUS
    <3>2. QED
      BY <3>1, BufferType
  <2>3. \A i \in Positions : ReadBit(b, p + i) \in Bit /\ New(l).bytes[i] \in Bit
    <3> TAKE i \in Positions
    <3>1. p + i \in Nat
      BY DEF Positions
    <3>2. ReadBit(b, p + i) \in Bit
      BY <2>2, <3>1, ReadBitType
    <3>3. QED
      BY <3>2 DEF New, Arr, Bit
  <2>4. QED
    BY <2>1, <2>3 DEF Deserialize, DeserializeInPlace, New, Arr, TypeOK
<1>5. CASE \E buf \in [1 .. 8 * BYTES -> Bit], p \in 0 .. MaxOffset :
             ReadInPlace([k \in 1 .. p |-> 0] \o buf, p)
  <2>1. PICK buf \in [1 .. 8 * BYTES -> Bit], p \in 0 .. MaxOffset :
             ReadInPlace([k \in 1 .. p |-> 0] \o buf, p)
    BY <1>5
  <2> DEFINE b == [k \in 1 .. p |-> 0] \o buf
  <2>2. b \in Seq(Bit)
    <3>1. p \in Nat
      OBVIOUS
    <3>2. QED
      BY <3>1, BufferType
  <2>3. \A i \in Positions : ReadBit(b, p + i) \in Bit
    <3> TAKE i \in Positions
    <3>1. p + i \in Nat
      BY DEF Positions
    <3>2. QED
      BY <2>2, <3>1, ReadBitType
  <2>4. QED
    BY <2>1, <2>3 DEF ReadInPlace, DeserializeInPlace, Self, Arr, TypeOK
<1>6. CASE UNCHANGED vars
  BY <1>6 DEF vars, TypeOK
<1>7. QED
  BY <1>1, <1>2, <1>3, <1>4, <1>5, <1>6 DEF Next

(* The array handed to get/set always has its length within the storage   *)
(* and its bits in {0, 1}.                                                 *)
THEOREM TypeCorrect == Spec => []TypeOK
BY InitTypeOK, NextTypeOK, PTL DEF Spec

(* eq and cmp agree on any two arrays whose lengths are numbers: cmp says *)
(* Equal exactly when the lengths match and no zipped bit differs.        *)
LEMMA EqIffCompareEqual ==
  ASSUME NEW l, NEW r, l.len \in Int, r.len \in Int
  PROVE  Eq(l, r) <=> Compare(l, r) = "Equal"
<1> DEFINE diff == {k \in 1 .. ZipLen(l, r) : IterBits(l)[k] /= IterBits(r)[k]}
<1>1. CASE l.len < r.len
  BY <1>1 DEF Eq, Compare
<1>2. CASE l.len > r.len
  BY <1>2 DEF Eq, Compare
<1>3. CASE l.len = r.len
  <2>1. Compare(l, r) = "Equal" <=> diff = {}
    BY <1>3 DEF Compare
  <2>2. Eq(l, r) <=> diff = {}
    BY <1>3 DEF Eq
  <2>3. QED
    BY <2>1, <2>2
<1>4. QED
  BY <1>1, <1>2, <1>3

(* PartialEq and Ord of BitArray agree, in every reachable state and for  *)
(* every width: eq on the array built by the calls so far holds against   *)
(* another array exactly when cmp answers Equal.                           *)
THEOREM EqAgreesWithCmpHolds == Spec => []EqAgreesWithCmp
<1>1. TypeOK => EqAgreesWithCmp
  <2> SUFFICES ASSUME TypeOK, NEW other \in Arrays
               PROVE  Eq(Self, other) <=> Compare(Self, other) = "Equal"
    BY DEF EqAgreesWithCmp
  <2>1. Self.len \in Int /\ other.len \in Int
    BY BytesNat DEF TypeOK, Self, Arr, Arrays
  <2>2. QED
    BY <2>1, EqIffCompareEqual
<1>2. QED
  BY <1>1, TypeCorrect, PTL
====
