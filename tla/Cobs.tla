-------------------------------- MODULE Cobs --------------------------------
(***************************************************************************)
(* Consistent Overhead Byte Stuffing as the serial transport uses it       *)
(* (canadensis_serial::cobs, not part of the sources here: modelled from   *)
(* the design, sections 4.7 and 8.4).  The encoder splits its input into   *)
(* blocks: each block is a code byte c followed by c - 1 non-zero bytes,   *)
(* and stands for those bytes followed by a zero, except when c is the     *)
(* largest code (a full block of BlockLen bytes, 254 in the code) or the   *)
(* block is the last one.  An encoding contains no zero byte.              *)
(*                                                                         *)
(* The operators are recursive; they are used by TLC runs only.            *)
(***************************************************************************)
EXTENDS Integers, Sequences

CONSTANT BlockLen   \* data bytes in a full block (254 in the code)

ASSUME BlockLenAssumption == BlockLen \in Nat \ {0}

(* A plausible fault that a property must detect: a code byte one too     *)
(* large.                                                                  *)
BlockCodeLate(blk) == <<Len(blk) + 2>> \o blk

(* The bytes a block of data bytes blk encodes to: its code, then blk.     *)
Block(blk) == <<Len(blk) + 1>> \o blk

(* A plausible fault of the encoder that a property must detect: a zero    *)
(* copied into the block instead of closing it.                           *)
RECURSIVE EncodeKeepsZero(_, _)
EncodeKeepsZero(x, blk) ==
    IF x = <<>> THEN Block(blk)
    ELSE IF Len(blk) + 1 = BlockLen
         THEN Block(Append(blk, Head(x))) \o EncodeKeepsZero(Tail(x), <<>>)
    ELSE EncodeKeepsZero(Tail(x), Append(blk, Head(x)))

(* cobs::escape_from_iter: encode x, with blk the data bytes of the block  *)
(* being built.  A zero closes the block; so does the BlockLen-th byte,    *)
(* without standing for a zero; the end of the input closes the last one. *)
RECURSIVE EncodeFrom(_, _)
EncodeFrom(x, blk) ==
    IF x = <<>> THEN Block(blk)
    ELSE IF Head(x) = 0 THEN Block(blk) \o EncodeFrom(Tail(x), <<>>)
    ELSE IF Len(blk) + 1 = BlockLen
         THEN Block(Append(blk, Head(x))) \o EncodeFrom(Tail(x), <<>>)
    ELSE EncodeFrom(Tail(x), Append(blk, Head(x)))

CobsEncode(x) == EncodeFrom(x, <<>>)

(* cobs::escaped_size: the longest encoding of n bytes (design 4.7:       *)
(* n + ceil(n / 254) + 1).                                                 *)
EscapedSize(n) == n + ((n + BlockLen - 1) \div BlockLen) + 1

(* The receiver's decoder: a block stands for its data bytes, followed by *)
(* a zero unless its code is the largest or it is the last block.         *)
RECURSIVE CobsDecode(_)
CobsDecode(y) ==
    IF y = <<>> THEN <<>>
    ELSE LET c    == Head(y)
             last == IF c <= Len(y) THEN c ELSE Len(y)
             rest == SubSeq(y, last + 1, Len(y))
         IN  SubSeq(y, 2, last)
             \o (IF rest /= <<>> /\ c < BlockLen + 1 THEN <<0>> ELSE <<>>)
             \o CobsDecode(rest)

=============================================================================
