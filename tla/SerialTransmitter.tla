--------------------------- MODULE SerialTransmitter ---------------------------
(***************************************************************************)
(* SerialTransmitter (canadensis_serial/src/tx.rs): push() COBS-encodes a  *)
(* transfer and appends it, between two zero delimiters, to a byte queue   *)
(* of fixed capacity C (a heapless Deque); flush() pops bytes and hands    *)
(* them to the driver until the queue is empty or the driver refuses one,  *)
(* which is put back at the front.                                         *)
(*                                                                         *)
(* A transfer is abstracted to the bytes it is encoded from (header ‖      *)
(* payload ‖ payload CRC): a sequence over {0, 1}, since the encoding only *)
(* tells zero bytes from the others.  The header and CRC are Overhead      *)
(* bytes (28 in the code).  "wire" is what the driver has accepted.         *)
(***************************************************************************)
EXTENDS Cobs, SequencesExt

CONSTANTS
    Capacity,      \* C, the queue capacity in bytes
    Overhead,      \* PER_FRAME_ESCAPED_OVERHEAD (24-byte header + 4-byte CRC)
    MaxPayload,    \* longest payload the model pushes
    MaxTransfers   \* number of accepted transfers the model explores

ASSUME SerialAssumption ==
    /\ Capacity \in Nat
    /\ Overhead \in Nat
    /\ MaxPayload \in Nat
    /\ MaxTransfers \in Nat

VARIABLES
    queue,     \* TransmitQueue: the bytes waiting to be sent
    wire,      \* the bytes send_byte() has accepted, in order
    result,    \* what the last push() or flush() returned
    panicked,  \* an unwrap() or expect() failed
    accepted   \* ghost: the transfers push() returned Ok for, in order

vars == <<queue, wire, result, panicked, accepted>>

DELIMITER == 0
PER_FRAME_UNESCAPED_OVERHEAD == 2

Results == {"none", "ok", "oom", "wouldblock", "driver"}

(* The bytes a transfer is escaped from: header, payload, payload CRC.    *)
Raw == UNION {[1 .. n -> {0, 1}] : n \in Overhead .. Overhead + MaxPayload}

(* Plausible faults, each of which a property must detect: a capacity     *)
(* check one byte too generous, and the refused byte returned to the back *)
(* of the queue.                                                           *)
FitsOneMore(n) == n <= Capacity - Len(queue) + 1
PushBackInstead(q, b) == Append(q, b)

(* The capacity checks of push(): length_on_wire > capacity - len fails.  *)
Fits(n) == n <= Capacity - Len(queue)

(* TransmitQueue::push_front of the byte flush() took out.                 *)
PushFront(q, b) == <<b>> \o q

(* The bytes push() appends: delimiter, escaped data, delimiter.           *)
Framed(enc) == <<DELIMITER>> \o enc \o <<DELIMITER>>

-----------------------------------------------------------------------------

Init ==
    /\ queue = <<>>
    /\ wire = <<>>
    /\ result = "none"
    /\ panicked = FALSE
    /\ accepted = <<>>

(* Transmitter::push.  The escape buffer is allocated with the worst-case *)
(* size; the allocation may fail.  escape_from_iter fails (and push        *)
(* panics on the expect) if the encoding does not fit in it.  The          *)
(* push_back calls unwrap their results.                                   *)
Push(raw) ==
    LET escaped_length == EscapedSize(Len(raw))
        enc            == CobsEncode(raw)
    IN
    /\ ~panicked
    /\ Len(accepted) < MaxTransfers
    /\ \/ /\ ~Fits(escaped_length + PER_FRAME_UNESCAPED_OVERHEAD)
          /\ result' = "oom"
          /\ UNCHANGED <<queue, panicked, accepted>>
       \/ /\ Fits(escaped_length + PER_FRAME_UNESCAPED_OVERHEAD)
          /\ result' = "oom"          \* try_with_capacity failed
          /\ UNCHANGED <<queue, panicked, accepted>>
       \/ /\ Fits(escaped_length + PER_FRAME_UNESCAPED_OVERHEAD)
          /\ IF Len(enc) > escaped_length
             THEN /\ panicked' = TRUE    \* expect("Incorrect escaped length")
                  /\ UNCHANGED <<queue, result, accepted>>
             ELSE IF ~Fits(Len(enc) + PER_FRAME_UNESCAPED_OVERHEAD)
             THEN /\ result' = "oom"
                  /\ UNCHANGED <<queue, panicked, accepted>>
             ELSE IF Len(queue) + Len(Framed(enc)) <= Capacity
             THEN /\ queue' = queue \o Framed(enc)
                  /\ result' = "ok"
                  /\ accepted' = Append(accepted, raw)
                  /\ UNCHANGED panicked
             ELSE /\ panicked' = TRUE    \* push_back(..).unwrap() on a full queue
                  /\ queue' = queue \o SubSeq(Framed(enc), 1, Capacity - Len(queue))
                  /\ UNCHANGED <<result, accepted>>
    /\ UNCHANGED wire

(* Transmitter::flush: the driver takes the first k bytes; then either    *)
(* the queue is empty, or it refuses the next one (WouldBlock or an error) *)
(* and the byte goes back to the front.  The expect on push_front cannot  *)
(* fail: the byte was just removed.                                        *)
Flush ==
    /\ ~panicked
    /\ \E k \in 0 .. Len(queue) :
         /\ wire' = wire \o SubSeq(queue, 1, k)
         /\ \/ /\ k = Len(queue)
               /\ queue' = <<>>
               /\ result' = "ok"
            \/ /\ k < Len(queue)
               /\ queue' = PushFront(SubSeq(queue, k + 2, Len(queue)), queue[k + 1])
               /\ result' \in {"wouldblock", "driver"}
    /\ UNCHANGED <<panicked, accepted>>

Next ==
    \/ \E raw \in Raw : Push(raw)
    \/ Flush

Spec == Init /\ [][Next]_vars

-----------------------------------------------------------------------------

TypeOK ==
    /\ queue \in Seq({0} \cup 1 .. BlockLen + 1)
    /\ wire \in Seq({0} \cup 1 .. BlockLen + 1)
    /\ result \in Results
    /\ panicked \in BOOLEAN
    /\ accepted \in Seq(Raw)

(* No unwrap() or expect() of push() or flush() ever fails, and the queue *)
(* never holds more than its capacity: the two capacity checks and the     *)
(* worst-case escape size are right at every boundary.                     *)
NoPanic == ~panicked /\ Len(queue) <= Capacity

(* Every byte ever accepted is on the wire or still queued, in order, and *)
(* nothing else is: wire ‖ queue is the framed encodings of the accepted   *)
(* transfers, one after the other, however flush() was interrupted.        *)
StreamIsFramedTransfers ==
    wire \o queue = FlattenSeq([j \in 1 .. Len(accepted) |-> Framed(CobsEncode(accepted[j]))])

(* The non-empty runs of s that a zero closes: what the receiver's state  *)
(* machine delimits as frames (a delimiter in Idle does nothing).          *)
RECURSIVE Delimited(_, _)
Delimited(s, run) ==
    IF s = <<>> THEN <<>>
    ELSE IF Head(s) /= DELIMITER THEN Delimited(Tail(s), Append(run, Head(s)))
    ELSE IF run = <<>> THEN Delimited(Tail(s), <<>>)
    ELSE <<run>> \o Delimited(Tail(s), <<>>)

(* A receiver reading the wire recovers the accepted transfers in order:  *)
(* each frame it delimits decodes to the next accepted transfer.            *)
ReceiverRecoversTransfers ==
    LET frames == Delimited(wire, <<>>)
    IN  /\ Len(frames) <= Len(accepted)
        /\ \A j \in 1 .. Len(frames) : CobsDecode(frames[j]) = accepted[j]

=============================================================================
