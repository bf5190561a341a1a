---------------------------- MODULE RedundantQueue ----------------------------
(***************************************************************************)
(* RedundantQueue (canadensis_can/src/redundant/redundant_queue.rs): two   *)
(* outgoing frame queues behind one FrameSink.  try_reserve() asks both    *)
(* and remembers each answer in status0/status1; push_frame() pushes only  *)
(* to the queues whose last reservation succeeded.  Both answer Ok if      *)
(* either inner queue did.                                                 *)
(*                                                                         *)
(* The inner queues and the transmitter that calls the sink are not among  *)
(* the sources: they are modelled from the design (4.2): an inner queue of *)
(* capacity Cap[j] reserves n frames if it has room for them and refuses   *)
(* a frame when full; the transmitter reserves room for all the frames of  *)
(* a transfer, then pushes them one by one.  Each inner queue is drained   *)
(* by its own link, at its own pace.  A frame is <<transfer, index>>.      *)
(***************************************************************************)
EXTENDS Integers, Sequences

CONSTANTS
    Cap,           \* Cap[j]: capacity, in frames, of inner queue j
    MaxFrames,     \* most frames in one transfer
    MaxTransfers   \* transfers the application pushes

Queues == {0, 1}

ASSUME RedundantAssumption ==
    /\ Cap \in [Queues -> Nat]
    /\ MaxFrames \in Nat \ {0}
    /\ MaxTransfers \in Nat

VARIABLES
    q,         \* q[j]: the frames in inner queue j (queue0, queue1)
    status,    \* status[j]: did the last try_reserve on queue j succeed
    link,      \* link[j]: the frames link j has taken from queue j, in order
    pushed,    \* transfers pushed so far (the next one gets pushed + 1)
    result,    \* what the transmitter's push returned for each transfer
    onQueue    \* ghost: onQueue[j], the transfers queue j reserved room for

vars == <<q, status, link, pushed, result, onQueue>>

Transfers == 1 .. MaxTransfers
(* A plausible fault that a property must detect: frames numbered from 0. *)
FrameFromZero(t, n) == [k \in 1 .. n |-> <<t, k - 1>>]

(* The frames the transmitter splits transfer t of n frames into.          *)
Frame(t, n) == [k \in 1 .. n |-> <<t, k>>]
Free(j) == Cap[j] - Len(q[j])
Min2(a, b) == IF a <= b THEN a ELSE b

(* A plausible fault that a property must detect: push_frame ignoring the *)
(* stored status.                                                          *)
PushesRegardless(st, j) == TRUE

(* The FrameSink::try_reserve of an inner queue.                           *)
InnerReserve(j, n) == n <= Free(j)

(* try_reserve: status0.or(status1).                                       *)
Reserved(st) == st[0] \/ st[1]

(* push_frame pushes to queue j only if status j is Ok.                    *)
Pushes(st, j) == st[j]

-----------------------------------------------------------------------------

Init ==
    /\ q = [j \in Queues |-> <<>>]
    /\ status = [j \in Queues |-> TRUE]    \* RedundantQueue::new: Ok(()) twice
    /\ link = [j \in Queues |-> <<>>]
    /\ pushed = 0
    /\ result = [t \in Transfers |-> "none"]
    /\ onQueue = [j \in Queues |-> <<>>]

(* The transmitter pushes transfer t of n frames: try_reserve(n), which    *)
(* stores both statuses, then, if it answered Ok, push_frame for each      *)
(* frame.  Queue j takes the frames push_frame offers it while it has     *)
(* room; a frame is pushed (Ok) if some queue took it.                     *)
PushTransfer(n) ==
    LET t   == pushed + 1
        st  == [j \in Queues |-> InnerReserve(j, n)]
        took == [j \in Queues |-> IF Pushes(st, j) THEN Min2(n, Free(j)) ELSE 0]
    IN
    /\ pushed < MaxTransfers
    /\ pushed' = t
    /\ status' = st
    /\ IF Reserved(st)
       THEN /\ q' = [j \in Queues |-> q[j] \o SubSeq(Frame(t, n), 1, took[j])]
            /\ result' = [result EXCEPT ![t] =
                            IF \A k \in 1 .. n : \E j \in Queues : took[j] >= k
                            THEN "ok" ELSE "oom"]
            /\ onQueue' = [j \in Queues |->
                             IF st[j] THEN Append(onQueue[j], <<t, n>>) ELSE onQueue[j]]
       ELSE /\ result' = [result EXCEPT ![t] = "oom"]
            /\ UNCHANGED <<q, onQueue>>
    /\ UNCHANGED link

(* Link j takes the frame at the head of queue j.                          *)
Pop(j) ==
    /\ q[j] /= <<>>
    /\ link' = [link EXCEPT ![j] = Append(@, Head(q[j]))]
    /\ q' = [q EXCEPT ![j] = Tail(@)]
    /\ UNCHANGED <<status, pushed, result, onQueue>>

Next ==
    \/ \E n \in 1 .. MaxFrames : PushTransfer(n)
    \/ \E j \in Queues : Pop(j)

Spec == Init /\ [][Next]_vars

-----------------------------------------------------------------------------

TypeOK ==
    /\ q \in [Queues -> Seq(Transfers \X (1 .. MaxFrames))]
    /\ status \in [Queues -> BOOLEAN]
    /\ link \in [Queues -> Seq(Transfers \X (1 .. MaxFrames))]
    /\ pushed \in 0 .. MaxTransfers
    /\ result \in [Transfers -> {"none", "ok", "oom"}]
    /\ onQueue \in [Queues -> Seq(Transfers \X (1 .. MaxFrames))]

(* w is, one after another, all the frames of the transfers of L and       *)
(* nothing else: transfer i's frames 1 .. L[i][2] fill the positions after *)
(* start[i] (the flattening of the transfers' frames, position by position).*)
FramesAt(w, L, start) ==
    /\ start[1] = 0
    /\ start[Len(L) + 1] = Len(w)
    /\ \A i \in 1 .. Len(L) : start[i + 1] = start[i] + L[i][2]
    /\ \A i \in 1 .. Len(L) : \A k \in 1 .. L[i][2] : w[start[i] + k] = <<L[i][1], k>>

WholeTransfers(w, L) == \E start \in [1 .. Len(L) + 1 -> 0 .. Len(w)] : FramesAt(w, L, start)

(* Each link carries whole transfers only: what link j has sent and what  *)
(* queue j still holds are, in order, all the frames of the transfers      *)
(* queue j reserved room for, and nothing else.  push_frame must not put   *)
(* a frame on a queue whose reservation failed.                            *)
WholeTransfersOnEachLink == \A j \in Queues : WholeTransfers(link[j] \o q[j], onQueue[j])

=============================================================================
