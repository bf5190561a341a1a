------------------------ MODULE RedundantQueue_proofs ------------------------
(***************************************************************************)
(* Proofs about RedundantQueue: the type invariant, and that a transfer   *)
(* is refused only when neither inner queue had room for it.  The type    *)
(* invariant is not inductive alone: push_frame appends as many frames as *)
(* Min2(n, Free(j)), which is a natural number only while no inner queue  *)
(* holds more frames than its capacity.  That bound is kept because a     *)
(* queue takes frames only when its try_reserve succeeded, i.e. when they *)
(* all fit.                                                                *)
(***************************************************************************)
EXTENDS RedundantQueue, SequenceTheorems, TLAPS

USE RedundantAssumption

(* No inner queue ever holds more frames than its capacity.                *)
QueueWithinCap == \A j \in Queues : Len(q[j]) <= Cap[j]

IInv == TypeOK /\ QueueWithinCap

Items == Transfers \X (1 .. MaxFrames)

(* The frames of a transfer, and any prefix of them, are frames.          *)
LEMMA FramesType ==
  ASSUME NEW t \in Transfers, NEW n \in 1 .. MaxFrames, NEW k \in 0 .. n
  PROVE  /\ Frame(t, n) \in Seq(Items)
         /\ SubSeq(Frame(t, n), 1, k) \in Seq(Items)
         /\ Len(SubSeq(Frame(t, n), 1, k)) = k
<1>1. Frame(t, n) \in Seq(Items) /\ Len(Frame(t, n)) = n
  BY DEF Frame, Items
<1>2. QED
  BY <1>1, SubSeqProperties

LEMMA InitIInv == Init => IInv
BY DEF Init, IInv, TypeOK, QueueWithinCap, Queues

(* The step push of transfer t of n frames keeps the invariant.            *)
LEMMA PushIInv ==
  ASSUME IInv, NEW n \in 1 .. MaxFrames, PushTransfer(n)
  PROVE  IInv'
<1> DEFINE t == pushed + 1
           st == [j \in Queues |-> InnerReserve(j, n)]
           took == [j \in Queues |-> IF Pushes(st, j) THEN Min2(n, Free(j)) ELSE 0]
<1>1. t \in Transfers /\ <<t, n>> \in Items
  <2>1. t \in Transfers
    BY DEF PushTransfer, IInv, TypeOK, Transfers
  <2>2. QED
    BY <2>1, Zenon DEF Items
<1>2. \A j \in Queues : took[j] \in 0 .. n /\ Len(q[j]) + took[j] <= Cap[j]
  BY DEF IInv, TypeOK, QueueWithinCap, Pushes, InnerReserve, Free, Min2
<1>3. status' = st /\ pushed' = t /\ link' = link
  BY DEF PushTransfer
<1>4. status' \in [Queues -> BOOLEAN]
  BY <1>3 DEF InnerReserve
<1>5. pushed' \in 0 .. MaxTransfers
      /\ link' \in [Queues -> Seq(Items)]
  BY <1>1, <1>3 DEF PushTransfer, IInv, TypeOK, Items
<1>6. CASE Reserved(st)
  <2>1. q' = [j \in Queues |-> q[j] \o SubSeq(Frame(t, n), 1, took[j])]
        /\ onQueue' = [j \in Queues |->
                         IF st[j] THEN Append(onQueue[j], <<t, n>>) ELSE onQueue[j]]
        /\ result' \in [Transfers -> {"none", "ok", "oom"}]
    BY <1>6 DEF PushTransfer, IInv, TypeOK
  <2>2. ASSUME NEW j \in Queues
        PROVE  /\ q'[j] \in Seq(Items)
               /\ Len(q'[j]) <= Cap[j]
               /\ onQueue'[j] \in Seq(Items)
    <3>1. SubSeq(Frame(t, n), 1, took[j]) \in Seq(Items)
          /\ Len(SubSeq(Frame(t, n), 1, took[j])) = took[j]
      BY <1>1, <1>2, FramesType
    <3>2. q[j] \in Seq(Items) /\ onQueue[j] \in Seq(Items)
      BY DEF IInv, TypeOK, Items
    <3>3. q'[j] = q[j] \o SubSeq(Frame(t, n), 1, took[j])
      BY <2>1
    <3>4. q'[j] \in Seq(Items) /\ Len(q'[j]) = Len(q[j]) + took[j]
      BY <3>1, <3>2, <3>3
    <3>5. onQueue'[j] \in Seq(Items)
      BY <1>1, <2>1, <3>2
    <3>6. QED
      BY <1>2, <3>4, <3>5
  <2>3. q' \in [Queues -> Seq(Items)] /\ onQueue' \in [Queues -> Seq(Items)]
        /\ QueueWithinCap'
    BY <2>1, <2>2 DEF QueueWithinCap
  <2>4. QED
    BY <1>4, <1>5, <2>1, <2>3 DEF IInv, TypeOK, Items
<1>7. CASE ~Reserved(st)
  <2>1. result' = [result EXCEPT ![t] = "oom"] /\ q' = q /\ onQueue' = onQueue
    BY <1>7 DEF PushTransfer
  <2>2. result' \in [Transfers -> {"none", "ok", "oom"}]
    BY <1>1, <2>1 DEF IInv, TypeOK
  <2>3. QueueWithinCap'
    BY <2>1 DEF IInv, QueueWithinCap
  <2>4. QED
    BY <1>4, <1>5, <2>1, <2>2, <2>3 DEF IInv, TypeOK, Items
<1>8. QED
  BY <1>6, <1>7

LEMMA NextIInv == IInv /\ [Next]_vars => IInv'
<1> SUFFICES ASSUME IInv, [Next]_vars PROVE IInv'
  OBVIOUS
<1>1. CASE \E n \in 1 .. MaxFrames : PushTransfer(n)
  BY <1>1, PushIInv
<1>2. CASE \E j \in Queues : Pop(j)
  <2>1. PICK j \in Queues : Pop(j)
    BY <1>2
  <2>2. Head(q[j]) \in Items /\ Tail(q[j]) \in Seq(Items) /\ Len(Tail(q[j])) = Len(q[j]) - 1
    BY <2>1 DEF Pop, IInv, TypeOK, Items
  <2>3. q' \in [Queues -> Seq(Items)] /\ link' \in [Queues -> Seq(Items)]
    BY <2>1, <2>2 DEF Pop, IInv, TypeOK, Items
  <2>4. QueueWithinCap'
    BY <2>1, <2>2 DEF Pop, IInv, TypeOK, QueueWithinCap
  <2>5. UNCHANGED <<status, pushed, result, onQueue>>
    BY <2>1 DEF Pop
  <2>6. QED
    BY <2>3, <2>4, <2>5 DEF IInv, TypeOK, Items
<1>3. CASE UNCHANGED vars
  BY <1>3 DEF vars, IInv, TypeOK, QueueWithinCap
<1>4. QED
  BY <1>1, <1>2, <1>3 DEF Next

(* The queues, statuses, links and ghost records always have their types, *)
(* and no inner queue overflows its capacity.                             *)
THEOREM TypeCorrect == Spec => [](TypeOK /\ QueueWithinCap)
BY InitIInv, NextIInv, PTL DEF Spec, IInv

-----------------------------------------------------------------------------

(* A link taking the head of its queue leaves link \o queue unchanged.    *)
LEMMA PopKeepsConcat ==
  ASSUME NEW S, NEW s \in Seq(S), NEW r \in Seq(S), r /= <<>>
  PROVE  Append(s, Head(r)) \o Tail(r) = s \o r
<1> DEFINE a == Append(s, Head(r))
<1>1. Head(r) \in S /\ Tail(r) \in Seq(S) /\ Len(Tail(r)) = Len(r) - 1
      /\ \A i \in 1 .. Len(Tail(r)) : Tail(r)[i] = r[i + 1]
      /\ Len(r) \in Nat \ {0} /\ Len(s) \in Nat /\ Head(r) = r[1]
  BY HeadTailProperties, EmptySeq, LenProperties
<1>2. a \in Seq(S) /\ Len(a) = Len(s) + 1 /\ \A i \in 1 .. Len(s) : a[i] = s[i]
      /\ a[Len(s) + 1] = r[1]
  BY <1>1, AppendProperties
<1>3. /\ a \o Tail(r) \in Seq(S) /\ Len(a \o Tail(r)) = Len(s) + Len(r)
      /\ \A i \in 1 .. Len(s) + Len(r) : (a \o Tail(r))[i] =
           IF i <= Len(a) THEN a[i] ELSE Tail(r)[i - Len(a)]
  BY <1>1, <1>2, ConcatProperties
<1>4. /\ s \o r \in Seq(S) /\ Len(s \o r) = Len(s) + Len(r)
      /\ \A i \in 1 .. Len(s) + Len(r) : (s \o r)[i] = IF i <= Len(s) THEN s[i] ELSE r[i - Len(s)]
  BY ConcatProperties
<1>5. \A i \in 1 .. Len(s) + Len(r) : (a \o Tail(r))[i] = (s \o r)[i]
  <2> SUFFICES ASSUME NEW i \in 1 .. Len(s) + Len(r) PROVE (a \o Tail(r))[i] = (s \o r)[i]
    OBVIOUS
  <2>1. CASE i <= Len(s)
    BY <1>2, <1>3, <1>4, <2>1
  <2>2. CASE i = Len(s) + 1
    BY <1>1, <1>2, <1>3, <1>4, <2>2
  <2>3. CASE i > Len(s) + 1
    <3>1. i - Len(a) \in 1 .. Len(Tail(r)) /\ i - Len(a) + 1 = i - Len(s)
      BY <1>1, <1>2, <2>3
    <3>2. QED
      BY <1>1, <1>3, <1>4, <2>3, <3>1
  <2>4. QED
    BY <1>1, <2>1, <2>2, <2>3
<1>6. QED
  BY <1>3, <1>4, <1>5, SeqEqual

(* A queue that takes all the frames of a transfer after the frames it     *)
(* has: the transfer joins the end of the queue's whole transfers.         *)
LEMMA WholeAppend ==
  ASSUME NEW w \in Seq(Items), NEW L \in Seq(Items), WholeTransfers(w, L),
         NEW t \in Transfers, NEW n \in 1 .. MaxFrames
  PROVE  WholeTransfers(w \o Frame(t, n), Append(L, <<t, n>>))
<1>1. PICK start \in [1 .. Len(L) + 1 -> 0 .. Len(w)] : FramesAt(w, L, start)
  BY DEF WholeTransfers
<1> DEFINE w2 == w \o Frame(t, n)
           L2 == Append(L, <<t, n>>)
           st2 == [i \in 1 .. Len(L) + 2 |-> IF i <= Len(L) + 1 THEN start[i] ELSE Len(w) + n]
<1>2. <<t, n>> \in Items /\ Frame(t, n) \in Seq(Items) /\ Len(Frame(t, n)) = n
      /\ \A k \in 1 .. n : Frame(t, n)[k] = <<t, k>>
  <2>1. <<t, n>> \in Items
    BY Zenon DEF Items
  <2>2. n \in 0 .. n
    OBVIOUS
  <2>3. Frame(t, n) \in Seq(Items)
    BY <2>2, FramesType
  <2>4. Len(Frame(t, n)) = n /\ \A k \in 1 .. n : Frame(t, n)[k] = <<t, k>>
    BY DEF Frame
  <2>5. QED
    BY <2>1, <2>3, <2>4
<1>3. /\ Len(w) \in Nat /\ Len(L) \in Nat
      /\ Len(w2) = Len(w) + n
      /\ \A x \in 1 .. Len(w) : w2[x] = w[x]
      /\ \A k \in 1 .. n : w2[Len(w) + k] = <<t, k>>
  <2> DEFINE F == Frame(t, n)
  <2>1. F \in Seq(Items) /\ Len(F) = n /\ Len(w) \in Nat /\ Len(L) \in Nat
    BY <1>2, LenProperties
  <2>2. Len(w2) = Len(w) + Len(F)
        /\ \A x \in 1 .. Len(w) + Len(F) : w2[x] = IF x <= Len(w) THEN w[x] ELSE F[x - Len(w)]
    BY <2>1, ConcatProperties
  <2>3. \A k \in 1 .. n : w2[Len(w) + k] = F[k]
    BY <2>1, <2>2
  <2>4. QED
    BY <1>2, <2>1, <2>2, <2>3
<1>4. /\ Len(L2) = Len(L) + 1
      /\ \A i \in 1 .. Len(L) : L2[i] = L[i]
      /\ L2[Len(L) + 1] = <<t, n>>
  BY <1>2, AppendProperties
<1>5. \A i \in 1 .. Len(L) : L[i][2] \in 1 .. MaxFrames
  <2> SUFFICES ASSUME NEW i \in 1 .. Len(L) PROVE L[i][2] \in 1 .. MaxFrames
    OBVIOUS
  <2>1. L[i] \in Transfers \X (1 .. MaxFrames)
    BY DEF Items
  <2>2. QED
    BY <2>1
<1>6. st2 \in [1 .. Len(L2) + 1 -> 0 .. Len(w2)]
  BY <1>1, <1>3, <1>4
<1>7. st2[1] = 0 /\ st2[Len(L2) + 1] = Len(w2)
  BY <1>1, <1>3, <1>4 DEF FramesAt
<1>8. \A i \in 1 .. Len(L2) : st2[i + 1] = st2[i] + L2[i][2]
  <2> SUFFICES ASSUME NEW i \in 1 .. Len(L2) PROVE st2[i + 1] = st2[i] + L2[i][2]
    OBVIOUS
  <2>1. CASE i <= Len(L)
    BY <1>1, <1>3, <1>4, <2>1 DEF FramesAt
  <2>2. CASE i = Len(L) + 1
    <3>1. st2[i] = Len(w)
      BY <1>1, <1>3, <2>2 DEF FramesAt
    <3>2. st2[i + 1] = Len(w) + n
      BY <1>3, <2>2
    <3>3. L2[i][2] = n
      BY <1>4, <2>2
    <3>4. QED
      BY <3>1, <3>2, <3>3
  <2>3. QED
    BY <1>3, <1>4, <2>1, <2>2
<1>9. \A i \in 1 .. Len(L2) : \A k \in 1 .. L2[i][2] : w2[st2[i] + k] = <<L2[i][1], k>>
  <2> SUFFICES ASSUME NEW i \in 1 .. Len(L2), NEW k \in 1 .. L2[i][2]
               PROVE  w2[st2[i] + k] = <<L2[i][1], k>>
    OBVIOUS
  <2>1. CASE i <= Len(L)
    <3>1. i \in 1 .. Len(L) /\ L2[i] = L[i] /\ st2[i] = start[i]
      BY <1>3, <1>4, <2>1
    <3>2. start[i] \in 0 .. Len(w) /\ start[i + 1] \in 0 .. Len(w)
          /\ start[i + 1] = start[i] + L[i][2]
      <4>1. i \in 1 .. Len(L) + 1 /\ i + 1 \in 1 .. Len(L) + 1
        BY <1>3, <3>1
      <4>2. QED
        BY <1>1, <3>1, <4>1 DEF FramesAt
    <3>3. start[i] + k \in 1 .. Len(w)
      BY <1>5, <3>1, <3>2
    <3>4. w[start[i] + k] = <<L[i][1], k>>
      BY <1>1, <3>1 DEF FramesAt
    <3>5. QED
      BY <1>3, <3>1, <3>3, <3>4
  <2>2. CASE i = Len(L) + 1
    <3>1. L2[i] = <<t, n>> /\ st2[i] = Len(w)
      BY <1>1, <1>3, <1>4, <2>2 DEF FramesAt
    <3>2. k \in 1 .. n /\ L2[i][1] = t
      BY <3>1
    <3>3. w2[Len(w) + k] = <<t, k>>
      BY <1>3, <3>2
    <3>4. QED
      BY <3>1, <3>2, <3>3
  <2>3. i <= Len(L) \/ i = Len(L) + 1
    BY <1>3, <1>4
  <2>4. QED
    BY <2>1, <2>2, <2>3, Zenon
<1>10. QED
  BY <1>6, <1>7, <1>8, <1>9 DEF WholeTransfers, FramesAt

LEMMA InitLinks == Init => WholeTransfersOnEachLink
<1> SUFFICES ASSUME Init, NEW j \in Queues PROVE WholeTransfers(link[j] \o q[j], onQueue[j])
  BY DEF WholeTransfersOnEachLink
<1>1. link[j] \o q[j] = <<>> /\ onQueue[j] = <<>>
  BY DEF Init
<1>2. [i \in 1 .. 1 |-> 0] \in [1 .. Len(<<>>) + 1 -> 0 .. Len(<<>>)]
  OBVIOUS
<1>3. FramesAt(<<>>, <<>>, [i \in 1 .. 1 |-> 0])
  BY DEF FramesAt
<1>4. QED
  BY <1>1, <1>2, <1>3 DEF WholeTransfers

(* push of a transfer: a queue whose reservation succeeded takes all its   *)
(* frames, one whose reservation failed takes none.                        *)
LEMMA PushLinks ==
  ASSUME IInv, WholeTransfersOnEachLink, NEW n \in 1 .. MaxFrames, PushTransfer(n),
         NEW j \in Queues
  PROVE  WholeTransfers(link'[j] \o q'[j], onQueue'[j])
<1> DEFINE t == pushed + 1
           st == [i \in Queues |-> InnerReserve(i, n)]
           took == [i \in Queues |-> IF Pushes(st, i) THEN Min2(n, Free(i)) ELSE 0]
           F == Frame(t, n)
<1>1. /\ link[j] \in Seq(Items) /\ q[j] \in Seq(Items) /\ onQueue[j] \in Seq(Items)
      /\ WholeTransfers(link[j] \o q[j], onQueue[j])
      /\ link' = link
  BY DEF IInv, TypeOK, Items, WholeTransfersOnEachLink, PushTransfer
<1>2. t \in Transfers /\ F \in Seq(Items) /\ Len(F) = n
  <2>1. t \in Transfers
    BY DEF PushTransfer, IInv, TypeOK, Transfers
  <2>2. n \in 0 .. n
    OBVIOUS
  <2>3. QED
    BY <2>1, <2>2, FramesType DEF Frame
<1>3. CASE Reserved(st)
  <2>1. q'[j] = q[j] \o SubSeq(F, 1, took[j])
        /\ onQueue'[j] = IF st[j] THEN Append(onQueue[j], <<t, n>>) ELSE onQueue[j]
    BY <1>3 DEF PushTransfer
  <2>2. CASE st[j]
    <3>1. took[j] = n
      <4>1. Free(j) \in Int
        BY DEF Free, IInv, TypeOK
      <4>2. QED
        BY <2>2, <4>1 DEF Pushes, Min2, InnerReserve
    <3>2. SubSeq(F, 1, took[j]) = F
      BY <1>2, <3>1, SubSeqFull
    <3>3. link'[j] \o q'[j] = (link[j] \o q[j]) \o F
      <4>1. link'[j] = link[j] /\ q'[j] = q[j] \o F
        BY <1>1, <2>1, <3>2
      <4>2. link[j] \o (q[j] \o F) = (link[j] \o q[j]) \o F
        <5>1. link[j] \in Seq(Items) /\ q[j] \in Seq(Items) /\ F \in Seq(Items)
          BY <1>1, <1>2
        <5>2. \A s1, s2, s3 \in Seq(Items) : s1 \o (s2 \o s3) = (s1 \o s2) \o s3
          BY ConcatAssociative
        <5>3. QED
          BY <5>1, <5>2
      <4>3. QED
        BY <4>1, <4>2
    <3>4. link[j] \o q[j] \in Seq(Items)
      BY <1>1, ConcatProperties
    <3>5. WholeTransfers((link[j] \o q[j]) \o F, Append(onQueue[j], <<t, n>>))
      BY <1>1, <1>2, <3>4, WholeAppend
    <3>6. QED
      BY <2>1, <2>2, <3>3, <3>5
  <2>3. CASE ~st[j]
    <3>1. took[j] = 0
      BY <2>3 DEF Pushes
    <3>2. SubSeq(F, 1, took[j]) = <<>>
      BY <3>1, SubSeqEmpty
    <3>3. q'[j] = q[j] /\ onQueue'[j] = onQueue[j]
      <4>1. q'[j] = q[j] \o <<>>
        BY <2>1, <3>2
      <4>2. q[j] \o <<>> = q[j]
        BY <1>1, ConcatEmptySeq
      <4>3. onQueue'[j] = onQueue[j]
        BY <2>1, <2>3, Zenon
      <4>4. QED
        BY <4>1, <4>2, <4>3
    <3>4. QED
      BY <1>1, <3>3
  <2>4. QED
    BY <2>2, <2>3
<1>4. CASE ~Reserved(st)
  <2>1. q' = q /\ onQueue' = onQueue
    BY <1>4 DEF PushTransfer
  <2>2. QED
    BY <1>1, <2>1
<1>5. QED
  BY <1>3, <1>4

LEMMA NextLinks == IInv /\ WholeTransfersOnEachLink /\ [Next]_vars => WholeTransfersOnEachLink'
<1> SUFFICES ASSUME IInv, WholeTransfersOnEachLink, [Next]_vars, NEW j \in Queues
             PROVE  WholeTransfers(link'[j] \o q'[j], onQueue'[j])
  BY DEF WholeTransfersOnEachLink
<1>1. CASE \E n \in 1 .. MaxFrames : PushTransfer(n)
  BY <1>1, PushLinks
<1>2. CASE \E i \in Queues : Pop(i)
  <2>1. PICK i \in Queues : Pop(i)
    BY <1>2
  <2>2. onQueue' = onQueue /\ WholeTransfers(link[j] \o q[j], onQueue[j])
    BY <2>1 DEF Pop, WholeTransfersOnEachLink
  <2>3. CASE i = j
    <3>1. link[j] \in Seq(Items) /\ q[j] \in Seq(Items) /\ q[j] /= <<>>
      BY <2>1, <2>3 DEF Pop, IInv, TypeOK, Items
    <3>2. link'[j] = Append(link[j], Head(q[j])) /\ q'[j] = Tail(q[j])
      BY <2>1, <2>3 DEF Pop, IInv, TypeOK
    <3>3. link'[j] \o q'[j] = link[j] \o q[j]
      BY <3>1, <3>2, PopKeepsConcat
    <3>4. QED
      BY <2>2, <3>3
  <2>4. CASE i /= j
    <3>1. link'[j] = link[j] /\ q'[j] = q[j]
      BY <2>1, <2>4 DEF Pop, IInv, TypeOK
    <3>2. QED
      BY <2>2, <3>1
  <2>5. QED
    BY <2>3, <2>4
<1>3. CASE UNCHANGED vars
  BY <1>3 DEF vars, WholeTransfersOnEachLink
<1>4. QED
  BY <1>1, <1>2, <1>3 DEF Next

(* Each link carries whole transfers only, for every pair of capacities    *)
(* and every transfer size: what a link has sent followed by what its      *)
(* queue holds is exactly the frames of the transfers that queue reserved, *)
(* whole and in order, because push_frame puts a transfer's frames on a    *)
(* queue exactly when that queue's try_reserve for it succeeded.           *)
THEOREM WholeTransfersOnEachLinkHolds == Spec => []WholeTransfersOnEachLink
<1>1. Spec => []IInv
  BY InitIInv, NextIInv, PTL DEF Spec
<1>2. QED
  BY <1>1, InitLinks, NextLinks, PTL DEF Spec

====
