-------------------------- MODULE BxCanReceive_proofs --------------------------
(***************************************************************************)
(* Proofs about the receive side of BxCanDriver: the type invariant, and  *)
(* that apply_filters always leaves the subscribed ports admitted.  The   *)
(* latter is inductive together with the type invariant: apply_filters is *)
(* the only step that changes the subscriptions, and both of its outcomes *)
(* (the optimised filters, the accept-all fallback) admit them.            *)
(***************************************************************************)
EXTENDS BxCanReceive, SequenceTheorems, TLAPS

USE ReceiveAssumption

(* The first k frames of a sequence.                                        *)
LEMMA PrefixProps ==
  ASSUME NEW S, NEW s \in Seq(S), NEW k \in 0 .. Len(s)
  PROVE  /\ SubSeq(s, 1, k) \in Seq(S)
         /\ Len(SubSeq(s, 1, k)) = k
         /\ \A i \in 1 .. k : SubSeq(s, 1, k)[i] = s[i]
<1>1. \A i \in 1 .. k : s[i] \in S
  BY LenProperties
<1>2. /\ SubSeq(s, 1, k) \in Seq(S)
      /\ Len(SubSeq(s, 1, k)) = IF 1 <= k THEN k - 1 + 1 ELSE 0
      /\ \A i \in 1 .. k - 1 + 1 : SubSeq(s, 1, k)[i] = s[1 + i - 1]
  BY <1>1, SubSeqProperties
<1>3. QED
  BY <1>2

(* Overwriting the last frame of a sequence keeps it a sequence of the    *)
(* same length; on the empty sequence it changes nothing.                  *)
LEMMA ExceptLast ==
  ASSUME NEW S, NEW s \in Seq(S), NEW e \in S
  PROVE  /\ [s EXCEPT ![Len(s)] = e] \in Seq(S)
         /\ Len([s EXCEPT ![Len(s)] = e]) = Len(s)
<1>1. CASE Len(s) = 0
  <2>1. s = <<>>
    BY <1>1, EmptySeq
  <2>2. [s EXCEPT ![Len(s)] = e] = s
    BY <2>1
  <2>3. QED
    BY <2>2
<1>2. CASE Len(s) /= 0
  <2>1. Len(s) \in 1 .. Len(s)
    BY <1>2, LenProperties
  <2>2. QED
    BY <2>1, ExceptSeq
<1>3. QED
  BY <1>1, <1>2

(* Overwriting the last frame is dropping it and appending the new one.   *)
LEMMA ExceptLastIsAppend ==
  ASSUME NEW S, NEW s \in Seq(S), s /= <<>>, NEW e \in S
  PROVE  [s EXCEPT ![Len(s)] = e] = Append(SubSeq(s, 1, Len(s) - 1), e)
<1> DEFINE t == [s EXCEPT ![Len(s)] = e]
           f == SubSeq(s, 1, Len(s) - 1)
<1>1. Len(s) \in Nat \ {0} /\ Len(s) \in 1 .. Len(s)
  BY EmptySeq, LenProperties
<1>2. /\ t \in Seq(S) /\ Len(t) = Len(s)
      /\ \A j \in 1 .. Len(s) : t[j] = IF j = Len(s) THEN e ELSE s[j]
  BY <1>1, ExceptSeq
<1>3. f \in Seq(S) /\ Len(f) = Len(s) - 1 /\ \A j \in 1 .. Len(s) - 1 : f[j] = s[j]
  <2>1. Len(s) - 1 \in 0 .. Len(s)
    BY <1>1
  <2>2. QED
    BY <2>1, PrefixProps, Zenon
<1>4. /\ Append(f, e) \in Seq(S) /\ Len(Append(f, e)) = Len(s)
      /\ \A j \in 1 .. Len(s) : Append(f, e)[j] = IF j = Len(s) THEN e ELSE f[j]
  BY <1>1, <1>3, AppendProperties
<1>5. \A j \in 1 .. Len(t) : t[j] = Append(f, e)[j]
  <2> SUFFICES ASSUME NEW j \in 1 .. Len(s) PROVE t[j] = Append(f, e)[j]
    BY <1>2
  <2>1. CASE j = Len(s)
    BY <1>2, <1>4, <2>1
  <2>2. CASE j /= Len(s)
    <3>1. j \in 1 .. Len(s) - 1
      BY <1>1, <2>2
    <3>2. QED
      BY <1>2, <1>3, <1>4, <2>2, <3>1
  <2>3. QED
    BY <2>1, <2>2
<1>6. QED
  BY <1>2, <1>4, <1>5, SeqEqual

(* Overwriting the last frame leaves every shorter prefix unchanged.      *)
LEMMA PrefixOfExcept ==
  ASSUME NEW S, NEW s \in Seq(S), NEW e \in S, NEW k \in 0 .. Len(s) - 1
  PROVE  SubSeq([s EXCEPT ![Len(s)] = e], 1, k) = SubSeq(s, 1, k)
<1> DEFINE t == [s EXCEPT ![Len(s)] = e]
<1>1. Len(s) \in 1 .. Len(s) /\ k \in 0 .. Len(s)
  BY LenProperties
<1>2. /\ t \in Seq(S) /\ Len(t) = Len(s)
      /\ \A j \in 1 .. Len(s) : t[j] = IF j = Len(s) THEN e ELSE s[j]
  BY <1>1, ExceptSeq
<1>3. SubSeq(t, 1, k) \in Seq(S) /\ Len(SubSeq(t, 1, k)) = k
      /\ \A i \in 1 .. k : SubSeq(t, 1, k)[i] = t[i]
  <2>1. k \in 0 .. Len(t)
    BY <1>1, <1>2
  <2>2. QED
    BY <1>2, <2>1, PrefixProps, Zenon
<1>4. SubSeq(s, 1, k) \in Seq(S) /\ Len(SubSeq(s, 1, k)) = k
      /\ \A i \in 1 .. k : SubSeq(s, 1, k)[i] = s[i]
  BY <1>1, PrefixProps
<1>5. \A i \in 1 .. k : SubSeq(t, 1, k)[i] = SubSeq(s, 1, k)[i]
  <2> SUFFICES ASSUME NEW i \in 1 .. k PROVE SubSeq(t, 1, k)[i] = SubSeq(s, 1, k)[i]
    OBVIOUS
  <2>1. i \in 1 .. Len(s) /\ i /= Len(s)
    BY <1>1
  <2>2. t[i] = s[i]
    BY <1>2, <2>1
  <2>3. QED
    BY <1>3, <1>4, <2>2
<1>6. QED
  BY <1>3, <1>4, <1>5, SeqEqual

LEMMA InitTypeOK == Init => TypeOK
<1> SUFFICES ASSUME Init PROVE TypeOK
  OBVIOUS
<1>1. acceptAll \in BOOLEAN /\ overrun \in BOOLEAN /\ calling \in BOOLEAN
  BY Zenon DEF Init
<1>2. <<>> \in Seq(BusFrames)
  OBVIOUS
<1>3. QED
  BY <1>1, <1>2 DEF Init, TypeOK

LEMMA NextTypeOK == TypeOK /\ [Next]_vars => TypeOK'
<1> SUFFICES ASSUME TypeOK, [Next]_vars PROVE TypeOK'
  OBVIOUS
<1>1. CASE \E fr \in BusFrames : Arrive(fr)
  <2>1. PICK fr \in BusFrames : Arrive(fr)
    BY <1>1
  <2>2. arrivals' \in 0 .. MaxArrivals
    BY <2>1 DEF Arrive, TypeOK
  <2>3. CASE ~Admitted(fr)
    BY <2>1, <2>2, <2>3 DEF Arrive, TypeOK
  <2>4. CASE Admitted(fr) /\ Len(fifo) < FifoDepth
    <3>1. fifo' = Append(fifo, fr) /\ stored' = Append(stored, fr) /\ overrun' = overrun
          /\ UNCHANGED <<acceptAll, filterPorts, subs, calling, result, taken, delivered>>
      BY <2>1, <2>4 DEF Arrive
    <3>2. overrun' \in BOOLEAN /\ calling' \in BOOLEAN /\ acceptAll' \in BOOLEAN
      BY <3>1, Zenon DEF TypeOK
    <3>3. QED
      BY <2>2, <3>1, <3>2 DEF TypeOK
  <2>5. CASE Admitted(fr) /\ ~(Len(fifo) < FifoDepth)
    <3>1. /\ fifo' = [fifo EXCEPT ![Len(fifo)] = fr]
          /\ stored' = [stored EXCEPT ![Len(stored)] = fr]
          /\ overrun' = TRUE
          /\ UNCHANGED <<acceptAll, filterPorts, subs, calling, result, taken, delivered>>
      BY <2>1, <2>5 DEF Arrive
    <3>2. fifo' \in Seq(BusFrames) /\ stored' \in Seq(BusFrames)
      BY <3>1, ExceptLast DEF TypeOK
    <3>3. overrun' \in BOOLEAN /\ calling' \in BOOLEAN /\ acceptAll' \in BOOLEAN
      BY <3>1, Zenon DEF TypeOK
    <3>4. QED
      BY <2>2, <3>1, <3>2, <3>3 DEF TypeOK
  <2>6. QED
    BY <2>3, <2>4, <2>5
<1>2. CASE StartReceive
  BY <1>2 DEF StartReceive, TypeOK
<1>3. CASE ReceiveStep
  <2>1. CASE overrun
    BY <1>3, <2>1 DEF ReceiveStep, LoopExit, TypeOK
  <2>2. CASE ~overrun /\ fifo = <<>>
    BY <1>3, <2>2 DEF ReceiveStep, LoopExit, TypeOK
  <2>3. CASE ~overrun /\ fifo /= <<>>
    <3>1. Head(fifo) \in BusFrames /\ Tail(fifo) \in Seq(BusFrames)
      BY <2>3 DEF TypeOK
    <3>2. fifo' = Tail(fifo) /\ taken' = taken + 1
          /\ UNCHANGED <<acceptAll, filterPorts, subs, stored, arrivals, overrun>>
      BY <1>3, <2>3 DEF ReceiveStep, LoopExit
    <3>3. CASE Converts(Head(fifo))
      <4>1. delivered' = Append(delivered, Head(fifo)) /\ calling' = FALSE /\ result' = "frame"
        BY <1>3, <2>3, <3>3 DEF ReceiveStep, LoopExit
      <4>2. calling' \in BOOLEAN /\ overrun' \in BOOLEAN /\ acceptAll' \in BOOLEAN
        BY <3>2, <4>1, Zenon DEF TypeOK
      <4>3. QED
        BY <3>1, <3>2, <4>1, <4>2 DEF TypeOK
    <3>4. CASE ~Converts(Head(fifo))
      <4>1. UNCHANGED <<delivered, calling, result>>
        BY <1>3, <2>3, <3>4 DEF ReceiveStep, LoopExit
      <4>2. QED
        BY <3>1, <3>2, <4>1 DEF TypeOK
    <3>5. QED
      BY <3>3, <3>4
  <2>4. QED
    BY <2>1, <2>2, <2>3
<1>4. CASE \E S \in SUBSET Ports : ApplyFilters(S)
  BY <1>4 DEF ApplyFilters, InstallFallback, TypeOK
<1>5. CASE ApplyAcceptAll
  BY <1>5 DEF ApplyAcceptAll, TypeOK
<1>6. CASE UNCHANGED vars
  BY <1>6 DEF vars, TypeOK
<1>7. QED
  BY <1>1, <1>2, <1>3, <1>4, <1>5, <1>6 DEF Next

(* The receive side keeps its state well typed.                            *)
THEOREM ReceiveTypeCorrect == Spec => []TypeOK
  BY InitTypeOK, NextTypeOK, PTL DEF Spec

LEMMA NextSubscribedAdmitted ==
  TypeOK /\ SubscribedAdmitted /\ [Next]_vars => SubscribedAdmitted'
<1> SUFFICES ASSUME TypeOK, SubscribedAdmitted, [Next]_vars PROVE SubscribedAdmitted'
  OBVIOUS
<1>1. CASE \E S \in SUBSET Ports : ApplyFilters(S)
  <2>1. PICK S \in SUBSET Ports : ApplyFilters(S)
    BY <1>1
  <2>2. CASE \E F \in SUBSET Ports : S \subseteq F /\ filterPorts' = F /\ acceptAll' = FALSE
    BY <2>1, <2>2 DEF ApplyFilters, SubscribedAdmitted, Admitted
  <2>3. CASE InstallFallback
    BY <2>1, <2>3 DEF ApplyFilters, InstallFallback, SubscribedAdmitted, Admitted
  <2>4. QED
    BY <2>1, <2>2, <2>3 DEF ApplyFilters
<1>2. CASE ApplyAcceptAll
  BY <1>2 DEF ApplyAcceptAll, SubscribedAdmitted, Admitted
<1>3. CASE ~(\E S \in SUBSET Ports : ApplyFilters(S)) /\ ~ApplyAcceptAll
  <2>1. UNCHANGED <<acceptAll, filterPorts, subs>>
    BY <1>3 DEF Next, Arrive, StartReceive, ReceiveStep, vars
  <2>2. QED
    BY <2>1 DEF SubscribedAdmitted, Admitted
<1>4. QED
  BY <1>1, <1>2, <1>3

(* apply_filters never leaves a subscribed port filtered out: after it    *)
(* returns, whether optimize_filters succeeded or fell back to accept-all, *)
(* every extended frame of every subscribed port passes the hardware.      *)
THEOREM FiltersSound == Spec => []SubscribedAdmitted
<1>1. Init => SubscribedAdmitted
  BY DEF Init, SubscribedAdmitted
<1>2. QED
  BY <1>1, NextSubscribedAdmitted, ReceiveTypeCorrect, PTL DEF Spec

-----------------------------------------------------------------------------

(* FifoHoldsUntaken position by position: the FIFO's i-th frame is the    *)
(* (taken + i)-th frame the FIFO took.                                      *)
FifoIdx ==
    /\ Len(stored) = taken + Len(fifo)
    /\ \A i \in 1 .. Len(fifo) : fifo[i] = stored[taken + i]

LEMMA InitFifoIdx == Init => FifoIdx
BY DEF Init, FifoIdx

LEMMA NextFifoIdx == TypeOK /\ FifoIdx /\ [Next]_vars => FifoIdx'
<1> SUFFICES ASSUME TypeOK, FifoIdx, [Next]_vars PROVE FifoIdx'
  OBVIOUS
<1>1. CASE \E fr \in BusFrames : Arrive(fr)
  <2>1. PICK fr \in BusFrames : Arrive(fr)
    BY <1>1
  <2>2. CASE Admitted(fr) /\ Len(fifo) < FifoDepth
    <3>1. fifo' = Append(fifo, fr) /\ stored' = Append(stored, fr) /\ taken' = taken
      BY <2>1, <2>2 DEF Arrive
    <3>2. Len(stored') = taken' + Len(fifo')
      BY <3>1 DEF FifoIdx, TypeOK, BusFrames, Kinds
    <3>3. ASSUME NEW i \in 1 .. Len(fifo') PROVE fifo'[i] = stored'[taken' + i]
      <4>1. CASE i <= Len(fifo)
        BY <3>1, <4>1 DEF FifoIdx, TypeOK, BusFrames, Kinds
      <4>2. CASE i = Len(fifo) + 1
        BY <3>1, <4>2 DEF FifoIdx, TypeOK, BusFrames, Kinds
      <4>0. Len(fifo') = Len(fifo) + 1 /\ Len(fifo) \in Nat
        BY <3>1 DEF TypeOK, BusFrames, Kinds
      <4>3. QED
        BY <4>0, <4>1, <4>2
    <3>4. QED
      BY <3>2, <3>3 DEF FifoIdx
  <2>3. CASE Admitted(fr) /\ ~(Len(fifo) < FifoDepth)
    <3>1. /\ fifo' = [fifo EXCEPT ![Len(fifo)] = fr]
          /\ stored' = [stored EXCEPT ![Len(stored)] = fr]
          /\ taken' = taken
      BY <2>1, <2>3 DEF Arrive
    <3>2. /\ Len(fifo) \in 1 .. Len(fifo) /\ Len(stored) \in 1 .. Len(stored)
          /\ taken \in Nat /\ Len(stored) = taken + Len(fifo)
      BY <2>3 DEF TypeOK, FifoIdx
    <3>3. /\ Len(fifo') = Len(fifo)
          /\ \A j \in 1 .. Len(fifo) : fifo'[j] = IF j = Len(fifo) THEN fr ELSE fifo[j]
          /\ Len(stored') = Len(stored)
          /\ \A j \in 1 .. Len(stored) : stored'[j] = IF j = Len(stored) THEN fr ELSE stored[j]
      BY <3>1, <3>2, ExceptSeq DEF TypeOK
    <3>4. Len(stored') = taken' + Len(fifo')
      BY <3>1, <3>2, <3>3
    <3>5. \A i \in 1 .. Len(fifo') : fifo'[i] = stored'[taken' + i]
      <4> SUFFICES ASSUME NEW i \in 1 .. Len(fifo) PROVE fifo'[i] = stored'[taken + i]
        BY <3>1, <3>3
      <4>1. taken + i \in 1 .. Len(stored) /\ (taken + i = Len(stored) <=> i = Len(fifo))
        BY <3>2
      <4>2. CASE i = Len(fifo)
        BY <3>3, <4>1, <4>2
      <4>3. CASE i /= Len(fifo)
        <5>1. fifo'[i] = fifo[i] /\ stored'[taken + i] = stored[taken + i]
          BY <3>3, <4>1, <4>3
        <5>2. QED
          BY <5>1 DEF FifoIdx
      <4>4. QED
        BY <4>2, <4>3
    <3>6. QED
      BY <3>4, <3>5 DEF FifoIdx
  <2>4. CASE ~Admitted(fr)
    <3>1. UNCHANGED <<fifo, stored, taken>>
      BY <2>1, <2>4 DEF Arrive
    <3>2. QED
      BY <3>1 DEF FifoIdx
  <2>5. QED
    BY <2>2, <2>3, <2>4
<1>2. CASE ReceiveStep /\ ~overrun /\ fifo /= <<>>
  <2>1. fifo' = Tail(fifo) /\ taken' = taken + 1 /\ stored' = stored
    BY <1>2 DEF ReceiveStep
  <2>2. Len(fifo') = Len(fifo) - 1 /\ \A i \in 1 .. Len(fifo') : fifo'[i] = fifo[i + 1]
    BY <1>2, <2>1 DEF TypeOK, BusFrames, Kinds
  <2>3. Len(stored') = taken' + Len(fifo')
    <3>1. Len(fifo) \in Nat /\ taken \in Nat
      BY DEF TypeOK, BusFrames, Kinds
    <3>2. Len(stored') = Len(stored) /\ Len(fifo') = Len(fifo) - 1 /\ taken' = taken + 1
      BY <2>1, <2>2
    <3>3. Len(stored) = taken + Len(fifo)
      BY DEF FifoIdx
    <3>4. QED
      BY <3>1, <3>2, <3>3
  <2>4. \A i \in 1 .. Len(fifo') : fifo'[i] = stored'[taken' + i]
    BY <2>1, <2>2 DEF FifoIdx, TypeOK, BusFrames, Kinds
  <2>5. QED
    BY <2>3, <2>4 DEF FifoIdx
<1>3. CASE ReceiveStep /\ (overrun \/ fifo = <<>>)
  <2>1. UNCHANGED <<fifo, stored, taken>>
    BY <1>3 DEF ReceiveStep
  <2>2. QED
    BY <2>1 DEF FifoIdx
<1>4. CASE StartReceive \/ (\E S \in SUBSET Ports : ApplyFilters(S)) \/ ApplyAcceptAll
         \/ UNCHANGED vars
  <2>1. UNCHANGED <<fifo, stored, taken>>
    BY <1>4 DEF StartReceive, ApplyFilters, ApplyAcceptAll, vars
  <2>2. QED
    BY <2>1 DEF FifoIdx
<1>5. QED
  BY <1>1, <1>2, <1>3, <1>4 DEF Next

(* The position-wise form gives the equation: the frames taken, followed  *)
(* by the FIFO, are the frames stored.                                      *)
LEMMA FifoIdxUntaken == TypeOK /\ FifoIdx => FifoHoldsUntaken
<1> SUFFICES ASSUME TypeOK, FifoIdx PROVE stored = SubSeq(stored, 1, taken) \o fifo
  BY DEF FifoHoldsUntaken
<1> DEFINE pre == SubSeq(stored, 1, taken)
<1>1. taken \in 0 .. Len(stored) /\ Len(fifo) \in Nat
  BY DEF TypeOK, FifoIdx
<1>2. pre \in Seq(BusFrames) /\ Len(pre) = taken /\ \A i \in 1 .. taken : pre[i] = stored[i]
  BY <1>1, SubSeqProperties DEF TypeOK
<1>3. /\ pre \o fifo \in Seq(BusFrames)
      /\ Len(pre \o fifo) = taken + Len(fifo)
      /\ \A i \in 1 .. taken + Len(fifo) :
           (pre \o fifo)[i] = IF i <= taken THEN pre[i] ELSE fifo[i - taken]
  BY <1>2, ConcatProperties DEF TypeOK
<1>4. \A i \in 1 .. Len(stored) : (pre \o fifo)[i] = stored[i]
  BY <1>1, <1>2, <1>3 DEF FifoIdx
<1>5. QED
  BY <1>3, <1>4, SeqEqual DEF TypeOK, FifoIdx

(* bxCAN's receive FIFO, as can.receive() drains it, loses, reorders and  *)
(* repeats no frame: what it holds is exactly the frames it took that     *)
(* have not been returned yet, in arrival order, however arrivals, full   *)
(* FIFOs, overruns and skipped frames interleave.                          *)
THEOREM FifoInOrder == Spec => []FifoHoldsUntaken
<1>1. Spec => []FifoIdx
  BY InitFifoIdx, NextFifoIdx, ReceiveTypeCorrect, PTL DEF Spec
<1>2. QED
  BY <1>1, ReceiveTypeCorrect, FifoIdxUntaken, PTL

-----------------------------------------------------------------------------

(* The ghost pending is the UAVCAN subsequence of the FIFO, a sequence of *)
(* bus frames: DeliveredInOrder's last conjunct with its typing.           *)
PendingInv ==
    /\ pending \in Seq(BusFrames)
    /\ UavcanSubseq(pending, fifo)

(* The empty FIFO has no UAVCAN subsequence but the empty one.             *)
LEMMA SubseqOfEmpty ==
  ASSUME NEW S, NEW p \in Seq(S), UavcanSubseq(p, <<>>)
  PROVE  p = <<>>
<1>1. PICK f \in [1 .. Len(p) -> 1 .. Len(<<>>)] : EmbeddedBy(f, p, <<>>)
  BY DEF UavcanSubseq
<1>2. Len(p) = 0
  <2>1. SUFFICES ASSUME Len(p) /= 0 PROVE FALSE
    OBVIOUS
  <2>2. 1 \in 1 .. Len(p)
    BY <2>1, LenProperties
  <2>3. f[1] \in 1 .. 0
    BY <1>1, <2>2, EmptySeq
  <2>4. QED
    BY <2>3
<1>3. QED
  BY <1>2, EmptySeq

(* A UAVCAN frame entering the FIFO joins the end of its subsequence.      *)
LEMMA SubseqAppendUavcan ==
  ASSUME NEW S, NEW p \in Seq(S), NEW q \in Seq(S), NEW x \in S,
         UavcanSubseq(p, q), UavcanFrame(x)
  PROVE  UavcanSubseq(Append(p, x), Append(q, x))
<1>1. PICK f \in [1 .. Len(p) -> 1 .. Len(q)] : EmbeddedBy(f, p, q)
  BY DEF UavcanSubseq
<1> DEFINE g == [j \in 1 .. Len(p) + 1 |-> IF j <= Len(p) THEN f[j] ELSE Len(q) + 1]
           p2 == Append(p, x)
           q2 == Append(q, x)
<1>2. /\ Len(p2) = Len(p) + 1 /\ Len(q2) = Len(q) + 1
      /\ \A j \in 1 .. Len(p) : p2[j] = p[j]
      /\ \A i \in 1 .. Len(q) : q2[i] = q[i]
      /\ p2[Len(p) + 1] = x /\ q2[Len(q) + 1] = x
      /\ Len(p) \in Nat /\ Len(q) \in Nat
  BY AppendProperties, LenProperties
<1>3. g \in [1 .. Len(p2) -> 1 .. Len(q2)]
  BY <1>1, <1>2
<1>4. \A j1, j2 \in 1 .. Len(p2) : j1 < j2 => g[j1] < g[j2]
  <2> SUFFICES ASSUME NEW j1 \in 1 .. Len(p2), NEW j2 \in 1 .. Len(p2), j1 < j2
               PROVE  g[j1] < g[j2]
    OBVIOUS
  <2>1. j1 \in 1 .. Len(p) /\ g[j1] = f[j1] /\ f[j1] \in 1 .. Len(q)
    BY <1>1, <1>2
  <2>2. CASE j2 <= Len(p)
    BY <1>1, <1>2, <2>1, <2>2 DEF EmbeddedBy
  <2>3. CASE j2 = Len(p) + 1
    BY <1>2, <2>1, <2>3
  <2>4. QED
    BY <1>2, <2>2, <2>3
<1>5. \A j \in 1 .. Len(p2) : p2[j] = q2[g[j]] /\ UavcanFrame(p2[j])
  BY <1>1, <1>2 DEF EmbeddedBy
<1>6. \A i \in 1 .. Len(q2) : UavcanFrame(q2[i]) => \E j \in 1 .. Len(p2) : g[j] = i
  <2> SUFFICES ASSUME NEW i \in 1 .. Len(q2), UavcanFrame(q2[i])
               PROVE  \E j \in 1 .. Len(p2) : g[j] = i
    OBVIOUS
  <2>1. CASE i <= Len(q)
    <3>1. PICK j \in 1 .. Len(p) : f[j] = i
      BY <1>1, <1>2, <2>1 DEF EmbeddedBy
    <3>2. QED
      BY <3>1, <1>2
  <2>2. CASE i = Len(q) + 1
    BY <2>2, <1>2
  <2>3. QED
    BY <2>1, <2>2, <1>2
<1>7. QED
  BY <1>3, <1>4, <1>5, <1>6 DEF UavcanSubseq, EmbeddedBy

(* Any other frame entering the FIFO leaves its subsequence as it was.     *)
LEMMA SubseqAppendOther ==
  ASSUME NEW S, NEW p \in Seq(S), NEW q \in Seq(S), NEW x \in S,
         UavcanSubseq(p, q), ~UavcanFrame(x)
  PROVE  UavcanSubseq(p, Append(q, x))
<1>1. PICK f \in [1 .. Len(p) -> 1 .. Len(q)] : EmbeddedBy(f, p, q)
  BY DEF UavcanSubseq
<1> DEFINE q2 == Append(q, x)
<1>2. /\ Len(q2) = Len(q) + 1
      /\ \A i \in 1 .. Len(q) : q2[i] = q[i]
      /\ q2[Len(q) + 1] = x
      /\ Len(p) \in Nat /\ Len(q) \in Nat
  BY AppendProperties, LenProperties
<1>3. f \in [1 .. Len(p) -> 1 .. Len(q2)]
  BY <1>1, <1>2
<1>4. \A j \in 1 .. Len(p) : p[j] = q2[f[j]] /\ UavcanFrame(p[j])
  BY <1>1, <1>2 DEF EmbeddedBy
<1>5. \A i \in 1 .. Len(q2) : UavcanFrame(q2[i]) => \E j \in 1 .. Len(p) : f[j] = i
  <2> SUFFICES ASSUME NEW i \in 1 .. Len(q2), UavcanFrame(q2[i])
               PROVE  \E j \in 1 .. Len(p) : f[j] = i
    OBVIOUS
  <2>1. i /= Len(q) + 1
    BY <1>2
  <2>2. i \in 1 .. Len(q) /\ UavcanFrame(q[i])
    BY <1>2, <2>1
  <2>3. QED
    BY <1>1, <2>2 DEF EmbeddedBy
<1>6. QED
  BY <1>1, <1>3, <1>4, <1>5 DEF UavcanSubseq, EmbeddedBy

(* Popping a frame that is not a UAVCAN frame leaves the subsequence as   *)
(* it was: no frame of it sat at the head.                                  *)
LEMMA SubseqTailOther ==
  ASSUME NEW S, NEW p \in Seq(S), NEW q \in Seq(S), q /= <<>>,
         UavcanSubseq(p, q), ~UavcanFrame(q[1])
  PROVE  UavcanSubseq(p, Tail(q))
<1>1. PICK f \in [1 .. Len(p) -> 1 .. Len(q)] : EmbeddedBy(f, p, q)
  BY DEF UavcanSubseq
<1> DEFINE g == [j \in 1 .. Len(p) |-> f[j] - 1]
           q2 == Tail(q)
<1>2. /\ Len(q) \in Nat \ {0} /\ Len(p) \in Nat
      /\ Len(q2) = Len(q) - 1
      /\ \A i \in 1 .. Len(q2) : q2[i] = q[i + 1]
  BY EmptySeq, HeadTailProperties, LenProperties
<1>3. \A j \in 1 .. Len(p) : f[j] /= 1
  BY <1>1 DEF EmbeddedBy
<1>4. g \in [1 .. Len(p) -> 1 .. Len(q2)]
  BY <1>1, <1>2, <1>3
<1>5. \A j1, j2 \in 1 .. Len(p) : j1 < j2 => g[j1] < g[j2]
  BY <1>1 DEF EmbeddedBy
<1>6. \A j \in 1 .. Len(p) : p[j] = q2[g[j]] /\ UavcanFrame(p[j])
  <2> SUFFICES ASSUME NEW j \in 1 .. Len(p) PROVE p[j] = q2[g[j]] /\ UavcanFrame(p[j])
    OBVIOUS
  <2>1. g[j] \in 1 .. Len(q2) /\ g[j] + 1 = f[j]
    BY <1>1, <1>4
  <2>2. q2[g[j]] = q[f[j]]
    BY <1>2, <2>1
  <2>3. QED
    BY <1>1, <2>2 DEF EmbeddedBy
<1>7. \A i \in 1 .. Len(q2) : UavcanFrame(q2[i]) => \E j \in 1 .. Len(p) : g[j] = i
  <2> SUFFICES ASSUME NEW i \in 1 .. Len(q2), UavcanFrame(q2[i])
               PROVE  \E j \in 1 .. Len(p) : g[j] = i
    OBVIOUS
  <2>1. i + 1 \in 1 .. Len(q) /\ UavcanFrame(q[i + 1])
    BY <1>2
  <2>2. PICK j \in 1 .. Len(p) : f[j] = i + 1
    BY <1>1, <2>1 DEF EmbeddedBy
  <2>3. QED
    BY <2>2
<1>8. QED
  BY <1>4, <1>5, <1>6, <1>7 DEF UavcanSubseq, EmbeddedBy

(* Popping a UAVCAN frame pops the head of the subsequence, and that head *)
(* is the frame popped.                                                    *)
LEMMA SubseqTailUavcan ==
  ASSUME NEW S, NEW p \in Seq(S), NEW q \in Seq(S), q /= <<>>,
         UavcanSubseq(p, q), UavcanFrame(q[1])
  PROVE  /\ p /= <<>>
         /\ p[1] = q[1]
         /\ UavcanSubseq(Tail(p), Tail(q))
<1>1. PICK f \in [1 .. Len(p) -> 1 .. Len(q)] : EmbeddedBy(f, p, q)
  BY DEF UavcanSubseq
<1>2. /\ Len(q) \in Nat \ {0} /\ Len(p) \in Nat
      /\ Len(Tail(q)) = Len(q) - 1
      /\ \A i \in 1 .. Len(Tail(q)) : Tail(q)[i] = q[i + 1]
  BY EmptySeq, HeadTailProperties, LenProperties
<1>3. PICK j0 \in 1 .. Len(p) : f[j0] = 1
  BY <1>1, <1>2 DEF EmbeddedBy
<1>4. p /= <<>>
  BY <1>3, EmptySeq
<1>5. f[1] = 1
  <2>1. CASE j0 = 1
    BY <1>3, <2>1
  <2>2. CASE j0 /= 1
    <3>1. 1 \in 1 .. Len(p) /\ 1 < j0
      BY <1>3, <2>2
    <3>2. f[1] < f[j0] /\ f[1] \in 1 .. Len(q)
      BY <1>1, <3>1 DEF EmbeddedBy
    <3>3. QED
      BY <1>3, <3>2
  <2>3. QED
    BY <2>1, <2>2
<1>6. p[1] = q[1]
  <2>1. 1 \in 1 .. Len(p)
    BY <1>3
  <2>2. QED
    BY <1>1, <1>5, <2>1 DEF EmbeddedBy
<1> DEFINE p2 == Tail(p)
           q2 == Tail(q)
           g == [j \in 1 .. Len(p) - 1 |-> f[j + 1] - 1]
<1>7. /\ Len(p2) = Len(p) - 1 /\ Len(p) \in Nat \ {0}
      /\ \A j \in 1 .. Len(p2) : p2[j] = p[j + 1]
  BY <1>4, EmptySeq, HeadTailProperties
<1>8. \A j \in 2 .. Len(p) : f[j] >= 2 /\ f[j] \in 1 .. Len(q)
  <2> SUFFICES ASSUME NEW j \in 2 .. Len(p) PROVE f[j] >= 2 /\ f[j] \in 1 .. Len(q)
    OBVIOUS
  <2>1. 1 \in 1 .. Len(p) /\ j \in 1 .. Len(p) /\ 1 < j
    BY <1>7
  <2>2. f[1] < f[j] /\ f[j] \in 1 .. Len(q)
    BY <1>1, <2>1 DEF EmbeddedBy
  <2>3. QED
    BY <1>5, <2>2
<1>9. g \in [1 .. Len(p2) -> 1 .. Len(q2)]
  BY <1>2, <1>7, <1>8
<1>10. \A j1, j2 \in 1 .. Len(p2) : j1 < j2 => g[j1] < g[j2]
  <2> SUFFICES ASSUME NEW j1 \in 1 .. Len(p2), NEW j2 \in 1 .. Len(p2), j1 < j2
               PROVE  g[j1] < g[j2]
    OBVIOUS
  <2>1. j1 + 1 \in 1 .. Len(p) /\ j2 + 1 \in 1 .. Len(p) /\ j1 + 1 < j2 + 1
    BY <1>7
  <2>2. f[j1 + 1] < f[j2 + 1] /\ f[j1 + 1] \in 1 .. Len(q) /\ f[j2 + 1] \in 1 .. Len(q)
    BY <1>1, <2>1 DEF EmbeddedBy
  <2>3. QED
    BY <1>7, <2>2
<1>11. \A j \in 1 .. Len(p2) : p2[j] = q2[g[j]] /\ UavcanFrame(p2[j])
  <2> SUFFICES ASSUME NEW j \in 1 .. Len(p2) PROVE p2[j] = q2[g[j]] /\ UavcanFrame(p2[j])
    OBVIOUS
  <2>1. j + 1 \in 2 .. Len(p) /\ p2[j] = p[j + 1]
    BY <1>7
  <2>2. g[j] \in 1 .. Len(q2) /\ g[j] + 1 = f[j + 1]
    BY <1>8, <1>9, <2>1
  <2>3. q2[g[j]] = q[f[j + 1]]
    BY <1>2, <2>2
  <2>4. p[j + 1] = q[f[j + 1]] /\ UavcanFrame(p[j + 1])
    BY <1>1, <2>1 DEF EmbeddedBy
  <2>5. QED
    BY <2>1, <2>3, <2>4
<1>12. \A i \in 1 .. Len(q2) : UavcanFrame(q2[i]) => \E j \in 1 .. Len(p2) : g[j] = i
  <2> SUFFICES ASSUME NEW i \in 1 .. Len(q2), UavcanFrame(q2[i])
               PROVE  \E j \in 1 .. Len(p2) : g[j] = i
    OBVIOUS
  <2>1. i + 1 \in 1 .. Len(q) /\ UavcanFrame(q[i + 1])
    BY <1>2
  <2>2. PICK j \in 1 .. Len(p) : f[j] = i + 1
    BY <1>1, <2>1 DEF EmbeddedBy
  <2>3. j /= 1
    BY <1>5, <1>2, <2>2
  <2>4. j - 1 \in 1 .. Len(p2) /\ g[j - 1] = i
    BY <1>7, <2>2, <2>3
  <2>5. QED
    BY <2>4
<1>13. QED
  BY <1>4, <1>6, <1>9, <1>10, <1>11, <1>12 DEF UavcanSubseq, EmbeddedBy

(* Dropping the FIFO's newest frame, when it is a UAVCAN frame, drops the *)
(* last frame of the subsequence: the map sends that frame to the last     *)
(* place, since it is increasing and reaches the last place.               *)
LEMMA SubseqFrontUavcan ==
  ASSUME NEW S, NEW p \in Seq(S), NEW q \in Seq(S), q /= <<>>,
         UavcanSubseq(p, q), UavcanFrame(q[Len(q)])
  PROVE  /\ p /= <<>>
         /\ UavcanSubseq(SubSeq(p, 1, Len(p) - 1), SubSeq(q, 1, Len(q) - 1))
<1>1. PICK f \in [1 .. Len(p) -> 1 .. Len(q)] : EmbeddedBy(f, p, q)
  BY DEF UavcanSubseq
<1>2. Len(q) \in Nat \ {0} /\ Len(p) \in Nat /\ Len(q) \in 1 .. Len(q)
  BY EmptySeq, LenProperties
<1>3. PICK j0 \in 1 .. Len(p) : f[j0] = Len(q)
  BY <1>1, <1>2 DEF EmbeddedBy
<1>4. p /= <<>> /\ Len(p) \in 1 .. Len(p)
  BY <1>3, EmptySeq
<1>5. f[Len(p)] = Len(q)
  <2>1. SUFFICES ASSUME j0 /= Len(p) PROVE FALSE
    BY <1>3
  <2>2. j0 < Len(p)
    BY <1>3, <2>1
  <2>3. f[j0] < f[Len(p)] /\ f[Len(p)] \in 1 .. Len(q)
    BY <1>1, <1>4, <2>2 DEF EmbeddedBy
  <2>4. QED
    BY <1>3, <2>3
<1> DEFINE p2 == SubSeq(p, 1, Len(p) - 1)
           q2 == SubSeq(q, 1, Len(q) - 1)
           g == [j \in 1 .. Len(p) - 1 |-> f[j]]
<1>6. /\ Len(p2) = Len(p) - 1 /\ \A j \in 1 .. Len(p2) : p2[j] = p[j]
      /\ Len(q2) = Len(q) - 1 /\ \A i \in 1 .. Len(q2) : q2[i] = q[i]
  <2>1. Len(p) - 1 \in 0 .. Len(p) /\ Len(q) - 1 \in 0 .. Len(q)
    BY <1>2, <1>4
  <2>2. QED
    BY <2>1, PrefixProps
<1>7. \A j \in 1 .. Len(p2) : f[j] \in 1 .. Len(q2)
  <2> SUFFICES ASSUME NEW j \in 1 .. Len(p2) PROVE f[j] \in 1 .. Len(q2)
    OBVIOUS
  <2>1. j \in 1 .. Len(p) /\ j < Len(p)
    BY <1>6
  <2>2. f[j] < f[Len(p)] /\ f[j] \in 1 .. Len(q)
    BY <1>1, <1>4, <2>1 DEF EmbeddedBy
  <2>3. QED
    BY <1>5, <1>6, <2>2
<1>8. g \in [1 .. Len(p2) -> 1 .. Len(q2)]
  BY <1>6, <1>7
<1>9. \A j1, j2 \in 1 .. Len(p2) : j1 < j2 => g[j1] < g[j2]
  BY <1>1, <1>6 DEF EmbeddedBy
<1>10. \A j \in 1 .. Len(p2) : p2[j] = q2[g[j]] /\ UavcanFrame(p2[j])
  <2> SUFFICES ASSUME NEW j \in 1 .. Len(p2) PROVE p2[j] = q2[g[j]] /\ UavcanFrame(p2[j])
    OBVIOUS
  <2>1. j \in 1 .. Len(p) /\ p2[j] = p[j] /\ g[j] = f[j]
    BY <1>6
  <2>2. q2[f[j]] = q[f[j]]
    BY <1>6, <1>7
  <2>3. QED
    BY <1>1, <2>1, <2>2 DEF EmbeddedBy
<1>11. \A i \in 1 .. Len(q2) : UavcanFrame(q2[i]) => \E j \in 1 .. Len(p2) : g[j] = i
  <2> SUFFICES ASSUME NEW i \in 1 .. Len(q2), UavcanFrame(q2[i])
               PROVE  \E j \in 1 .. Len(p2) : g[j] = i
    OBVIOUS
  <2>1. i \in 1 .. Len(q) /\ i /= Len(q) /\ UavcanFrame(q[i])
    BY <1>6
  <2>2. PICK j \in 1 .. Len(p) : f[j] = i
    BY <1>1, <2>1 DEF EmbeddedBy
  <2>3. j /= Len(p)
    BY <1>5, <2>1, <2>2
  <2>4. j \in 1 .. Len(p2) /\ g[j] = i
    BY <1>6, <2>2, <2>3
  <2>5. QED
    BY <2>4
<1>12. QED
  BY <1>4, <1>8, <1>9, <1>10, <1>11 DEF UavcanSubseq, EmbeddedBy

(* Dropping the FIFO's newest frame, when it is not a UAVCAN frame, leaves *)
(* the subsequence as it was: no frame of it sat there.                    *)
LEMMA SubseqFrontOther ==
  ASSUME NEW S, NEW p \in Seq(S), NEW q \in Seq(S), q /= <<>>,
         UavcanSubseq(p, q), ~UavcanFrame(q[Len(q)])
  PROVE  UavcanSubseq(p, SubSeq(q, 1, Len(q) - 1))
<1>1. PICK f \in [1 .. Len(p) -> 1 .. Len(q)] : EmbeddedBy(f, p, q)
  BY DEF UavcanSubseq
<1> DEFINE q2 == SubSeq(q, 1, Len(q) - 1)
<1>2. /\ Len(q) \in Nat \ {0} /\ Len(p) \in Nat
      /\ Len(q2) = Len(q) - 1 /\ \A i \in 1 .. Len(q2) : q2[i] = q[i]
  <2>1. Len(q) \in Nat \ {0} /\ Len(p) \in Nat
    BY EmptySeq, LenProperties
  <2>2. Len(q) - 1 \in 0 .. Len(q)
    BY <2>1
  <2>3. QED
    BY <2>1, <2>2, PrefixProps
<1>3. \A j \in 1 .. Len(p) : f[j] /= Len(q)
  BY <1>1 DEF EmbeddedBy
<1>4. f \in [1 .. Len(p) -> 1 .. Len(q2)]
  BY <1>1, <1>2, <1>3
<1>5. \A j \in 1 .. Len(p) : p[j] = q2[f[j]] /\ UavcanFrame(p[j])
  BY <1>1, <1>2, <1>4 DEF EmbeddedBy
<1>6. \A i \in 1 .. Len(q2) : UavcanFrame(q2[i]) => \E j \in 1 .. Len(p) : f[j] = i
  BY <1>1, <1>2 DEF EmbeddedBy
<1>7. QED
  BY <1>1, <1>4, <1>5, <1>6 DEF UavcanSubseq, EmbeddedBy

LEMMA InitPendingInv == Init => PendingInv
<1> SUFFICES ASSUME Init PROVE PendingInv
  OBVIOUS
<1>1. pending = <<>> /\ fifo = <<>>
  BY DEF Init
<1>2. [x \in {} |-> x] \in [1 .. 0 -> 1 .. 0]
  OBVIOUS
<1>3. QED
  BY <1>1, <1>2, EmptySeq DEF PendingInv, UavcanSubseq, EmbeddedBy

LEMMA NextPendingInv == TypeOK /\ PendingInv /\ [Next]_vars => PendingInv'
<1> SUFFICES ASSUME TypeOK, PendingInv, [Next]_vars PROVE PendingInv'
  OBVIOUS
<1>0. fifo \in Seq(BusFrames) /\ pending \in Seq(BusFrames) /\ UavcanSubseq(pending, fifo)
  BY DEF TypeOK, PendingInv
<1>1. CASE \E fr \in BusFrames : Arrive(fr)
  <2>1. PICK fr \in BusFrames : Arrive(fr)
    BY <1>1
  <2>2. CASE Admitted(fr) /\ Len(fifo) < FifoDepth /\ UavcanFrame(fr)
    <3>1. fifo' = Append(fifo, fr) /\ pending' = Append(pending, fr)
      BY <2>1, <2>2 DEF Arrive
    <3>2. UavcanSubseq(Append(pending, fr), Append(fifo, fr))
      BY <1>0, <2>2, SubseqAppendUavcan
    <3>3. Append(pending, fr) \in Seq(BusFrames)
      BY <1>0, AppendProperties
    <3>4. QED
      BY <3>1, <3>2, <3>3 DEF PendingInv
  <2>3. CASE Admitted(fr) /\ Len(fifo) < FifoDepth /\ ~UavcanFrame(fr)
    <3>1. fifo' = Append(fifo, fr) /\ pending' = pending
      BY <2>1, <2>3 DEF Arrive
    <3>2. UavcanSubseq(pending, Append(fifo, fr))
      BY <1>0, <2>3, SubseqAppendOther
    <3>3. QED
      BY <1>0, <3>1, <3>2 DEF PendingInv
  <2>4. CASE Admitted(fr) /\ ~(Len(fifo) < FifoDepth)
    <3> DEFINE newest == fifo[Len(fifo)]
               kept == IF UavcanFrame(newest) THEN SubSeq(pending, 1, Len(pending) - 1)
                       ELSE pending
               front == SubSeq(fifo, 1, Len(fifo) - 1)
    <3>1. fifo /= <<>>
      BY <2>4, EmptySeq DEF TypeOK
    <3>2. /\ fifo' = Append(front, fr)
          /\ pending' = IF UavcanFrame(fr) THEN Append(kept, fr) ELSE kept
      <4>1. fifo' = [fifo EXCEPT ![Len(fifo)] = fr]
            /\ pending' = Overwrite(pending, UavcanFrame(newest), fr)
        BY <2>1, <2>4 DEF Arrive
      <4>2. QED
        BY <1>0, <3>1, <4>1, ExceptLastIsAppend DEF Overwrite
    <3>3. UavcanSubseq(kept, front) /\ kept \in Seq(BusFrames) /\ front \in Seq(BusFrames)
      <4>1. CASE UavcanFrame(newest)
        <5>1. pending /= <<>> /\ UavcanSubseq(SubSeq(pending, 1, Len(pending) - 1), front)
          BY <1>0, <3>1, <4>1, SubseqFrontUavcan
        <5>2. Len(pending) \in 1 .. Len(pending)
          BY <1>0, <5>1, EmptySeq, LenProperties
        <5>3. SubSeq(pending, 1, Len(pending) - 1) \in Seq(BusFrames)
          BY <1>0, <5>2, SubSeqProperties
        <5>4. QED
          BY <4>1, <5>1, <5>3, <1>0, SubSeqProperties, EmptySeq, LenProperties
      <4>2. CASE ~UavcanFrame(newest)
        BY <1>0, <3>1, <4>2, SubseqFrontOther, SubSeqProperties, EmptySeq, LenProperties
      <4>3. QED
        BY <4>1, <4>2
    <3>4. CASE UavcanFrame(fr)
      BY <3>2, <3>3, <3>4, SubseqAppendUavcan, AppendProperties DEF PendingInv
    <3>5. CASE ~UavcanFrame(fr)
      BY <3>2, <3>3, <3>5, SubseqAppendOther DEF PendingInv
    <3>6. QED
      BY <3>4, <3>5
  <2>5. CASE ~Admitted(fr)
    <3>1. UNCHANGED <<fifo, pending>>
      BY <2>1, <2>5 DEF Arrive
    <3>2. QED
      BY <1>0, <3>1 DEF PendingInv
  <2>6. QED
    BY <2>2, <2>3, <2>4, <2>5
<1>2. CASE ReceiveStep /\ ~overrun /\ fifo /= <<>>
  <2>1. fifo' = Tail(fifo) /\ Head(fifo) = fifo[1]
    BY <1>2 DEF ReceiveStep
  <2>2. CASE UavcanFrame(fifo[1])
    <3>1. pending' = Tail(pending)
      BY <1>2, <2>1, <2>2 DEF ReceiveStep
    <3>2. pending /= <<>> /\ UavcanSubseq(Tail(pending), Tail(fifo))
      BY <1>0, <1>2, <2>2, SubseqTailUavcan
    <3>3. Tail(pending) \in Seq(BusFrames)
      BY <1>0, <3>2, HeadTailProperties
    <3>4. QED
      BY <2>1, <3>1, <3>2, <3>3 DEF PendingInv
  <2>3. CASE ~UavcanFrame(fifo[1])
    <3>1. pending' = pending
      BY <1>2, <2>1, <2>3 DEF ReceiveStep
    <3>2. UavcanSubseq(pending, Tail(fifo))
      BY <1>0, <1>2, <2>3, SubseqTailOther
    <3>3. QED
      BY <1>0, <2>1, <3>1, <3>2 DEF PendingInv
  <2>4. QED
    BY <2>2, <2>3
<1>3. CASE ReceiveStep /\ (overrun \/ fifo = <<>>)
  <2>1. UNCHANGED <<fifo, pending>>
    BY <1>3 DEF ReceiveStep
  <2>2. QED
    BY <1>0, <2>1 DEF PendingInv
<1>4. CASE StartReceive \/ (\E S \in SUBSET Ports : ApplyFilters(S)) \/ ApplyAcceptAll
         \/ UNCHANGED vars
  <2>1. UNCHANGED <<fifo, pending>>
    BY <1>4 DEF StartReceive, ApplyFilters, ApplyAcceptAll, vars
  <2>2. QED
    BY <1>0, <2>1 DEF PendingInv
<1>5. QED
  BY <1>1, <1>2, <1>3, <1>4 DEF Next

(* The invariants the refinement rests on.                                  *)
LEMMA PendingInvariant == Spec => [](TypeOK /\ PendingInv)
<1>1. Init => TypeOK /\ PendingInv
  BY InitTypeOK, InitPendingInv
<1>2. TypeOK /\ PendingInv /\ [Next]_vars => (TypeOK /\ PendingInv)'
  BY NextTypeOK, NextPendingInv
<1>3. QED
  BY <1>1, <1>2, PTL DEF Spec

(* Each step of the driver is a step of the channel or leaves it alone.    *)
LEMMA StepRefines == TypeOK /\ PendingInv /\ [Next]_vars => [Channel!Next]_Channel!vars
<1> SUFFICES ASSUME TypeOK, PendingInv, [Next]_vars PROVE [Channel!Next]_Channel!vars
  OBVIOUS
<1>0. fifo \in Seq(BusFrames) /\ pending \in Seq(BusFrames) /\ UavcanSubseq(pending, fifo)
  BY DEF TypeOK, PendingInv
<1> DEFINE Stutter == UNCHANGED <<pending, delivered, calling, result, overrun>>
<1>s. Stutter => UNCHANGED Channel!vars
  BY DEF Channel!vars
<1>1. CASE \E fr \in BusFrames : Arrive(fr)
  <2>1. PICK fr \in BusFrames : Arrive(fr)
    BY <1>1
  <2>2. CASE Admitted(fr) /\ Len(fifo) < FifoDepth /\ UavcanFrame(fr)
    <3>1. pending' = Append(pending, fr) /\ UNCHANGED <<delivered, calling, result, overrun>>
      BY <2>1, <2>2 DEF Arrive
    <3>2. Channel!Offer(fr)
      BY <2>2, <3>1 DEF Channel!Offer
    <3>3. QED
      BY <3>2 DEF Channel!Next
  <2>3. CASE Admitted(fr) /\ ~(Len(fifo) < FifoDepth)
    <3> DEFINE kept == IF UavcanFrame(fifo[Len(fifo)]) THEN SubSeq(pending, 1, Len(pending) - 1)
                       ELSE pending
    <3>1. /\ pending' = Overwrite(pending, UavcanFrame(fifo[Len(fifo)]), fr)
          /\ overrun' = TRUE
          /\ UNCHANGED <<delivered, calling, result>>
      BY <2>1, <2>3 DEF Arrive
    <3>2. pending' = Channel!Added(kept, fr)
      BY <3>1 DEF Overwrite, Channel!Added
    <3>3. kept \in {pending, SubSeq(pending, 1, Len(pending) - 1)}
      OBVIOUS
    <3>4. Channel!Overrun(fr)
      BY <3>1, <3>2, <3>3, Zenon DEF Channel!Overrun
    <3>5. QED
      BY <3>4 DEF Channel!Next
  <2>4. CASE ~(Admitted(fr) /\ Len(fifo) < FifoDepth /\ UavcanFrame(fr))
             /\ ~(Admitted(fr) /\ ~(Len(fifo) < FifoDepth))
    <3>1. Stutter
      BY <2>1, <2>4 DEF Arrive
    <3>2. QED
      BY <3>1, <1>s
  <2>5. QED
    BY <2>2, <2>3, <2>4
<1>2. CASE StartReceive
  <2>1. Channel!Call
    BY <1>2 DEF StartReceive, Channel!Call
  <2>2. QED
    BY <2>1 DEF Channel!Next
<1>3. CASE ReceiveStep /\ overrun
  <2>1. Channel!Fail
    BY <1>3 DEF ReceiveStep, LoopExit, Channel!Fail
  <2>2. QED
    BY <2>1 DEF Channel!Next
<1>4. CASE ReceiveStep /\ ~overrun /\ fifo = <<>>
  <2>1. pending = <<>>
    BY <1>0, <1>4, SubseqOfEmpty
  <2>2. Channel!Empty
    BY <1>4, <2>1 DEF ReceiveStep, LoopExit, Channel!Empty
  <2>3. QED
    BY <2>2 DEF Channel!Next
<1>5. CASE ReceiveStep /\ ~overrun /\ fifo /= <<>> /\ UavcanFrame(Head(fifo))
  <2>1. Head(fifo) = fifo[1]
    OBVIOUS
  <2>2. pending /= <<>> /\ pending[1] = fifo[1]
    BY <1>0, <1>5, <2>1, SubseqTailUavcan
  <2>3. Head(pending) = Head(fifo)
    BY <2>1, <2>2
  <2>4. Converts(Head(fifo))
    BY <1>5 DEF Converts, UavcanFrame
  <2>5. /\ pending' = Tail(pending)
        /\ delivered' = Append(delivered, Head(fifo))
        /\ calling /\ calling' = FALSE
        /\ result' = "frame" /\ ~overrun /\ overrun' = overrun
    BY <1>5, <2>4 DEF ReceiveStep, LoopExit
  <2>6. Channel!Deliver
    BY <2>2, <2>3, <2>5 DEF Channel!Deliver
  <2>7. QED
    BY <2>6 DEF Channel!Next
<1>6. CASE ReceiveStep /\ ~overrun /\ fifo /= <<>> /\ ~UavcanFrame(Head(fifo))
  <2>1. ~Converts(Head(fifo))
    BY <1>6 DEF Converts, UavcanFrame
  <2>2. Stutter
    BY <1>6, <2>1 DEF ReceiveStep
  <2>3. QED
    BY <2>2, <1>s
<1>7. CASE (\E S \in SUBSET Ports : ApplyFilters(S)) \/ ApplyAcceptAll \/ UNCHANGED vars
  <2>1. Stutter
    BY <1>7 DEF ApplyFilters, ApplyAcceptAll, vars
  <2>2. QED
    BY <2>1, <1>s
<1>8. QED
  BY <1>1, <1>2, <1>3, <1>4, <1>5, <1>6, <1>7 DEF Next

(* The bxCAN receive path implements the abstract receive channel: the    *)
(* UAVCAN frames queued in the FIFO form the channel's inbox, the overrun  *)
(* flag its loss flag, and every arrival, overwrite of the newest frame,   *)
(* filter change, skipped frame and return of receive() is an Offer,       *)
(* Overrun, Call, Deliver, Empty or Fail of the channel, or no step of it  *)
(* at all, for every FIFO depth and every set of ports: WouldBlock comes   *)
(* only with nothing waiting and no loss unreported.                       *)
THEOREM ImplementsChannelHolds == Spec => ImplementsChannel
<1>1. Init => Channel!Init
  BY DEF Init, Channel!Init
<1>2. QED
  BY <1>1, PendingInvariant, StepRefines, PTL DEF Spec, ImplementsChannel, Channel!Spec

-----------------------------------------------------------------------------

(* receive() has returned the UAVCAN subsequence of the frames taken from *)
(* the FIFO: DeliveredInOrder's second conjunct.                          *)
DeliveredSub == UavcanSubseq(delivered, SubSeq(stored, 1, taken))

(* A frame appended to the stored frames leaves their first k unchanged.  *)
LEMMA PrefixOfAppend ==
  ASSUME NEW S, NEW s \in Seq(S), NEW x \in S, NEW k \in 0 .. Len(s)
  PROVE  SubSeq(Append(s, x), 1, k) = SubSeq(s, 1, k)
<1>1. Append(s, x) \in Seq(S) /\ Len(Append(s, x)) = Len(s) + 1
      /\ \A i \in 1 .. Len(s) : Append(s, x)[i] = s[i]
  BY AppendProperties
<1>2. SubSeq(Append(s, x), 1, k) \in Seq(S) /\ Len(SubSeq(Append(s, x), 1, k)) = k
      /\ \A i \in 1 .. k : SubSeq(Append(s, x), 1, k)[i] = Append(s, x)[i]
  BY <1>1, SubSeqProperties
<1>3. SubSeq(s, 1, k) \in Seq(S) /\ Len(SubSeq(s, 1, k)) = k
      /\ \A i \in 1 .. k : SubSeq(s, 1, k)[i] = s[i]
  BY SubSeqProperties
<1>4. QED
  BY <1>1, <1>2, <1>3, SeqEqual

(* Taking one more frame appends it to the frames taken.                   *)
LEMMA PrefixExtend ==
  ASSUME NEW S, NEW s \in Seq(S), NEW k \in 0 .. Len(s) - 1
  PROVE  SubSeq(s, 1, k + 1) = Append(SubSeq(s, 1, k), s[k + 1])
<1>1. k + 1 \in 1 .. Len(s) /\ s[k + 1] \in S
  BY LenProperties
<1>2. SubSeq(s, 1, k + 1) = SubSeq(s, 1, k) \o << s[k + 1] >>
  BY <1>1, SubSeqRecursiveSecond
<1>3. SubSeq(s, 1, k) \in Seq(S)
  BY SubSeqProperties
<1>4. QED
  BY <1>1, <1>2, <1>3, AppendIsConcat

LEMMA InitDeliveredSub == Init => DeliveredSub
<1> SUFFICES ASSUME Init PROVE DeliveredSub
  OBVIOUS
<1>1. delivered = <<>> /\ SubSeq(stored, 1, taken) = <<>>
  BY DEF Init
<1>2. [x \in {} |-> x] \in [1 .. 0 -> 1 .. 0]
  OBVIOUS
<1>3. QED
  BY <1>1, <1>2, EmptySeq DEF DeliveredSub, UavcanSubseq, EmbeddedBy

LEMMA NextDeliveredSub ==
  TypeOK /\ FifoIdx /\ DeliveredSub /\ [Next]_vars => DeliveredSub'
<1> SUFFICES ASSUME TypeOK, FifoIdx, DeliveredSub, [Next]_vars PROVE DeliveredSub'
  OBVIOUS
<1> DEFINE pre == SubSeq(stored, 1, taken)
<1>0. /\ stored \in Seq(BusFrames) /\ delivered \in Seq(BusFrames) /\ fifo \in Seq(BusFrames)
      /\ taken \in 0 .. Len(stored) /\ Len(fifo) \in Nat
      /\ pre \in Seq(BusFrames)
      /\ UavcanSubseq(delivered, pre)
  <2>1. stored \in Seq(BusFrames) /\ delivered \in Seq(BusFrames) /\ fifo \in Seq(BusFrames)
        /\ taken \in Nat
    BY DEF TypeOK
  <2>2. Len(fifo) \in Nat /\ taken \in 0 .. Len(stored)
    BY <2>1 DEF FifoIdx
  <2>3. pre \in Seq(BusFrames)
    BY <2>1, <2>2, SubSeqProperties
  <2>4. QED
    BY <2>1, <2>2, <2>3 DEF DeliveredSub
<1>1. CASE \E fr \in BusFrames : Arrive(fr)
  <2>1. PICK fr \in BusFrames : Arrive(fr)
    BY <1>1
  <2>2. UNCHANGED <<taken, delivered>>
    BY <2>1 DEF Arrive
  <2>3. CASE Admitted(fr) /\ ~(Len(fifo) < FifoDepth)
    <3>1. stored' = [stored EXCEPT ![Len(stored)] = fr]
      BY <2>1, <2>3 DEF Arrive
    <3>2. taken \in 0 .. Len(stored) - 1
      BY <1>0, <2>3 DEF FifoIdx
    <3>3. SubSeq(stored', 1, taken') = pre
      BY <1>0, <2>2, <3>1, <3>2, PrefixOfExcept
    <3>4. QED
      BY <1>0, <2>2, <3>3 DEF DeliveredSub
  <2>4. CASE ~(Admitted(fr) /\ ~(Len(fifo) < FifoDepth))
    <3>1. stored' = stored \/ stored' = Append(stored, fr)
      BY <2>1, <2>4 DEF Arrive
    <3>2. SubSeq(stored', 1, taken') = pre
      BY <1>0, <2>2, <3>1, PrefixOfAppend
    <3>3. QED
      BY <1>0, <2>2, <3>2 DEF DeliveredSub
  <2>5. QED
    BY <2>3, <2>4
<1>2. CASE ReceiveStep /\ ~overrun /\ fifo /= <<>>
  <2>1. fifo' = Tail(fifo) /\ taken' = taken + 1 /\ stored' = stored
    BY <1>2 DEF ReceiveStep
  <2>2. taken \in 0 .. Len(stored) - 1 /\ stored[taken + 1] = fifo[1]
    <3>1. Len(fifo) >= 1
      BY <1>0, <1>2, EmptySeq
    <3>2. 1 \in 1 .. Len(fifo)
      BY <3>1
    <3>3. QED
      BY <1>0, <3>1, <3>2 DEF FifoIdx
  <2>3. SubSeq(stored', 1, taken') = Append(pre, fifo[1])
    BY <1>0, <2>1, <2>2, PrefixExtend
  <2>4. fifo[1] \in BusFrames /\ Head(fifo) = fifo[1]
    BY <1>0, <1>2, EmptySeq, LenProperties
  <2>5. CASE UavcanFrame(fifo[1])
    <3>1. delivered' = Append(delivered, fifo[1])
      BY <1>2, <2>4, <2>5 DEF ReceiveStep, Converts, UavcanFrame
    <3>2. UavcanSubseq(Append(delivered, fifo[1]), Append(pre, fifo[1]))
      BY <1>0, <2>4, <2>5, SubseqAppendUavcan
    <3>3. QED
      BY <2>3, <3>1, <3>2 DEF DeliveredSub
  <2>6. CASE ~UavcanFrame(fifo[1])
    <3>1. delivered' = delivered
      BY <1>2, <2>4, <2>6 DEF ReceiveStep, Converts, UavcanFrame
    <3>2. UavcanSubseq(delivered, Append(pre, fifo[1]))
      BY <1>0, <2>4, <2>6, SubseqAppendOther
    <3>3. QED
      BY <2>3, <3>1, <3>2 DEF DeliveredSub
  <2>7. QED
    BY <2>5, <2>6
<1>3. CASE ReceiveStep /\ (overrun \/ fifo = <<>>)
  <2>1. UNCHANGED <<stored, taken, delivered>>
    BY <1>3 DEF ReceiveStep
  <2>2. QED
    BY <1>0, <2>1 DEF DeliveredSub
<1>4. CASE StartReceive \/ (\E S \in SUBSET Ports : ApplyFilters(S)) \/ ApplyAcceptAll
         \/ UNCHANGED vars
  <2>1. UNCHANGED <<stored, taken, delivered>>
    BY <1>4 DEF StartReceive, ApplyFilters, ApplyAcceptAll, vars
  <2>2. QED
    BY <1>0, <2>1 DEF DeliveredSub
<1>5. QED
  BY <1>1, <1>2, <1>3, <1>4 DEF Next

(* receive() returns the UAVCAN frames, and only those, in the order the  *)
(* FIFO took and kept them, however arrivals, overwrites of the newest     *)
(* frame on a full FIFO and skipped frames interleave, and                 *)
(* the UAVCAN frames still in the FIFO are the channel's pending inbox.   *)
THEOREM DeliveredInOrderHolds == Spec => []DeliveredInOrder
<1>1. Spec => [](TypeOK /\ FifoIdx)
  BY InitTypeOK, NextTypeOK, InitFifoIdx, NextFifoIdx, PTL DEF Spec
<1>2. Spec => []DeliveredSub
  BY <1>1, InitDeliveredSub, NextDeliveredSub, PTL DEF Spec
<1>3. Spec => [](FifoHoldsUntaken /\ DeliveredSub /\ PendingInv)
  BY <1>1, <1>2, PendingInvariant, FifoIdxUntaken, PTL
<1>4. FifoHoldsUntaken /\ DeliveredSub /\ PendingInv => DeliveredInOrder
  BY DEF DeliveredSub, PendingInv, DeliveredInOrder
<1>5. QED
  BY <1>3, <1>4, PTL
====
