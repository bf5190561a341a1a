-------------------------- MODULE BxCanDriver_proofs --------------------------
(***************************************************************************)
(* Proofs about BxCanDriver for every value of the constants.  The        *)
(* tracker/mailbox correspondence is not inductive alone: a displaced      *)
(* frame is handed back with the tracked deadline only if the mailboxes    *)
(* hold distinct frames and the transmitted frame is in none of them,      *)
(* which FrameAccounting states; so the four invariants are proved         *)
(* together as IInv.                                                       *)
(***************************************************************************)
EXTENDS BxCanDriver, TLAPS

IInv == TypeOK /\ TrackerMatchesMailbox /\ FrameAccounting /\ StampIntact

USE ConstantsAssumption

(* Arithmetic of the w-bit clock: the remainder is unique, and the        *)
(* remainder of a difference is the difference of remainders, mod M.      *)
LEMMA ModUnique == ASSUME NEW M \in Nat \ {0}, NEW z \in Int, NEW k \in Int, NEW r \in 0 .. M - 1,
   z = (M * k) + r
  PROVE z % M = r
BY SMT
LEMMA DivMod == ASSUME NEW M \in Nat \ {0}, NEW x \in Int
  PROVE /\ x \div M \in Int
        /\ x = (M * (x \div M)) + (x % M)
        /\ (x % M) \in 0 .. M - 1
BY SMT
LEMMA ModDiff == ASSUME NEW M \in Nat \ {0}, NEW x \in Int, NEW y \in Int
  PROVE ((x % M) - (y % M)) % M = (x - y) % M
<1>1. PICK A \in Int : A = M * (x \div M) /\ x = A + (x % M)
  <2>1. M * (x \div M) \in Int /\ x = M * (x \div M) + (x % M)
    BY DivMod
  <2>2. QED
    BY <2>1
<1>2. PICK B \in Int : B = M * (y \div M) /\ y = B + (y % M)
  <2>1. M * (y \div M) \in Int /\ y = M * (y \div M) + (y % M)
    BY DivMod
  <2>2. QED
    BY <2>1
<1>3. PICK C \in Int : C = M * ((x - y) \div M) /\ x - y = C + ((x - y) % M)
  <2>1. M * ((x - y) \div M) \in Int /\ x - y = M * ((x - y) \div M) + ((x - y) % M)
    BY DivMod
  <2>2. QED
    BY <2>1
<1>4. (x % M) - (y % M) = ((C - A) + B) + ((x - y) % M)
  BY <1>1, <1>2, <1>3, DivMod
<1>5. PICK k \in Int : (C - A) + B = M * k
  <2>1. (C - A) + B = M * ((x - y) \div M - x \div M + y \div M)
    BY <1>1, <1>2, <1>3, DivMod
  <2>2. ((x - y) \div M - x \div M + y \div M) \in Int
    BY DivMod
  <2>3. QED
    BY <2>1, <2>2
<1>6. (x - y) % M \in 0 .. M - 1
  BY DivMod
<1>7. QED
  BY <1>4, <1>5, <1>6, ModUnique
(* An instant at most half the clock range ahead of now never compares   *)
(* as already passed: overflow_safe_compare(now, d) is not Greater.        *)
LEMMA NotGreaterBeforeDue ==
  ASSUME NEW t \in Int, NEW d \in Int, 0 <= d - t, d - t < ClockModulus \div 2
  PROVE  OverflowSafeCompare(Inst(t), Inst(d)) /= "Greater"
<1> DEFINE M == ClockModulus
<1>1. M \in Nat \ {0}
  OBVIOUS
<1>2. (Inst(t) - Inst(d)) % M = (t - d) % M
  BY <1>1, ModDiff DEF Inst
<1>3. CASE d = t
  <2>1. (t - d) % M = 0
    BY <1>3, <1>1
  <2>2. QED
    BY <1>2, <2>1 DEF OverflowSafeCompare
<1>4. CASE d /= t
  <2>1. (t - d) % M = M - (d - t)
    <3>1. t - d = M * (-1) + (M - (d - t)) /\ M - (d - t) \in 0 .. M - 1
      BY <1>4, <1>1
    <3>2. QED
      BY <3>1, <1>1, ModUnique
  <2>2. M - (d - t) >= M \div 2 /\ M - (d - t) /= 0
    BY <1>1
  <2>3. QED
    BY <1>2, <2>1, <2>2 DEF OverflowSafeCompare
<1>5. QED
  BY <1>3, <1>4

(* Initially every mailbox and every tracker slot is empty.               *)
LEMMA InitIInv == Init => IInv
BY DEF Init, IInv, TypeOK, TrackerMatchesMailbox, FrameAccounting,
       StampIntact, Mailboxes, Instants, Fates

(* What clean_expired_frames leaves: the mailboxes it did not abort, and  *)
(* fates that still say "pending" exactly for the frames in them.         *)
LEMMA CleanedFacts ==
  ASSUME IInv, NEW won \in SUBSET ExpiredPending
  PROVE  /\ Cleaned \in [Mailboxes -> Frames \cup {None}]
         /\ \A i \in Mailboxes : Cleaned[i] /= None => Cleaned[i] = mailbox[i]
         /\ AfterAborts(won) \in [Frames -> Fates]
         /\ \A g \in Frames : AfterAborts(won)[g] = "pending"
                                <=> \E i \in Mailboxes : Cleaned[i] = g
         /\ \A g \in Frames : AfterAborts(won)[g] /= "lost"
         /\ \A g \in Frames : fate[g] /= "pending" => AfterAborts(won)[g] = fate[g]
         /\ \A g \in Frames : AfterAborts(won)[g] = fate[g] \/ fate[g] = "pending"
<1> DEFINE fa == AfterAborts(won)
<1>1. Cleaned \in [Mailboxes -> Frames \cup {None}]
  BY DEF Cleaned, IInv, TypeOK
<1>2. \A i \in Mailboxes : Cleaned[i] /= None => Cleaned[i] = mailbox[i]
  BY DEF Cleaned
<1>3. ASSUME NEW g \in Frames
      PROVE  /\ fa[g] \in Fates
             /\ fa[g] /= "lost"
             /\ fate[g] /= "pending" => fa[g] = fate[g]
             /\ fa[g] = fate[g] \/ fate[g] = "pending"
             /\ fa[g] = "pending" <=> \E i \in Mailboxes : Cleaned[i] = g
  <2>1. CASE \E i \in won : mailbox[i] = g
    <3>1. fa[g] = "sent"
      BY <2>1 DEF AfterAborts
    <3>2. fate[g] = "pending"
      BY <2>1 DEF IInv, FrameAccounting, ExpiredPending
    <3>3. \A i \in Mailboxes : Cleaned[i] /= g
      BY <2>1 DEF IInv, FrameAccounting, ExpiredPending, Cleaned, TypeOK
    <3>4. QED
      BY <3>1, <3>2, <3>3 DEF Fates
  <2>2. CASE ~(\E i \in won : mailbox[i] = g)
             /\ \E i \in ExpiredPending \ won : mailbox[i] = g
    <3>1. fa[g] = "aborted"
      BY <2>2 DEF AfterAborts
    <3>2. fate[g] = "pending"
      BY <2>2 DEF IInv, FrameAccounting, ExpiredPending
    <3>3. \A i \in Mailboxes : Cleaned[i] /= g
      BY <2>2 DEF IInv, FrameAccounting, ExpiredPending, Cleaned, TypeOK
    <3>4. QED
      BY <3>1, <3>2, <3>3 DEF Fates
  <2>3. CASE ~(\E i \in won : mailbox[i] = g)
             /\ ~(\E i \in ExpiredPending \ won : mailbox[i] = g)
    <3>1. fa[g] = fate[g]
      BY <2>3 DEF AfterAborts
    <3>2. \A i \in ExpiredPending : mailbox[i] /= g
      BY <2>3
    <3>3. (\E i \in Mailboxes : Cleaned[i] = g) <=> \E i \in Mailboxes : mailbox[i] = g
      BY <3>2 DEF Cleaned, ExpiredPending, IInv, TypeOK
    <3>4. QED
      BY <3>1, <3>3 DEF IInv, TypeOK, FrameAccounting
  <2>4. QED
    BY <2>1, <2>2, <2>3
<1>4. fa \in [Frames -> Fates]
  <2>1. fa = [g \in Frames |-> fa[g]]
    BY DEF AfterAborts
  <2>2. QED
    BY <1>3, <2>1
<1>5. QED
  BY <1>1, <1>2, <1>3, <1>4

-----------------------------------------------------------------------------

LEMMA CreateIInv ==
  ASSUME IInv, NEW f \in Frames, Create(f)
  PROVE  IInv'
<1>1. PICK t \in 0 .. MaxTimeout :
        /\ due' = [due EXCEPT ![f] = now + t]
        /\ stamp' = [stamp EXCEPT ![f] = Inst(now + t)]
  BY DEF Create
<1>2. TypeOK'
  BY <1>1 DEF Create, IInv, TypeOK, Inst, Instants, Fates
<1>3. TrackerMatchesMailbox'
  BY <1>1 DEF Create, IInv, TypeOK, TrackerMatchesMailbox, FrameAccounting
<1>4. FrameAccounting'
  BY DEF Create, IInv, TypeOK, FrameAccounting
<1>5. StampIntact'
  BY <1>1 DEF Create, IInv, TypeOK, StampIntact
<1>6. QED
  BY <1>2, <1>3, <1>4, <1>5 DEF IInv

LEMMA CompleteIInv ==
  ASSUME IInv, NEW i \in Mailboxes, Complete(i)
  PROVE  IInv'
<1>1. TypeOK'
  BY DEF Complete, IInv, TypeOK, Fates
<1>2. TrackerMatchesMailbox'
  BY DEF Complete, IInv, TypeOK, TrackerMatchesMailbox
<1>3. FrameAccounting'
  BY DEF Complete, IInv, TypeOK, FrameAccounting
<1>4. StampIntact'
  BY DEF Complete, IInv, TypeOK, StampIntact, FrameAccounting
<1>5. QED
  BY <1>1, <1>2, <1>3, <1>4 DEF IInv

LEMMA TickIInv ==
  ASSUME IInv, Tick
  PROVE  IInv'
BY DEF Tick, IInv, TypeOK, TrackerMatchesMailbox, FrameAccounting, StampIntact

(* The frame handed to transmit() is held by the caller, so it is in no    *)
(* mailbox, before or after the aborts.                                    *)
LEMMA QueuedNotInMailbox ==
  ASSUME IInv, NEW f \in Frames, fate[f] = "queued"
  PROVE  /\ \A j \in Mailboxes : mailbox[j] /= f
         /\ \A j \in Mailboxes : Cleaned[j] /= f
BY DEF IInv, FrameAccounting, Cleaned

LEMMA DroppedIInv ==
  ASSUME IInv, NEW f \in Frames, fate[f] = "queued",
         NEW won \in SUBSET ExpiredPending,
         mailbox' = Cleaned,
         fate' = [AfterAborts(won) EXCEPT ![f] = "dropped"],
         UNCHANGED <<deadlines, stamp, now, due>>
  PROVE  IInv'
<1> DEFINE fa == AfterAborts(won)
<1>1. /\ Cleaned \in [Mailboxes -> Frames \cup {None}]
      /\ \A i \in Mailboxes : Cleaned[i] /= None => Cleaned[i] = mailbox[i]
      /\ fa \in [Frames -> Fates]
      /\ \A g \in Frames : fa[g] = "pending" <=> \E i \in Mailboxes : Cleaned[i] = g
      /\ \A g \in Frames : fa[g] /= "lost"
      /\ \A g \in Frames : fa[g] = fate[g] \/ fate[g] = "pending"
  BY CleanedFacts
<1>2. \A j \in Mailboxes : Cleaned[j] /= f
  BY QueuedNotInMailbox
<1>3. TypeOK'
  BY <1>1 DEF IInv, TypeOK, Fates
<1>4. TrackerMatchesMailbox'
  BY <1>1 DEF IInv, TypeOK, TrackerMatchesMailbox
<1>5. FrameAccounting'
  BY <1>1, <1>2 DEF IInv, TypeOK, FrameAccounting
<1>6. StampIntact'
  BY <1>1 DEF IInv, TypeOK, StampIntact
<1>7. QED
  BY <1>3, <1>4, <1>5, <1>6 DEF IInv

LEMMA WouldBlockIInv ==
  ASSUME IInv, NEW f \in Frames, fate[f] = "queued",
         NEW won \in SUBSET ExpiredPending,
         HwWouldBlock(Cleaned, AfterAborts(won)),
         UNCHANGED <<now, due>>
  PROVE  IInv'
<1> DEFINE fa == AfterAborts(won)
<1>1. /\ Cleaned \in [Mailboxes -> Frames \cup {None}]
      /\ \A i \in Mailboxes : Cleaned[i] /= None => Cleaned[i] = mailbox[i]
      /\ fa \in [Frames -> Fates]
      /\ \A g \in Frames : fa[g] = "pending" <=> \E i \in Mailboxes : Cleaned[i] = g
      /\ \A g \in Frames : fa[g] /= "lost"
      /\ \A g \in Frames : fa[g] = fate[g] \/ fate[g] = "pending"
  BY CleanedFacts
<1>2. /\ mailbox' = Cleaned /\ fate' = fa
      /\ UNCHANGED <<deadlines, stamp>>
  BY DEF HwWouldBlock
<1>3. TypeOK'
  BY <1>1, <1>2 DEF IInv, TypeOK
<1>4. TrackerMatchesMailbox'
  BY <1>1, <1>2 DEF IInv, TypeOK, TrackerMatchesMailbox
<1>5. FrameAccounting'
  BY <1>1, <1>2 DEF IInv, TypeOK, FrameAccounting
<1>6. StampIntact'
  BY <1>1, <1>2 DEF IInv, TypeOK, StampIntact
<1>7. QED
  BY <1>3, <1>4, <1>5, <1>6 DEF IInv

LEMMA IntoFreeIInv ==
  ASSUME IInv, NEW f \in Frames, fate[f] = "queued",
         NEW won \in SUBSET ExpiredPending,
         HwIntoFree(Cleaned, AfterAborts(won), f),
         UNCHANGED <<now, due>>
  PROVE  IInv'
<1> DEFINE fa == AfterAborts(won)
<1>1. /\ Cleaned \in [Mailboxes -> Frames \cup {None}]
      /\ \A i \in Mailboxes : Cleaned[i] /= None => Cleaned[i] = mailbox[i]
      /\ fa \in [Frames -> Fates]
      /\ \A g \in Frames : fa[g] = "pending" <=> \E i \in Mailboxes : Cleaned[i] = g
      /\ \A g \in Frames : fa[g] /= "lost"
      /\ \A g \in Frames : fa[g] = fate[g] \/ fate[g] = "pending"
  BY CleanedFacts
<1>2. \A j \in Mailboxes : Cleaned[j] /= f
  BY QueuedNotInMailbox
<1>3. PICK i \in Mailboxes :
        /\ Cleaned[i] = None
        /\ mailbox' = [Cleaned EXCEPT ![i] = f]
        /\ deadlines' = [deadlines EXCEPT ![i] = stamp[f]]
        /\ fate' = [fa EXCEPT ![f] = "pending"]
        /\ UNCHANGED stamp
  BY DEF HwIntoFree, Replace
<1>4. TypeOK'
  BY <1>1, <1>3 DEF IInv, TypeOK, Fates
<1>5. TrackerMatchesMailbox'
  BY <1>1, <1>3 DEF IInv, TypeOK, TrackerMatchesMailbox
<1>6. FrameAccounting'
  BY <1>1, <1>2, <1>3 DEF IInv, TypeOK, FrameAccounting
<1>7. StampIntact'
  BY <1>1, <1>3 DEF IInv, TypeOK, StampIntact
<1>8. QED
  BY <1>4, <1>5, <1>6, <1>7 DEF IInv

(* When all mailboxes are busy, the frame dequeued from mailbox i is       *)
(* handed back with the deadline tracked for i, which is its own.          *)
LEMMA DisplaceIInv ==
  ASSUME IInv, NEW f \in Frames, fate[f] = "queued",
         NEW won \in SUBSET ExpiredPending,
         HwDisplace(Cleaned, AfterAborts(won), f),
         UNCHANGED <<now, due>>
  PROVE  IInv'
<1> DEFINE fa == AfterAborts(won)
<1>1. /\ Cleaned \in [Mailboxes -> Frames \cup {None}]
      /\ \A i \in Mailboxes : Cleaned[i] /= None => Cleaned[i] = mailbox[i]
      /\ fa \in [Frames -> Fates]
      /\ \A g \in Frames : fa[g] = "pending" <=> \E i \in Mailboxes : Cleaned[i] = g
      /\ \A g \in Frames : fa[g] /= "lost"
      /\ \A g \in Frames : fa[g] = fate[g] \/ fate[g] = "pending"
  BY CleanedFacts
<1>2. \A j \in Mailboxes : Cleaned[j] /= f
  BY QueuedNotInMailbox
<1>3. PICK i \in Mailboxes :
        /\ \A j \in Mailboxes : Cleaned[j] /= None
        /\ mailbox' = [Cleaned EXCEPT ![i] = f]
        /\ deadlines' = [deadlines EXCEPT ![i] = stamp[f]]
        /\ fate' = [fa EXCEPT ![f] = "pending", ![Cleaned[i]] = DequeuedFate(deadlines[i])]
        /\ stamp' = IF deadlines[i] /= None
                     THEN [stamp EXCEPT ![Cleaned[i]] = HandedBackStamp(deadlines[i], stamp[f])]
                     ELSE stamp
  BY DEF HwDisplace, Replace
<1> DEFINE g == Cleaned[i]
<1>4. g \in Frames /\ g = mailbox[i] /\ g /= f
  BY <1>1, <1>2, <1>3
<1>5. deadlines[i] = stamp[g] /\ deadlines[i] /= None
  BY <1>4 DEF IInv, TypeOK, TrackerMatchesMailbox, Instants
<1>6. stamp' = stamp
  BY <1>3, <1>4, <1>5 DEF HandedBackStamp, IInv, TypeOK
<1>7. fate' = [fa EXCEPT ![f] = "pending", ![g] = "queued"]
  BY <1>3, <1>5 DEF DequeuedFate
<1>8. \A j \in Mailboxes : j /= i => Cleaned[j] /= g
  BY <1>1, <1>4 DEF IInv, FrameAccounting
<1>9. TypeOK'
  BY <1>1, <1>3, <1>4, <1>6, <1>7 DEF IInv, TypeOK, Fates
<1>10. TrackerMatchesMailbox'
  BY <1>1, <1>3, <1>6 DEF IInv, TypeOK, TrackerMatchesMailbox
<1>11. FrameAccounting'
  BY <1>1, <1>2, <1>3, <1>4, <1>7, <1>8 DEF IInv, TypeOK, FrameAccounting
<1>12. StampIntact'
  BY <1>1, <1>4, <1>6, <1>7 DEF IInv, TypeOK, StampIntact
<1>13. QED
  BY <1>9, <1>10, <1>11, <1>12 DEF IInv

LEMMA TransmitIInv ==
  ASSUME IInv, NEW f \in Frames, Transmit(f)
  PROVE  IInv'
<1>1. fate[f] = "queued" /\ UNCHANGED <<now, due>>
  BY DEF Transmit
<1>2. PICK won \in SUBSET ExpiredPending :
        IF DeadlineNotPassed(f)
        THEN \/ HwWouldBlock(Cleaned, AfterAborts(won))
             \/ HwIntoFree(Cleaned, AfterAborts(won), f)
             \/ HwDisplace(Cleaned, AfterAborts(won), f)
        ELSE /\ mailbox' = Cleaned
             /\ fate' = [AfterAborts(won) EXCEPT ![f] = "dropped"]
             /\ UNCHANGED <<deadlines, stamp>>
  BY DEF Transmit
<1>3. CASE DeadlineNotPassed(f)
  BY <1>1, <1>2, <1>3, WouldBlockIInv, IntoFreeIInv, DisplaceIInv
<1>4. CASE ~DeadlineNotPassed(f)
  BY <1>1, <1>2, <1>4, DroppedIInv
<1>5. QED
  BY <1>3, <1>4

(* How transmit() changes fates: a frame leaves "idle" only by Create, and *)
(* a frame becomes "aborted" only by clean_expired_frames.                 *)
LEMMA TransmitFate ==
  ASSUME IInv, NEW f \in Frames, Transmit(f)
  PROVE  /\ \A g \in Frames : fate'[g] /= "idle" => fate[g] /= "idle"
         /\ \E won \in SUBSET ExpiredPending :
              \A h \in Frames : fate'[h] = "aborted" => AfterAborts(won)[h] = "aborted"
<1>1. PICK won \in SUBSET ExpiredPending :
        IF DeadlineNotPassed(f)
        THEN \/ HwWouldBlock(Cleaned, AfterAborts(won))
             \/ HwIntoFree(Cleaned, AfterAborts(won), f)
             \/ HwDisplace(Cleaned, AfterAborts(won), f)
        ELSE /\ mailbox' = Cleaned
             /\ fate' = [AfterAborts(won) EXCEPT ![f] = "dropped"]
             /\ UNCHANGED <<deadlines, stamp>>
  BY DEF Transmit
<1> DEFINE fa == AfterAborts(won)
<1>2. fa \in [Frames -> Fates] /\ \A g \in Frames : fa[g] = fate[g] \/ fate[g] = "pending"
  BY CleanedFacts
<1>3. \A g \in Frames :
        \/ fate'[g] = fa[g]
        \/ fate'[g] \in {"pending", "dropped", "queued"} /\ (g = f \/ fate[g] = "pending")
  <2>1. CASE DeadlineNotPassed(f)
    <3>1. CASE HwWouldBlock(Cleaned, fa)
      BY <3>1 DEF HwWouldBlock
    <3>2. CASE HwIntoFree(Cleaned, fa, f)
      BY <3>2, <1>2 DEF HwIntoFree
    <3>3. CASE HwDisplace(Cleaned, fa, f)
      <4>1. PICK i \in Mailboxes :
              fate' = [fa EXCEPT ![f] = "pending", ![Cleaned[i]] = DequeuedFate(deadlines[i])]
        BY <3>3 DEF HwDisplace
      <4>2. Cleaned[i] = mailbox[i] /\ mailbox[i] /= None
        BY <3>3, CleanedFacts DEF HwDisplace
      <4>3. fate[mailbox[i]] = "pending" /\ mailbox[i] \in Frames
        BY <4>2 DEF IInv, FrameAccounting, TypeOK
      <4>4. deadlines[i] /= None
        <5>1. deadlines[i] = stamp[mailbox[i]]
          BY <4>2 DEF IInv, TrackerMatchesMailbox
        <5>2. stamp[mailbox[i]] \in Instants
          BY <4>3 DEF IInv, TypeOK
        <5>3. QED
          BY <5>1, <5>2 DEF Instants
      <4>5. DequeuedFate(deadlines[i]) = "queued"
        BY <4>4 DEF DequeuedFate
      <4>6. QED
        BY <4>1, <4>2, <4>3, <4>5, <1>2
    <3>4. QED
      BY <1>1, <2>1, <3>1, <3>2, <3>3
  <2>2. CASE ~DeadlineNotPassed(f)
    BY <1>1, <2>2, <1>2
  <2>3. QED
    BY <2>1, <2>2
<1>4. \A g \in Frames : fate'[g] /= "idle" => fate[g] /= "idle"
  <2>1. fate[f] = "queued"
    BY DEF Transmit
  <2>2. QED
    BY <1>2, <1>3, <2>1
<1>5. \A h \in Frames : fate'[h] = "aborted" => fa[h] = "aborted"
  BY <1>3
<1>6. QED
  BY <1>4, <1>5

LEMMA NextIInv == IInv /\ [Next]_vars => IInv'
<1> SUFFICES ASSUME IInv, [Next]_vars PROVE IInv'
  OBVIOUS
<1>1. CASE \E f \in Frames : Create(f)
  BY <1>1, CreateIInv
<1>2. CASE \E f \in Frames : Transmit(f)
  BY <1>2, TransmitIInv
<1>3. CASE \E i \in Mailboxes : Complete(i)
  BY <1>3, CompleteIInv
<1>4. CASE Tick
  BY <1>4, TickIInv
<1>5. CASE UNCHANGED vars
  BY <1>5 DEF vars, IInv, TypeOK, TrackerMatchesMailbox, FrameAccounting, StampIntact
<1>6. QED
  BY <1>1, <1>2, <1>3, <1>4, <1>5 DEF Next

LEMMA IInvInvariant == Spec => []IInv
BY InitIInv, NextIInv, PTL DEF Spec

(* The driver's state is always well typed.                               *)
THEOREM TypeCorrect == Spec => []TypeOK
BY IInvInvariant, PTL DEF IInv

(* The deadline tracker holds, for every mailbox with a pending frame, that *)
(* frame's deadline: replace() in transmit() keeps the tracker in step      *)
(* with the hardware through aborts, completions and displacements.        *)
THEOREM TrackerCorrect == Spec => []TrackerMatchesMailbox
BY IInvInvariant, PTL DEF IInv

(* transmit() never loses a frame: a frame the controller dequeues is       *)
(* always handed back, and "pending" means "in exactly one mailbox".       *)
THEOREM NoFrameLost == Spec => []FrameAccounting
BY IInvInvariant, PTL DEF IInv

(* A frame handed back after displacement carries its own deadline.       *)
THEOREM HandedBackStampCorrect == Spec => []StampIntact
BY IInvInvariant, PTL DEF IInv

-----------------------------------------------------------------------------

(* Every created frame's deadline lies at most MaxTimeout after now.       *)
DueBound == \A g \in Frames : fate[g] /= "idle" => due[g] <= now + MaxTimeout

LEMMA DueBoundInvariant == Spec => []DueBound
<1>1. Init => DueBound
  BY DEF Init, DueBound
<1>2. IInv /\ DueBound /\ [Next]_vars => DueBound'
  <2> SUFFICES ASSUME IInv, DueBound, [Next]_vars PROVE DueBound'
    OBVIOUS
  <2>1. CASE \E f \in Frames : Create(f)
    BY <2>1 DEF Create, DueBound, IInv, TypeOK
  <2>2. CASE \E f \in Frames : Transmit(f)
    <3>1. PICK f \in Frames : Transmit(f)
      BY <2>2
    <3>2. UNCHANGED <<now, due>>
      BY <3>1 DEF Transmit
    <3>3. \A g \in Frames : fate'[g] /= "idle" => fate[g] /= "idle"
      BY <3>1, TransmitFate
    <3>4. QED
      BY <3>2, <3>3 DEF DueBound
  <2>3. CASE \E i \in Mailboxes : Complete(i)
    BY <2>3 DEF Complete, DueBound, IInv, TypeOK, FrameAccounting
  <2>4. CASE Tick
    BY <2>4 DEF Tick, DueBound, IInv, TypeOK
  <2>5. CASE UNCHANGED vars
    BY <2>5 DEF vars, DueBound
  <2>6. QED
    BY <2>1, <2>2, <2>3, <2>4, <2>5 DEF Next
<1>3. QED
  BY <1>1, <1>2, IInvInvariant, PTL DEF Spec

(* The step predicate of AbortOnlyExpired.                                 *)
AbortStep == \A g \in Frames : fate[g] = "pending" /\ fate'[g] = "aborted" => due[g] < now

(* clean_expired_frames aborts a frame only after its real deadline, as    *)
(* long as the application's timeouts stay below half the clock range     *)
(* (for Microseconds32, about 35 minutes): the half-range comparison then  *)
(* never mistakes a deadline ahead for one behind.                         *)
THEOREM AbortOnlyExpiredHolds ==
  ASSUME MaxTimeout < ClockModulus \div 2
  PROVE  Spec => AbortOnlyExpired
<1>1. IInv /\ DueBound /\ [Next]_vars => [AbortStep]_vars
  <2> SUFFICES ASSUME IInv, DueBound, [Next]_vars PROVE [AbortStep]_vars
    OBVIOUS
  <2>1. CASE \E f \in Frames : Transmit(f)
    <3>1. PICK f \in Frames : Transmit(f)
      BY <2>1
    <3>2. PICK won \in SUBSET ExpiredPending :
            \A h \in Frames : fate'[h] = "aborted" => AfterAborts(won)[h] = "aborted"
      BY <3>1, TransmitFate
    <3>3. UNCHANGED <<now, due>>
      BY <3>1 DEF Transmit
    <3>4. ASSUME NEW h \in Frames, fate[h] = "pending", fate'[h] = "aborted"
          PROVE  due[h] < now
      <4>1. PICK i \in ExpiredPending : mailbox[i] = h
        BY <3>2, <3>4 DEF AfterAborts
      <4>2. OverflowSafeCompare(Inst(now), Inst(due[h])) = "Greater"
        <5>1. OverflowSafeCompare(Inst(now), deadlines[i]) = "Greater"
          BY <4>1 DEF ExpiredPending, Expired
        <5>2. deadlines[i] = stamp[h]
          BY <4>1 DEF ExpiredPending, IInv, TrackerMatchesMailbox
        <5>3. stamp[h] = Inst(due[h])
          BY <3>4 DEF IInv, StampIntact
        <5>4. QED
          BY <5>1, <5>2, <5>3
      <4>3. due[h] <= now + MaxTimeout /\ due[h] \in Nat /\ now \in Nat
        BY <3>4 DEF DueBound, IInv, TypeOK
      <4>4. SUFFICES ASSUME due[h] >= now PROVE FALSE
        BY <4>3
      <4>5. 0 <= due[h] - now /\ due[h] - now < ClockModulus \div 2
        BY <4>3, <4>4
      <4>6. QED
        BY <4>2, <4>3, <4>5, NotGreaterBeforeDue
    <3>5. QED
      BY <3>4, <3>3 DEF AbortStep
  <2>2. CASE ~\E f \in Frames : Transmit(f)
    <3>1. \A h \in Frames : fate'[h] = "aborted" => fate[h] = "aborted"
      <4>1. CASE \E f \in Frames : Create(f)
        BY <4>1 DEF Create, IInv, TypeOK
      <4>2. CASE \E i \in Mailboxes : Complete(i)
        BY <4>2 DEF Complete, IInv, TypeOK
      <4>3. CASE Tick \/ UNCHANGED vars
        BY <4>3 DEF Tick, vars
      <4>4. QED
        BY <2>2, <4>1, <4>2, <4>3 DEF Next
    <3>2. QED
      BY <3>1 DEF AbortStep
  <2>3. QED
    BY <2>1, <2>2
<1>2. QED
  BY <1>1, IInvInvariant, DueBoundInvariant, PTL DEF AbortOnlyExpired, AbortStep, Spec

=============================================================================
