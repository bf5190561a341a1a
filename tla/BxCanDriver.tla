----------------------------- MODULE BxCanDriver -----------------------------
(***************************************************************************)
(* The transmit side of BxCanDriver (canadensis_bxcan/src/lib.rs): three   *)
(* hardware mailboxes, the DeadlineTracker that remembers the deadline of  *)
(* the frame last written to each mailbox, and transmit(), which first     *)
(* aborts the mailboxes whose deadline has passed, then drops a frame      *)
(* whose own deadline has passed, then hands it to the controller.  The    *)
(* controller may answer WouldBlock, may place the frame in a free         *)
(* mailbox, or, when all three are busy, may dequeue the lowest-priority   *)
(* pending frame and put the new one in its place; the driver then returns *)
(* the dequeued frame to its caller stamped with the deadline it tracked.  *)
(* The controller sends pending frames on its own (Complete).              *)
(*                                                                         *)
(* Frame payloads and CAN IDs are abstracted to frame identities; a frame  *)
(* keeps its timestamp (= its deadline) as the w-bit Instant the code      *)
(* sees, and a ghost real-time deadline "due" that the properties use.     *)
(***************************************************************************)
EXTENDS Integers

CONSTANTS
    Frames,        \* identities of the frames the caller hands to transmit()
    ClockModulus,  \* 2^w: an Instant is a w-bit wrapping tick count
    MaxTime,       \* last clock tick the model explores
    MaxTimeout,    \* longest time from a frame's creation to its deadline
    None           \* Option::None

ASSUME ConstantsAssumption ==
    /\ ClockModulus \in Nat \ {0, 1}
    /\ ClockModulus % 2 = 0
    /\ MaxTime \in Nat
    /\ MaxTimeout \in Nat
    /\ None \notin Frames
    /\ None \notin 0 .. ClockModulus - 1

VARIABLES
    mailbox,    \* mailbox[i]: frame pending in hardware mailbox i, or None
    deadlines,  \* DeadlineTracker.deadlines: [Option<I>; 3]
    now,        \* real time; the driver is passed the Instant now % ClockModulus
    stamp,      \* stamp[f]: the timestamp (deadline) the caller's frame f carries
    due,        \* ghost: the real time of f's deadline
    fate        \* ghost: where frame f is

vars == <<mailbox, deadlines, now, stamp, due, fate>>

Instants == 0 .. ClockModulus - 1
Mailboxes == {0, 1, 2}   \* Mailbox::Mailbox0, Mailbox1, Mailbox2

(* "idle": not yet created; "queued": held by the caller (fresh, or handed *)
(* back after being dequeued); "pending": in a mailbox; "lost": dequeued   *)
(* by the hardware and not handed back.                                    *)
Fates == {"idle", "queued", "pending", "sent", "aborted", "dropped", "lost"}

(* A plausible fault that a property must detect: an Instant that does   *)
(* not wrap at 2^w.                                                        *)
InstUnwrapped(t) == t

(* The w-bit Instant the driver sees at real time t.                       *)
Inst(t) == t % ClockModulus

(* Instant::overflow_safe_compare: the sign of a - b as a w-bit signed      *)
(* integer, so that "earlier" is the half circle behind the reference.    *)
OverflowSafeCompare(a, b) ==
    LET diff == (a - b) % ClockModulus IN
    IF diff = 0 THEN "Equal"
    ELSE IF diff < ClockModulus \div 2 THEN "Greater"
    ELSE "Less"

(* Plausible faults of the definitions below, each of which one property  *)
(* must detect: a replace() on a copy of the slot, a dequeued frame that   *)
(* is not handed back, the dequeued frame stamped with the new frame's     *)
(* deadline, and an abort at the deadline instead of after it.             *)
ReplaceOnCopy(dls, i, d) == dls
DequeuedDiscarded(old) == "lost"
StampWithNewDeadline(old, new) == new
ExpiredAtDeadline(i) ==
    /\ deadlines[i] /= None
    /\ OverflowSafeCompare(Inst(now), deadlines[i]) /= "Less"

(* DeadlineTracker::replace: store a deadline; the caller reads the old one *)
(* from the slot before the call.                                          *)
Replace(dls, i, d) == [dls EXCEPT ![i] = d]

(* The condition under which clean_expired_frames aborts mailbox i.       *)
Expired(i) ==
    /\ deadlines[i] /= None
    /\ OverflowSafeCompare(Inst(now), deadlines[i]) = "Greater"

(* transmit() goes on with a frame only if its deadline is now or later.  *)
DeadlineNotPassed(f) ==
    OverflowSafeCompare(stamp[f], Inst(now)) \in {"Greater", "Equal"}

(* What becomes of a frame the controller dequeued from a mailbox whose   *)
(* tracked deadline was old: handed back if a deadline was tracked.       *)
DequeuedFate(old) == IF old /= None THEN "queued" ELSE "lost"

(* The timestamp bxcan_frame_to_uavcan gives the dequeued frame: the       *)
(* deadline replaced in the tracker, not the new frame's deadline.         *)
HandedBackStamp(old, new) == old

-----------------------------------------------------------------------------

Init ==
    /\ mailbox = [i \in Mailboxes |-> None]
    /\ deadlines = [i \in Mailboxes |-> None]   \* DeadlineTracker::new()
    /\ now = 0
    /\ stamp = [f \in Frames |-> 0]
    /\ due = [f \in Frames |-> 0]
    /\ fate = [f \in Frames |-> "idle"]

(* The application builds a frame whose deadline is some timeout ahead.   *)
Create(f) ==
    /\ fate[f] = "idle"
    /\ \E t \in 0 .. MaxTimeout :
         /\ due' = [due EXCEPT ![f] = now + t]
         /\ stamp' = [stamp EXCEPT ![f] = Inst(now + t)]
    /\ fate' = [fate EXCEPT ![f] = "queued"]
    /\ UNCHANGED <<mailbox, deadlines, now>>

(* The hardware sends the frame in mailbox i.  The tracker keeps its now   *)
(* stale entry.                                                            *)
Complete(i) ==
    /\ mailbox[i] /= None
    /\ fate' = [fate EXCEPT ![mailbox[i]] = "sent"]
    /\ mailbox' = [mailbox EXCEPT ![i] = None]
    /\ UNCHANGED <<deadlines, now, stamp, due>>

Tick ==
    /\ now < MaxTime
    /\ now' = now + 1
    /\ UNCHANGED <<mailbox, deadlines, stamp, due, fate>>

(* The controller's answer to can.transmit(frame), given the mailboxes     *)
(* after cleaning (mb) and the fates after cleaning (fa).                  *)
HwWouldBlock(mb, fa) ==
    /\ \E i \in Mailboxes : mb[i] /= None
    /\ mailbox' = mb
    /\ fate' = fa
    /\ UNCHANGED <<deadlines, stamp>>

HwIntoFree(mb, fa, f) ==
    \E i \in Mailboxes :
      /\ mb[i] = None
      /\ mailbox' = [mb EXCEPT ![i] = f]
      /\ deadlines' = Replace(deadlines, i, stamp[f])
      /\ fate' = [fa EXCEPT ![f] = "pending"]
      /\ UNCHANGED stamp

HwDisplace(mb, fa, f) ==
    /\ \A i \in Mailboxes : mb[i] /= None
    /\ \E i \in Mailboxes :
         LET g   == mb[i]
             old == deadlines[i]
         IN  /\ mailbox' = [mb EXCEPT ![i] = f]
             /\ deadlines' = Replace(deadlines, i, stamp[f])
             /\ fate' = [fa EXCEPT ![f] = "pending", ![g] = DequeuedFate(old)]
             /\ stamp' = IF old /= None
                          THEN [stamp EXCEPT ![g] = HandedBackStamp(old, stamp[f])]
                          ELSE stamp

(* clean_expired_frames: the mailboxes it aborts that hold a frame (an    *)
(* abort of an empty mailbox does nothing), the mailboxes after the        *)
(* aborts, and the fates after them.  An abort of a mailbox whose frame is *)
(* already on the bus fails and the frame is sent: "won" are the mailboxes *)
(* where that happens.                                                     *)
ExpiredPending == {i \in Mailboxes : Expired(i) /\ mailbox[i] /= None}

Cleaned == [i \in Mailboxes |-> IF i \in ExpiredPending THEN None ELSE mailbox[i]]

AfterAborts(won) ==
    [g \in Frames |->
       IF \E i \in won : mailbox[i] = g THEN "sent"
       ELSE IF \E i \in ExpiredPending \ won : mailbox[i] = g THEN "aborted"
       ELSE fate[g]]

(* TransmitDriver::transmit(frame, now).                                   *)
Transmit(f) ==
    /\ fate[f] = "queued"
    /\ \E won \in SUBSET ExpiredPending :
         IF DeadlineNotPassed(f)
         THEN \/ HwWouldBlock(Cleaned, AfterAborts(won))
              \/ HwIntoFree(Cleaned, AfterAborts(won), f)
              \/ HwDisplace(Cleaned, AfterAborts(won), f)
         ELSE /\ mailbox' = Cleaned
              /\ fate' = [AfterAborts(won) EXCEPT ![f] = "dropped"]
              /\ UNCHANGED <<deadlines, stamp>>
    /\ UNCHANGED <<now, due>>

Next ==
    \/ \E f \in Frames : Create(f) \/ Transmit(f)
    \/ \E i \in Mailboxes : Complete(i)
    \/ Tick

Spec == Init /\ [][Next]_vars

-----------------------------------------------------------------------------

TypeOK ==
    /\ mailbox \in [Mailboxes -> Frames \cup {None}]
    /\ deadlines \in [Mailboxes -> Instants \cup {None}]
    /\ now \in Nat
    /\ stamp \in [Frames -> Instants]
    /\ due \in [Frames -> Nat]
    /\ fate \in [Frames -> Fates]

(* The tracker knows the deadline of every frame waiting in a mailbox:   *)
(* the deadline transmit() stores for a mailbox is the one it later uses  *)
(* both to abort that frame and to stamp it when it is dequeued.          *)
TrackerMatchesMailbox ==
    \A i \in Mailboxes : mailbox[i] /= None => deadlines[i] = stamp[mailbox[i]]

(* No frame is lost: a frame is pending exactly when it sits in a mailbox, *)
(* in one mailbox only, and a frame the controller dequeues is always      *)
(* handed back to the caller.                                              *)
FrameAccounting ==
    /\ \A g \in Frames : fate[g] /= "lost"
    /\ \A g \in Frames : fate[g] = "pending" <=> \E i \in Mailboxes : mailbox[i] = g
    /\ \A i, j \in Mailboxes : i /= j /\ mailbox[i] /= None => mailbox[i] /= mailbox[j]

(* A frame handed back after being dequeued still carries its own         *)
(* deadline, not the deadline of the frame that displaced it.             *)
StampIntact ==
    \A g \in Frames : fate[g] /= "idle" => stamp[g] = Inst(due[g])

(* clean_expired_frames aborts a frame only once its deadline has really  *)
(* passed.                                                                 *)
AbortOnlyExpired ==
    [][\A g \in Frames : fate[g] = "pending" /\ fate'[g] = "aborted" => due[g] < now]_vars

=============================================================================
