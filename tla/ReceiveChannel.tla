---------------------------- MODULE ReceiveChannel ----------------------------
(***************************************************************************)
(* What ReceiveDriver::receive promises the CAN receiver, abstractly: the  *)
(* UAVCAN frames that reach the driver wait in an inbox, in order (a frame  *)
(* filtered out never enters it).  When frames arrive faster than they are *)
(* taken, the newest waiting frame may be lost, and the loss is flagged.   *)
(* A call reports a flagged loss first, with an error; otherwise it        *)
(* returns the oldest waiting frame, or WouldBlock when there is none.      *)
(* Frames that are not UAVCAN frames do not appear at all.                 *)
(***************************************************************************)
EXTENDS Integers, Sequences

CONSTANTS
    Frames,        \* every frame the bus can carry
    UavcanFrames   \* those that are UAVCAN/CAN frames

VARIABLES
    inbox,  \* the UAVCAN frames received and not yet returned
    out,    \* the frames receive() has returned, in order
    busy,   \* a call of receive() is in progress
    ret,    \* what the last call returned
    lost    \* a frame was lost since the last error was reported

vars == <<inbox, out, busy, ret, lost>>

Init ==
    /\ inbox = <<>>
    /\ out = <<>>
    /\ busy = FALSE
    /\ ret = "none"
    /\ lost = FALSE

(* The inbox with fr added, if it is a UAVCAN frame.                        *)
Added(s, fr) == IF fr \in UavcanFrames THEN Append(s, fr) ELSE s

(* A UAVCAN frame reaches the driver.                                       *)
Offer(fr) ==
    /\ fr \in UavcanFrames
    /\ inbox' = Append(inbox, fr)
    /\ UNCHANGED <<out, busy, ret, lost>>

(* A frame arrives with no room for it: it takes the place of the newest  *)
(* frame received, which may be a waiting UAVCAN frame, and the loss is    *)
(* flagged.                                                                 *)
Overrun(fr) ==
    /\ lost' = TRUE
    /\ \E kept \in {inbox, SubSeq(inbox, 1, Len(inbox) - 1)} : inbox' = Added(kept, fr)
    /\ UNCHANGED <<out, busy, ret>>

Call ==
    /\ ~busy
    /\ busy' = TRUE
    /\ UNCHANGED <<inbox, out, ret, lost>>

(* The call returns the oldest waiting frame.                              *)
Deliver ==
    /\ busy
    /\ ~lost
    /\ inbox /= <<>>
    /\ out' = Append(out, Head(inbox))
    /\ inbox' = Tail(inbox)
    /\ busy' = FALSE
    /\ ret' = "frame"
    /\ UNCHANGED lost

(* The call returns WouldBlock: nothing is waiting and nothing was lost.   *)
Empty ==
    /\ busy
    /\ ~lost
    /\ inbox = <<>>
    /\ busy' = FALSE
    /\ ret' = "wouldblock"
    /\ UNCHANGED <<inbox, out, lost>>

(* The call reports the loss with an error, and clears the flag.           *)
Fail ==
    /\ busy
    /\ lost
    /\ busy' = FALSE
    /\ ret' = "error"
    /\ lost' = FALSE
    /\ UNCHANGED <<inbox, out>>

Next ==
    \/ \E fr \in Frames : Offer(fr) \/ Overrun(fr)
    \/ Call
    \/ Deliver
    \/ Empty
    \/ Fail

Spec == Init /\ [][Next]_vars

=============================================================================
