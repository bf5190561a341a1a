----------------------------- MODULE BxCanReceive -----------------------------
(***************************************************************************)
(* The receive side of BxCanDriver (canadensis_bxcan/src/lib.rs): the      *)
(* hardware filters that apply_filters() installs, the bxCAN receive FIFO  *)
(* that frames from the bus enter when a filter admits them, and           *)
(* receive(), which loops over can.receive(), skipping the frames that     *)
(* bxcan_frame_to_uavcan rejects, until it gets a UAVCAN frame,            *)
(* WouldBlock or an overrun error.  The loop is modelled one               *)
(* can.receive() at a time, since the controller keeps receiving while it  *)
(* runs.                                                                   *)
(*                                                                         *)
(* A frame is a kind and a port.  "data" frames have an extended ID that   *)
(* CanId accepts and data; "remote" frames have no data; "badid" frames    *)
(* have an extended ID that CanId rejects; "std" frames have a standard    *)
(* ID.  A hardware filter is abstracted to the set of ports it admits;     *)
(* Mask32::frames_with_ext_id admits extended frames only, accept_all      *)
(* every frame.  optimize_filters (not among the sources, design 4.4)      *)
(* either returns filters that admit at least the subscribed ports, or     *)
(* fails with OutOfMemoryError.                                            *)
(***************************************************************************)
EXTENDS Integers, Sequences

CONSTANTS
    Ports,        \* subject IDs the frames and subscriptions use
    FifoDepth,    \* frames a bxCAN receive FIFO holds (3)
    MaxArrivals   \* frames the bus delivers in a run

ASSUME ReceiveAssumption ==
    /\ Ports /= {}
    /\ FifoDepth \in Nat \ {0}
    /\ MaxArrivals \in Nat

Kinds == {"data", "remote", "badid", "std"}
BusFrames == [kind : Kinds, port : Ports]

VARIABLES
    acceptAll,    \* filter bank 0 is Mask32::accept_all()
    filterPorts,  \* the ports the Mask32 extended-ID banks admit
    subs,         \* the subscriptions last passed to apply_filters
    fifo,         \* the receive FIFO
    overrun,      \* the FIFO overrun flag can.receive() reports
    calling,      \* receive() is in its loop
    result,       \* what the last receive() returned
    stored,       \* ghost: the frames the FIFO took and kept, in order
    taken,        \* ghost: how many of them can.receive() has returned
    delivered,    \* ghost: the frames receive() returned, in order
    arrivals,     \* frames the bus has delivered so far
    pending       \* ghost: the UAVCAN frames in the FIFO, in order

vars == <<acceptAll, filterPorts, subs, fifo, overrun, calling, result,
          stored, taken, delivered, arrivals, pending>>

(* Plausible faults that a property must detect: bxcan_frame_to_uavcan not *)
(* rejecting standard IDs, and apply_filters without its accept-all        *)
(* fallback.                                                               *)
ConvertsStd(fr) == fr.kind \in {"data", "std"}
NoFallback == UNCHANGED <<filterPorts, acceptAll>>

(* bxcan_frame_to_uavcan succeeds: an extended ID, a valid CanId, data.   *)
Converts(fr) == fr.kind = "data"

(* When optimize_filters fails, the fallback of apply_filters:             *)
(* filters.clear().enable_bank(0, Mask32::accept_all()).                   *)
InstallFallback ==
    /\ acceptAll' = TRUE
    /\ filterPorts' = {}

(* A plausible fault that a property must detect: the overrun error       *)
(* passed on as WouldBlock.                                                *)
LoopExitNoError(r) ==
    /\ calling' = FALSE
    /\ result' = IF r = "error" THEN "wouldblock" ELSE r

(* A plausible fault that a property must detect: a loop that breaks only *)
(* with a frame, retrying on WouldBlock and on errors.                     *)
LoopExitOnlyOnFrame(r) ==
    IF r = "frame" THEN calling' = FALSE /\ result' = r
    ELSE UNCHANGED <<calling, result>>

(* break: receive() returns r.                                              *)
LoopExit(r) ==
    /\ calling' = FALSE
    /\ result' = r

(* The frames UAVCAN/CAN carries: extended ID, valid CAN ID, data.         *)
UavcanFrame(fr) == fr.kind = "data"

(* The UAVCAN frames of a full FIFO after its newest frame, a UAVCAN      *)
(* frame if newestIsUavcan, was overwritten by fr.                         *)
Overwrite(p, newestIsUavcan, fr) ==
    LET kept == IF newestIsUavcan THEN SubSeq(p, 1, Len(p) - 1) ELSE p
    IN  IF UavcanFrame(fr) THEN Append(kept, fr) ELSE kept

(* A frame from the bus passes the hardware filters.                       *)
Admitted(fr) == acceptAll \/ (fr.kind /= "std" /\ fr.port \in filterPorts)

-----------------------------------------------------------------------------

(* After initialisation filter bank 0 accepts every frame.                 *)
Init ==
    /\ acceptAll = TRUE
    /\ filterPorts = {}
    /\ subs = {}
    /\ fifo = <<>>
    /\ overrun = FALSE
    /\ calling = FALSE
    /\ result = "none"
    /\ stored = <<>>
    /\ taken = 0
    /\ delivered = <<>>
    /\ arrivals = 0
    /\ pending = <<>>

(* A frame reaches the controller.  The driver never sets RFLM, so the    *)
(* FIFO stays in the reset mode RFLM = 0: a full FIFO keeps the new frame  *)
(* in place of the newest one queued, which is lost, and flags an overrun. *)
Arrive(fr) ==
    /\ arrivals < MaxArrivals
    /\ arrivals' = arrivals + 1
    /\ IF ~Admitted(fr) THEN UNCHANGED <<fifo, overrun, stored, pending>>
       ELSE IF Len(fifo) < FifoDepth
       THEN /\ fifo' = Append(fifo, fr)
            /\ stored' = Append(stored, fr)
            /\ pending' = IF UavcanFrame(fr) THEN Append(pending, fr) ELSE pending
            /\ UNCHANGED overrun
       ELSE /\ fifo' = [fifo EXCEPT ![Len(fifo)] = fr]
            /\ stored' = [stored EXCEPT ![Len(stored)] = fr]
            /\ pending' = Overwrite(pending, UavcanFrame(fifo[Len(fifo)]), fr)
            /\ overrun' = TRUE
    /\ UNCHANGED <<acceptAll, filterPorts, subs, calling, result, taken, delivered>>

(* The application calls ReceiveDriver::receive.                           *)
StartReceive ==
    /\ ~calling
    /\ calling' = TRUE
    /\ UNCHANGED <<acceptAll, filterPorts, subs, fifo, overrun, result,
                   stored, taken, delivered, arrivals, pending>>

(* One turn of receive()'s loop: can.receive() reports an overrun first,  *)
(* then WouldBlock on an empty FIFO, else pops a frame, which ends the    *)
(* loop if it converts and is skipped if not.                              *)
ReceiveStep ==
    /\ calling
    /\ IF overrun
       THEN /\ overrun' = FALSE
            /\ LoopExit("error")
            /\ UNCHANGED <<fifo, taken, delivered, pending>>
       ELSE IF fifo = <<>>
       THEN /\ LoopExit("wouldblock")
            /\ UNCHANGED <<fifo, overrun, taken, delivered, pending>>
       ELSE /\ fifo' = Tail(fifo)
            /\ taken' = taken + 1
            /\ pending' = IF UavcanFrame(Head(fifo)) THEN Tail(pending) ELSE pending
            /\ IF Converts(Head(fifo))
               THEN /\ delivered' = Append(delivered, Head(fifo))
                    /\ LoopExit("frame")
               ELSE UNCHANGED <<delivered, calling, result>>
            /\ UNCHANGED overrun
    /\ UNCHANGED <<acceptAll, filterPorts, subs, stored, arrivals>>

(* apply_filters(local_node, S).  optimize_filters either calls the       *)
(* closure with filters F admitting S (clear, then one Mask32 bank per     *)
(* filter) and returns Ok, or returns Err without calling it.               *)
ApplyFilters(S) ==
    /\ subs' = S
    /\ \/ \E F \in SUBSET Ports :
            /\ S \subseteq F
            /\ filterPorts' = F
            /\ acceptAll' = FALSE
       \/ InstallFallback
    /\ UNCHANGED <<fifo, overrun, calling, result, stored, taken, delivered, arrivals, pending>>

(* apply_accept_all().                                                      *)
ApplyAcceptAll ==
    /\ acceptAll' = TRUE
    /\ filterPorts' = {}
    /\ UNCHANGED <<subs, fifo, overrun, calling, result, stored, taken, delivered, arrivals,
                   pending>>

Next ==
    \/ \E fr \in BusFrames : Arrive(fr)
    \/ StartReceive
    \/ ReceiveStep
    \/ \E S \in SUBSET Ports : ApplyFilters(S)
    \/ ApplyAcceptAll

Spec == Init /\ [][Next]_vars

(* receive() runs its loop on the caller's thread without waiting: once   *)
(* called, it keeps calling can.receive() until it breaks.  The bus and    *)
(* the application are not assumed to do anything.                         *)
LiveSpec == Spec /\ WF_vars(ReceiveStep)

-----------------------------------------------------------------------------

TypeOK ==
    /\ acceptAll \in BOOLEAN
    /\ filterPorts \in SUBSET Ports
    /\ subs \in SUBSET Ports
    /\ fifo \in Seq(BusFrames)
    /\ overrun \in BOOLEAN
    /\ calling \in BOOLEAN
    /\ result \in {"none", "frame", "wouldblock", "error"}
    /\ stored \in Seq(BusFrames)
    /\ taken \in Nat
    /\ delivered \in Seq(BusFrames)
    /\ arrivals \in 0 .. MaxArrivals

(* The FIFO holds, in arrival order, exactly the frames it took and kept  *)
(* that can.receive() has not returned yet: none reordered or repeated,   *)
(* and none lost but the ones an overrun overwrote.                         *)
FifoHoldsUntaken == stored = SubSeq(stored, 1, taken) \o fifo

(* p is the UAVCAN subsequence of q: f maps each frame of p to its place  *)
(* in q, increasingly, and reaches every place of q that holds a UAVCAN   *)
(* frame.                                                                  *)
EmbeddedBy(f, p, q) ==
    /\ \A j1, j2 \in 1 .. Len(p) : j1 < j2 => f[j1] < f[j2]
    /\ \A j \in 1 .. Len(p) : p[j] = q[f[j]] /\ UavcanFrame(p[j])
    /\ \A i \in 1 .. Len(q) : UavcanFrame(q[i]) => \E j \in 1 .. Len(p) : f[j] = i

UavcanSubseq(p, q) == \E f \in [1 .. Len(p) -> 1 .. Len(q)] : EmbeddedBy(f, p, q)

(* receive() hands the application exactly the UAVCAN frames among those  *)
(* the FIFO took and kept, in the order they arrived, however frames kept *)
(* arriving while it skipped the others or overwrote the newest one; the  *)
(* frames not yet taken are still queued.                                   *)
DeliveredInOrder ==
    /\ FifoHoldsUntaken
    /\ UavcanSubseq(delivered, SubSeq(stored, 1, taken))
    /\ UavcanSubseq(pending, fifo)

(* Once apply_filters has returned, the hardware admits every extended    *)
(* frame of a subscribed port, whether optimize_filters succeeded or not.  *)
SubscribedAdmitted ==
    \A p \in subs : \A k \in Kinds \ {"std"} : Admitted([kind |-> k, port |-> p])

(* The refinement mapping onto the abstract receive channel: its inbox is  *)
(* the UAVCAN frames in the FIFO (pending, which DeliveredInOrder shows to *)
(* be those), its output the frames receive() returned, its return value  *)
(* result, and its loss flag the FIFO overrun flag.                        *)
Channel == INSTANCE ReceiveChannel WITH
    Frames <- BusFrames,
    UavcanFrames <- {fr \in BusFrames : UavcanFrame(fr)},
    inbox <- pending,
    out <- delivered,
    busy <- calling,
    ret <- result,
    lost <- overrun

(* The driver implements the channel: however the loop skips frames, the  *)
(* filters change and the FIFO overruns, each step of receive() and of the *)
(* bus is a step of the abstract channel or leaves it unchanged; so a call *)
(* returns WouldBlock only when no UAVCAN frame waits and none was lost,   *)
(* and reports the loss of a frame once, before anything else.             *)
ImplementsChannel == Channel!Spec

(* Every call of receive() returns: the loop that skips non-UAVCAN frames *)
(* ends, with a frame, WouldBlock or the overrun error, however frames     *)
(* keep arriving while it runs (on a bus with finitely many frames).       *)
ReceiveReturns == calling ~> ~calling

=============================================================================
