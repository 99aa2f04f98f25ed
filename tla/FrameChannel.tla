---------------------------- MODULE FrameChannel ----------------------------
(***************************************************************************)
(* What the pacer promises the decoder and the viewer: a lossy channel     *)
(* that delivers frames in order.  Frames go in one by one; a frame in the *)
(* channel is delivered when it is the oldest one there, or it is lost;    *)
(* nothing is delivered twice, out of order or after it was lost.          *)
(***************************************************************************)
EXTENDS Integers

CONSTANT NumFrames      \* bound: frames sent in a behaviour

VARIABLES
    sent,       \* frames that went in
    inside,     \* the frames in the channel
    shown       \* the last frame delivered

channelVars == <<sent, inside, shown>>

Init == sent = 0 /\ inside = {} /\ shown = 0

\* At most one older frame makes room for the new one.
Send ==
    /\ sent < NumFrames
    /\ sent' = sent + 1
    /\ \E lost \in SUBSET inside :
        /\ \A f, g \in lost : f = g
        /\ inside' = (inside \ lost) \cup {sent + 1}
    /\ UNCHANGED shown

Deliver ==
    /\ shown' \in inside
    /\ \A f \in inside : shown' <= f
    /\ inside' = inside \ {shown'}
    /\ UNCHANGED sent

Lose ==
    /\ inside' \in SUBSET inside
    /\ UNCHANGED <<sent, shown>>

Next == Send \/ Deliver \/ Lose

Spec == Init /\ [][Next]_channelVars
=============================================================================
