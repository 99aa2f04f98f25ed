---------------------------- MODULE PacerProofs ----------------------------
(***************************************************************************)
(* Proofs about Pacer, for every queue limit, frame rate and number of     *)
(* frames.                                                                 *)
(***************************************************************************)
EXTENDS Pacer, TLAPS

----------------------------------------------------------------------------
(* Lemmas about queues of frames *)

\* The frames of a queue are numbers, and only the empty queue has none.
LEMMA FramesType ==
    ASSUME NEW q \in Seq(Nat)
    PROVE  /\ Frames(q) \subseteq Nat
           /\ Len(q) \in Nat
           /\ q = <<>> <=> Len(q) = 0
           /\ q = <<>> => Frames(q) = {}
    BY DEF Frames

\* A frame appended to a queue is added to its frames.
LEMMA FramesAppend ==
    ASSUME NEW q \in Seq(Nat), NEW f \in Nat
    PROVE  /\ Append(q, f) \in Seq(Nat)
           /\ Len(Append(q, f)) = Len(q) + 1
           /\ Frames(Append(q, f)) = Frames(q) \cup {f}
    <1>1. Append(q, f) \in Seq(Nat) /\ Len(Append(q, f)) = Len(q) + 1
        OBVIOUS
    <1>2. ASSUME NEW x \in Frames(Append(q, f)) PROVE x \in Frames(q) \cup {f}
        BY <1>2 DEF Frames
    <1>3. ASSUME NEW x \in Frames(q) PROVE x \in Frames(Append(q, f))
        <2>1. PICK i \in 1..Len(q) : x = q[i]
            BY <1>3 DEF Frames
        <2>2. i \in 1..Len(Append(q, f)) /\ Append(q, f)[i] = x
            BY <2>1
        <2> QED BY <2>2 DEF Frames
    <1>4. f \in Frames(Append(q, f))
        <2>1. Len(q) + 1 \in 1..Len(Append(q, f)) /\ Append(q, f)[Len(q) + 1] = f
            OBVIOUS
        <2> QED BY <2>1 DEF Frames
    <1> QED BY <1>1, <1>2, <1>3, <1>4

\* Removing the head removes one frame, the smallest of an increasing queue.
LEMMA FramesTail ==
    ASSUME NEW q \in Seq(Nat), q # <<>>
    PROVE  /\ Head(q) \in Nat
           /\ Tail(q) \in Seq(Nat)
           /\ Len(Tail(q)) = Len(q) - 1
           /\ Frames(q) = {Head(q)} \cup Frames(Tail(q))
           /\ Increasing(q) => /\ Increasing(Tail(q))
                               /\ \A f \in Frames(Tail(q)) : Head(q) < f
    <1>1. /\ Head(q) \in Nat /\ Tail(q) \in Seq(Nat) /\ Len(Tail(q)) = Len(q) - 1
          /\ Len(q) \in Nat \ {0} /\ Head(q) = q[1]
        OBVIOUS
    <1>2. \A i \in 1..Len(Tail(q)) : Tail(q)[i] = q[i + 1] /\ i + 1 \in 1..Len(q)
        BY <1>1
    <1>3. ASSUME NEW x \in Frames(q) PROVE x \in {Head(q)} \cup Frames(Tail(q))
        <2>1. PICK i \in 1..Len(q) : x = q[i]
            BY <1>3 DEF Frames
        <2>2. CASE i = 1
            BY <2>1, <2>2, <1>1
        <2>3. CASE i # 1
            <3>1. i - 1 \in 1..Len(Tail(q)) /\ Tail(q)[i - 1] = x
                BY <2>1, <2>3, <1>1
            <3> QED BY <3>1 DEF Frames
        <2> QED BY <2>2, <2>3
    <1>4. {Head(q)} \cup Frames(Tail(q)) \subseteq Frames(q)
        BY <1>1, <1>2 DEF Frames
    <1>5. Increasing(q) => Increasing(Tail(q))
        BY <1>1, <1>2 DEF Increasing
    <1>6. ASSUME Increasing(q), NEW f \in Frames(Tail(q)) PROVE Head(q) < f
        <2>1. PICK i \in 1..Len(Tail(q)) : f = Tail(q)[i]
            BY <1>6 DEF Frames
        <2>2. 1 \in 1..Len(q) /\ i + 1 \in 1..Len(q) /\ 1 < i + 1
            BY <1>1, <1>2
        <2> QED BY <2>1, <2>2, <1>1, <1>2, <1>6 DEF Increasing
    <1> QED BY <1>1, <1>3, <1>4, <1>5, <1>6

\* A frame newer than all others goes to the end of an increasing queue.
LEMMA IncreasingAppend ==
    ASSUME NEW q \in Seq(Nat), NEW f \in Nat,
           Increasing(q), \A g \in Frames(q) : g < f
    PROVE  Increasing(Append(q, f))
    <1>1. \A i \in 1..Len(q) : q[i] < f
        BY DEF Frames
    <1>2. ASSUME NEW i \in 1..Len(Append(q, f)), NEW j \in 1..Len(Append(q, f)), i < j
          PROVE  Append(q, f)[i] < Append(q, f)[j]
        <2>1. i \in 1..Len(q) /\ Append(q, f)[i] = q[i]
            BY <1>2
        <2>2. CASE j = Len(q) + 1
            BY <1>1, <2>1, <2>2
        <2>3. CASE j \in 1..Len(q)
            BY <1>2, <2>1, <2>3 DEF Increasing
        <2> QED BY <2>2, <2>3
    <1> QED BY <1>2 DEF Increasing

\* What dropFrameForEnqueue() and the enqueue after it do to a queue.
LEMMA EnqueueFrame ==
    ASSUME NEW q \in Seq(Nat), NEW f \in Nat, Len(q) <= MAX_QUEUED_FRAMES
    PROVE  /\ Enqueue(q, f) \in Seq(Nat)
           /\ Len(Enqueue(q, f)) <= MAX_QUEUED_FRAMES
           /\ Len(Enqueue(q, f)) <= Len(q) + 1
           /\ Frames(Enqueue(q, f)) \cup DroppedFor(q) = Frames(q) \cup {f}
           /\ f \in Frames(Enqueue(q, f))
           /\ DroppedFor(q) \subseteq Frames(q)
           /\ \A g, h \in DroppedFor(q) : g = h
           /\ Increasing(q) /\ (\A g \in Frames(q) : g < f) =>
                  /\ Increasing(Enqueue(q, f))
                  /\ \A g \in DroppedFor(q), h \in Frames(Enqueue(q, f)) : g < h
    <1> USE PacerAssumption
    <1>1. CASE Len(q) = MAX_QUEUED_FRAMES
        <2>1. q # <<>>
            BY <1>1
        <2>2. DropForEnqueue(q) = Tail(q) /\ DroppedFor(q) = {Head(q)}
            BY <1>1 DEF DropForEnqueue, DroppedFor
        <2>3. Enqueue(q, f) = Append(Tail(q), f)
            BY <2>2 DEF Enqueue
        <2>4. Tail(q) \in Seq(Nat) /\ Head(q) \in Nat /\ Len(Tail(q)) = Len(q) - 1
            BY <2>1, FramesTail
        <2>5. Frames(q) = {Head(q)} \cup Frames(Tail(q))
            BY <2>1, FramesTail
        <2>6. Frames(Append(Tail(q), f)) = Frames(Tail(q)) \cup {f}
            BY <2>4, FramesAppend
        <2>7. Append(Tail(q), f) \in Seq(Nat) /\ Len(Append(Tail(q), f)) = Len(q)
            BY <2>4, FramesAppend, FramesType
        <2>8. ASSUME Increasing(q), \A g \in Frames(q) : g < f
              PROVE  /\ Increasing(Append(Tail(q), f))
                     /\ \A h \in Frames(Tail(q)) \cup {f} : Head(q) < h
            <3>1. Increasing(Tail(q)) /\ \A h \in Frames(Tail(q)) : Head(q) < h
                BY <2>1, <2>8, FramesTail
            <3>2. \A g \in Frames(Tail(q)) : g < f
                BY <2>5, <2>8
            <3> QED BY <2>4, <2>5, <2>8, <3>1, <3>2, IncreasingAppend
        <2> QED BY <1>1, <2>2, <2>3, <2>5, <2>6, <2>7, <2>8, FramesType
    <1>2. CASE Len(q) # MAX_QUEUED_FRAMES
        <2>1. Enqueue(q, f) = Append(q, f) /\ DroppedFor(q) = {}
            BY <1>2 DEF Enqueue, DropForEnqueue, DroppedFor
        <2>2. Len(q) + 1 <= MAX_QUEUED_FRAMES
            BY <1>2, FramesType
        <2> QED BY <2>1, <2>2, FramesAppend, IncreasingAppend
    <1> QED BY <1>1, <1>2

\* A rolling window of samples does not outgrow its length.
LEMMA SampleType ==
    ASSUME NEW history \in Seq(Nat), NEW q \in Seq(Nat), NEW window \in Nat \ {0},
           Len(history) <= window
    PROVE  /\ Sample(history, window, q) \in Seq(Nat)
           /\ Len(Sample(history, window, q)) <= window
    <1>1. CASE Len(history) = window
        <2>1. Tail(history) \in Seq(Nat) /\ Len(Tail(history)) = window - 1
            BY <1>1, FramesTail
        <2> QED BY <1>1, <2>1, FramesAppend, FramesType DEF Sample
    <1>2. CASE Len(history) # window
        BY <1>2, FramesAppend, FramesType DEF Sample
    <1> QED BY <1>1, <1>2

----------------------------------------------------------------------------
(* Type correctness and the bound of the queues *)

\* The queues keep their limit in every step, because every enqueue is
\* preceded by dropFrameForEnqueue().
TypeInv == TypeOK /\ SurfacesBounded

LEMMA TypeInit == Init => TypeInv
    <1>1. <<>> \in Seq(Nat) /\ Len(<<>>) = 0
        OBVIOUS
    <1>2. 0 <= DisplayFps \div 2 /\ 0 <= MaxVideoFps \div 2 /\ 0 <= MAX_QUEUED_FRAMES
        BY PacerAssumption
    <1>3. 0 \in 0..NumFrames
        BY PacerAssumption
    <1>4. ASSUME Init
          PROVE  /\ vpc \in {"loop", "done"} /\ rpc \in {"loop", "idle"}
                 /\ asleep \subseteq Conditions /\ freed \subseteq Nat
        BY <1>4 DEF Init
    <1> SUFFICES ASSUME Init PROVE TypeInv
        OBVIOUS
    <1>5. /\ pacing = <<>> /\ renderQ = <<>> /\ pacingHistory = <<>> /\ renderHistory = <<>>
          /\ mode \in Modes /\ sent = 0 /\ spc = "idle" /\ vTarget = 0 /\ rTarget = 0
          /\ vFrame = 0 /\ rFrame = 0 /\ events = 0 /\ shown = 0 /\ dpc = "none"
          /\ stopping \in BOOLEAN /\ vsyncPending \in BOOLEAN /\ cleaned \in BOOLEAN
        BY DEF Init, NoFrame
    <1>6. SurfacesBounded
        BY <1>1, <1>2, <1>5 DEF SurfacesBounded
    <1>7. TypeOK
        BY <1>1, <1>2, <1>3, <1>4, <1>5 DEF TypeOK
    <1> QED BY <1>6, <1>7 DEF TypeInv

LEMMA TypeServeVsync ==
    ASSUME TypeInv, NEW released \in SUBSET Nat, NEW expired \in BOOLEAN,
           ServeVsync(released, expired)
    PROVE  /\ pacing' \in Seq(Nat) /\ Len(pacing') <= MAX_QUEUED_FRAMES
           /\ renderQ' \in Seq(Nat) /\ Len(renderQ') <= MAX_QUEUED_FRAMES
           /\ vFrame' \in Nat /\ freed' \subseteq Nat
           /\ asleep' \subseteq Conditions
           /\ vpc' \in {"loop", "waitFrame", "wakeRender"}
    <1>1. /\ pacing \in Seq(Nat) /\ renderQ \in Seq(Nat) /\ freed \subseteq Nat
          /\ Len(pacing) <= MAX_QUEUED_FRAMES /\ Len(renderQ) <= MAX_QUEUED_FRAMES
          /\ asleep \subseteq Conditions
        BY DEF TypeInv, TypeOK, SurfacesBounded
    <1>2. CASE pacing # <<>>
        <2>1. /\ Head(pacing) \in Nat /\ Tail(pacing) \in Seq(Nat)
              /\ Len(Tail(pacing)) <= MAX_QUEUED_FRAMES
            BY <1>1, <1>2, FramesTail, FramesType, PacerAssumption
        <2>2. /\ Enqueue(renderQ, Head(pacing)) \in Seq(Nat)
              /\ Len(Enqueue(renderQ, Head(pacing))) <= MAX_QUEUED_FRAMES
              /\ DroppedFor(renderQ) \subseteq Nat
            BY <1>1, <2>1, EnqueueFrame, FramesType
        <2> QED BY <1>1, <2>1, <2>2 DEF ServeVsync, Wake, NoFrame, Conditions
    <1>3. CASE pacing = <<>>
        BY <1>1, <1>3 DEF ServeVsync, Wake, NoFrame, Conditions
    <1> QED BY <1>2, <1>3

LEMMA TypeCatchUp ==
    ASSUME TypeInv, NEW released \in SUBSET Nat, NEW target \in 0..3,
           CatchUpPacing(target, released)
    PROVE  /\ pacing' \in Seq(Nat) /\ Len(pacing') <= MAX_QUEUED_FRAMES
           /\ renderQ' \in Seq(Nat) /\ Len(renderQ') <= MAX_QUEUED_FRAMES
           /\ vFrame' \in Nat /\ freed' \subseteq Nat
           /\ asleep' \subseteq Conditions
           /\ vpc' \in {"loop", "waitFrame", "wakeRender", "drop"}
    <1>1. CASE Len(pacing) > target /\ vpc' = "drop"
        <2>1. /\ pacing \in Seq(Nat) /\ renderQ \in Seq(Nat) /\ freed \subseteq Nat
              /\ Len(pacing) <= MAX_QUEUED_FRAMES /\ Len(renderQ) <= MAX_QUEUED_FRAMES
              /\ asleep \subseteq Conditions
            BY DEF TypeInv, TypeOK, SurfacesBounded
        <2>2. /\ Head(pacing) \in Nat /\ Tail(pacing) \in Seq(Nat)
              /\ Len(Tail(pacing)) <= MAX_QUEUED_FRAMES
            BY <1>1, <2>1, FramesTail, FramesType, PacerAssumption
        <2>3. CASE Len(pacing) > target /\ vFrame' = Head(pacing) /\ pacing' = Tail(pacing)
                    /\ freed' = freed \cup released /\ UNCHANGED <<renderQ, asleep>>
            BY <1>1, <2>1, <2>2, <2>3
        <2>4. ~(Len(pacing) <= target)
            BY <1>1, <2>1, FramesType
        <2> QED BY <1>1, <2>3, <2>4 DEF CatchUpPacing
    <1>2. CASE \E expired \in BOOLEAN : ServeVsync(released, expired)
        BY <1>2, TypeServeVsync
    <1> QED BY <1>1, <1>2 DEF CatchUpPacing

LEMMA TypeCatchUpRendering ==
    ASSUME TypeInv, NEW target \in 0..2, CatchUpRendering(target)
    PROVE  /\ renderQ' \in Seq(Nat) /\ Len(renderQ') <= MAX_QUEUED_FRAMES
           /\ rFrame' \in Nat
           /\ rpc' \in {"loop", "idle", "drop"}
    <1>1. renderQ \in Seq(Nat) /\ Len(renderQ) <= MAX_QUEUED_FRAMES
        BY DEF TypeInv, TypeOK, SurfacesBounded
    <1>2. CASE Len(renderQ) > target
        BY SMTT(30), <1>1, <1>2, FramesTail, FramesType, PacerAssumption DEF CatchUpRendering
    <1>3. CASE ~(Len(renderQ) > target)
        BY <1>1, <1>3 DEF CatchUpRendering, NoFrame
    <1> QED BY <1>2, <1>3

LEMMA TypeStep == TypeInv /\ [Next]_vars => TypeInv'
    <1> SUFFICES ASSUME TypeInv, [Next]_vars PROVE TypeInv'
        OBVIOUS
    <1> USE PacerAssumption
    <1>a. DisplayFps \div 2 \in Nat \ {0} /\ MaxVideoFps \div 2 \in Nat \ {0}
        OBVIOUS
    <1>b. PacingTarget \in 0..3 /\ RenderTarget \in 0..2
        BY DEF PacingTarget, RenderTarget
    <1>1. CASE SubmitForPacing
        <2>1. /\ Enqueue(pacing, sent + 1) \in Seq(Nat)
              /\ Len(Enqueue(pacing, sent + 1)) <= MAX_QUEUED_FRAMES
              /\ DroppedFor(pacing) \subseteq Nat
            <3>1. pacing \in Seq(Nat) /\ sent + 1 \in Nat /\ Len(pacing) <= MAX_QUEUED_FRAMES
                BY DEF TypeInv, TypeOK, SurfacesBounded
            <3> QED BY <3>1, EnqueueFrame, FramesType
        <2>2. sent' \in 0..NumFrames /\ freed' \subseteq Nat
            <3>1. sent \in 0..NumFrames /\ freed \subseteq Nat
                BY DEF TypeInv, TypeOK
            <3>2. sent < NumFrames /\ sent' = sent + 1
                BY <1>1 DEF SubmitForPacing
            <3>3. freed' = freed \cup DroppedFor(pacing)
                BY <1>1 DEF SubmitForPacing
            <3>4. sent' \in 0..NumFrames
                BY <3>1, <3>2
            <3> QED BY <2>1, <3>1, <3>3, <3>4
        <2> QED BY <1>1, <2>1, <2>2
            DEF TypeInv, TypeOK, SurfacesBounded, SubmitForPacing, vsyncVars, renderVars
    <1>2. CASE SubmitForRendering
        <2>1. /\ Enqueue(renderQ, sent + 1) \in Seq(Nat)
              /\ Len(Enqueue(renderQ, sent + 1)) <= MAX_QUEUED_FRAMES
              /\ DroppedFor(renderQ) \subseteq Nat
            <3>1. renderQ \in Seq(Nat) /\ sent + 1 \in Nat /\ Len(renderQ) <= MAX_QUEUED_FRAMES
                BY DEF TypeInv, TypeOK, SurfacesBounded
            <3> QED BY <3>1, EnqueueFrame, FramesType
        <2>2. sent' \in 0..NumFrames /\ freed' \subseteq Nat
            <3>1. sent \in 0..NumFrames /\ freed \subseteq Nat
                BY DEF TypeInv, TypeOK
            <3>2. sent < NumFrames /\ sent' = sent + 1
                BY <1>2 DEF SubmitForRendering
            <3>3. freed' = freed \cup DroppedFor(renderQ)
                BY <1>2 DEF SubmitForRendering
            <3>4. sent' \in 0..NumFrames
                BY <3>1, <3>2
            <3> QED BY <2>1, <3>1, <3>3, <3>4
        <2> QED BY <1>2, <2>1, <2>2
            DEF TypeInv, TypeOK, SurfacesBounded, SubmitForRendering, vsyncVars, renderVars
    <1>3. CASE SubmitWakePacing
        BY <1>3 DEF TypeInv, TypeOK, SurfacesBounded, SubmitWakePacing, Wake, vsyncVars, renderVars
    <1>4. CASE SubmitWakeRender
        BY <1>4 DEF TypeInv, TypeOK, SurfacesBounded, SubmitWakeRender, NotifyRenderer, Wake,
                    vsyncVars, renderVars
    <1>5. CASE SignalVsync
        BY <1>5 DEF TypeInv, TypeOK, SurfacesBounded, SignalVsync, Wake, renderVars
    <1>6. CASE VsyncLoop \/ WaitForVsync \/ VsyncGuard
        <2>1. CASE VsyncLoop
            BY <2>1 DEF TypeInv, TypeOK, SurfacesBounded, VsyncLoop, renderVars
        <2>2. CASE WaitForVsync
            BY <2>2 DEF TypeInv, TypeOK, SurfacesBounded, WaitForVsync, renderVars
        <2>3. CASE VsyncGuard
            BY <2>3 DEF TypeInv, TypeOK, SurfacesBounded, VsyncGuard, renderVars
        <2> QED BY <1>6, <2>1, <2>2, <2>3
    <1>7. CASE WaitForAsyncVsync
        BY ZenonT(60), <1>7 DEF TypeInv, TypeOK, SurfacesBounded, WaitForAsyncVsync, Wake, Conditions, renderVars
    <1>8. CASE HandleVsync
        <2>1. /\ Sample(pacingHistory, DisplayFps \div 2, pacing) \in Seq(Nat)
              /\ Len(Sample(pacingHistory, DisplayFps \div 2, pacing)) <= DisplayFps \div 2
            BY <1>a, SampleType DEF TypeInv, TypeOK
        <2>2. CatchUpPacing(PacingTarget, {})
            BY <1>8 DEF HandleVsync
        <2>3. {} \in SUBSET Nat
            OBVIOUS
        <2>4. /\ pacing' \in Seq(Nat) /\ Len(pacing') <= MAX_QUEUED_FRAMES
              /\ renderQ' \in Seq(Nat) /\ Len(renderQ') <= MAX_QUEUED_FRAMES
              /\ vFrame' \in Nat /\ freed' \subseteq Nat
              /\ asleep' \subseteq Conditions
              /\ vpc' \in {"loop", "waitFrame", "wakeRender", "drop"}
            BY <1>b, <2>2, <2>3, TypeCatchUp
        <2> QED BY <1>8, <1>b, <2>1, <2>4
            DEF TypeInv, TypeOK, SurfacesBounded, HandleVsync, renderVars
    <1>9. CASE DropPaced
        <2>1. CatchUpPacing(vTarget, {vFrame}) /\ vTarget \in 0..3 /\ {vFrame} \in SUBSET Nat
            BY <1>9 DEF DropPaced, TypeInv, TypeOK
        <2>2. /\ pacing' \in Seq(Nat) /\ Len(pacing') <= MAX_QUEUED_FRAMES
              /\ renderQ' \in Seq(Nat) /\ Len(renderQ') <= MAX_QUEUED_FRAMES
              /\ vFrame' \in Nat /\ freed' \subseteq Nat
              /\ asleep' \subseteq Conditions
              /\ vpc' \in {"loop", "waitFrame", "wakeRender", "drop"}
            BY <2>1, TypeCatchUp
        <2> QED BY <1>9, <2>2 DEF TypeInv, TypeOK, SurfacesBounded, DropPaced, renderVars
    <1>10. CASE WaitForFrame
        <2>1. \E expired \in BOOLEAN : ServeVsync({}, expired)
            BY <1>10 DEF WaitForFrame
        <2>2. /\ pacing' \in Seq(Nat) /\ Len(pacing') <= MAX_QUEUED_FRAMES
              /\ renderQ' \in Seq(Nat) /\ Len(renderQ') <= MAX_QUEUED_FRAMES
              /\ vFrame' \in Nat /\ freed' \subseteq Nat
              /\ asleep' \subseteq Conditions
              /\ vpc' \in {"loop", "waitFrame", "wakeRender"}
            BY <2>1, TypeServeVsync
        <2> QED BY <1>10, <2>2 DEF TypeInv, TypeOK, SurfacesBounded, WaitForFrame, renderVars
    <1>11. CASE VsyncWakeRender
        BY <1>11 DEF TypeInv, TypeOK, SurfacesBounded, VsyncWakeRender, NotifyRenderer, Wake, renderVars
    <1>12. CASE RenderLoop \/ RenderFrame \/ CleanupRenderContext
        <2>1. CASE RenderLoop
            BY <2>1 DEF TypeInv, TypeOK, SurfacesBounded, RenderLoop, vsyncVars
        <2>2. CASE RenderFrame
            BY <2>2 DEF TypeInv, TypeOK, SurfacesBounded, RenderFrame, NoFrame, vsyncVars
        <2>3. CASE CleanupRenderContext
            BY <2>3 DEF TypeInv, TypeOK, SurfacesBounded, CleanupRenderContext, vsyncVars
        <2> QED BY <1>12, <2>1, <2>2, <2>3
    <1>13. CASE TakeFrame \/ RenderOnMainThread
        <2>1. renderQ # <<>> => /\ Head(renderQ) \in Nat /\ Tail(renderQ) \in Seq(Nat)
                                /\ Len(Tail(renderQ)) <= MAX_QUEUED_FRAMES
            BY FramesTail, FramesType DEF TypeInv, TypeOK, SurfacesBounded
        <2>2. CASE TakeFrame
            BY ZenonT(60), <2>1, <2>2 DEF TypeInv, TypeOK, SurfacesBounded, TakeFrame, Conditions, vsyncVars
        <2>3. CASE RenderOnMainThread
            <3>1. events' \in Nat
                BY <2>3 DEF RenderOnMainThread, TypeInv, TypeOK
            <3>2. CASE renderQ = <<>>
                BY <3>1, <3>2, <2>3 DEF TypeInv, TypeOK, SurfacesBounded, RenderOnMainThread, vsyncVars
            <3>3. CASE renderQ # <<>>
                BY <2>1, <3>1, <3>3, <2>3
                DEF TypeInv, TypeOK, SurfacesBounded, RenderOnMainThread, vsyncVars
            <3> QED BY <3>2, <3>3
        <2> QED BY <1>13, <2>2, <2>3
    <1>14. CASE TrimRenderQueue
        <2>1. /\ Sample(renderHistory, MaxVideoFps \div 2, renderQ) \in Seq(Nat)
              /\ Len(Sample(renderHistory, MaxVideoFps \div 2, renderQ)) <= MaxVideoFps \div 2
            BY <1>a, SampleType DEF TypeInv, TypeOK
        <2>2. /\ renderQ' \in Seq(Nat) /\ Len(renderQ') <= MAX_QUEUED_FRAMES
              /\ rFrame' \in Nat /\ rpc' \in {"loop", "idle", "drop"}
            BY <1>14, <1>b, TypeCatchUpRendering DEF TrimRenderQueue
        <2> QED BY <1>14, <1>b, <2>1, <2>2
            DEF TypeInv, TypeOK, SurfacesBounded, TrimRenderQueue, vsyncVars
    <1>15. CASE DropRendered
        <2>1. /\ renderQ' \in Seq(Nat) /\ Len(renderQ') <= MAX_QUEUED_FRAMES
              /\ rFrame' \in Nat /\ rpc' \in {"loop", "idle", "drop"}
            BY <1>15, TypeCatchUpRendering DEF DropRendered, TypeInv, TypeOK
        <2> QED BY <1>15, <2>1 DEF TypeInv, TypeOK, SurfacesBounded, DropRendered, vsyncVars
    <1>16. CASE Stop \/ JoinVsyncThread \/ JoinRenderThread
        <2>1. CASE Stop
            BY <2>1 DEF TypeInv, TypeOK, SurfacesBounded, Stop, WakeAll, vsyncVars, renderVars
        <2>2. CASE JoinVsyncThread
            BY <2>2 DEF TypeInv, TypeOK, SurfacesBounded, JoinVsyncThread, vsyncVars, renderVars
        <2>3. CASE JoinRenderThread
            <3>1. cleaned' \in BOOLEAN /\ dpc' = "free"
                BY <2>3 DEF JoinRenderThread, TypeInv, TypeOK
            <3>2. UNCHANGED <<mode, sent, spc, pacing, renderQ, stopping, asleep, events, freed,
                              vsyncVars, rpc, rTarget, rFrame, renderHistory, shown>>
                BY <2>3 DEF JoinRenderThread
            <3> QED BY <3>1, <3>2 DEF TypeInv, TypeOK, SurfacesBounded, vsyncVars
        <2> QED BY <1>16, <2>1, <2>2, <2>3
    <1>17. CASE FreeRemaining
        <2>1. Frames(renderQ) \subseteq Nat /\ Frames(pacing) \subseteq Nat
            BY FramesType DEF TypeInv, TypeOK
        <2>2. <<>> \in Seq(Nat) /\ Len(<<>>) <= MAX_QUEUED_FRAMES
            OBVIOUS
        <2> QED BY ZenonT(60), <1>17, <2>1, <2>2
            DEF TypeInv, TypeOK, SurfacesBounded, FreeRemaining, vsyncVars, renderVars
    <1>18. CASE SpuriousWakeup
        BY <1>18 DEF TypeInv, TypeOK, SurfacesBounded, SpuriousWakeup, Wake, vsyncVars, renderVars
    <1>19. CASE UNCHANGED vars
        BY <1>19 DEF TypeInv, TypeOK, SurfacesBounded, vars
    <1> QED
        BY <1>1, <1>2, <1>3, <1>4, <1>5, <1>6, <1>7, <1>8, <1>9, <1>10, <1>11, <1>12, <1>13,
           <1>14, <1>15, <1>16, <1>17, <1>18, <1>19
        DEF Next, Decoder, VsyncThread, Renderer, Destructor, Gone

\* Every behaviour is type correct.
THEOREM TypeCorrect == Spec => []TypeOK
    <1>1. TypeInv => TypeOK
        BY DEF TypeInv
    <1> QED BY <1>1, TypeInit, TypeStep, PTL DEF Spec

\* Neither queue ever exceeds MAX_QUEUED_FRAMES.
THEOREM QueuesBounded == Spec => []SurfacesBounded
    <1>1. TypeInv => SurfacesBounded
        BY DEF TypeInv
    <1> QED BY <1>1, TypeInit, TypeStep, PTL DEF Spec

----------------------------------------------------------------------------
(* Control: which thread can be where *)

\* The decoder thread has ended when the destructor runs, and the joins of
\* the destructor are what the rest of it relies on.
DestructorInv ==
    /\ stopping <=> dpc # "none"
    /\ dpc # "none" => spc = "idle"
    /\ dpc # "none" /\ ~mode.renderThread => rpc = "idle"
    /\ dpc \in {"joinRender", "free", "done"} => vpc = "done"
    /\ dpc \in {"free", "done"} /\ mode.renderThread => rpc = "done"
    /\ dpc = "done" => pacing = <<>> /\ renderQ = <<>>
    /\ cleaned <=> IF mode.renderThread THEN rpc = "done" ELSE dpc \in {"free", "done"}

\* Without a V-sync source there is neither a V-sync thread nor a pacing
\* queue, with one nothing goes to the render queue directly.
SourceInv ==
    /\ mode.source = "none" => vpc = "done" /\ pacing = <<>> /\ spc # "wakePacing"
    /\ mode.source # "none" => spc # "wakeRender"
    /\ vpc = "waitVsync" /\ "VsyncSignalled" \in asleep => mode.source = "async"

\* The render thread ends only after the stop; the main thread does not wait.
RendererInv ==
    /\ mode.renderThread => rpc # "idle"
    /\ ~mode.renderThread => rpc \in {"idle", "render", "trim", "drop"}
    /\ rpc \in {"cleanup", "done"} => stopping

\* Who can be asleep on what.
SleepInv ==
    /\ "VsyncSignalled" \in asleep => vpc = "waitVsync"
    /\ "PacingQueueNotEmpty" \in asleep => vpc = "waitFrame"
    /\ "RenderQueueNotEmpty" \in asleep => rpc = "take"

ControlInv == DestructorInv /\ SourceInv /\ RendererInv /\ SleepInv

LEMMA ControlInit == Init => ControlInv
    BY DEF Init, Modes, ControlInv, DestructorInv, SourceInv, RendererInv, SleepInv

LEMMA ControlStep == TypeInv /\ ControlInv /\ [Next]_vars => ControlInv'
    <1> SUFFICES ASSUME TypeInv, ControlInv, [Next]_vars PROVE ControlInv'
        OBVIOUS
    <1>1. CASE SubmitForPacing
        BY <1>1 DEF SubmitForPacing, TypeInv, TypeOK, ControlInv, DestructorInv, SourceInv, RendererInv,
                    SleepInv, vsyncVars, renderVars, Wake, WakeAll
    <1>2. CASE SubmitForRendering
        BY <1>2 DEF SubmitForRendering, TypeInv, TypeOK, ControlInv, DestructorInv, SourceInv, RendererInv,
                    SleepInv, vsyncVars, renderVars, Wake, WakeAll
    <1>3. CASE SubmitWakePacing
        BY <1>3 DEF SubmitWakePacing, TypeInv, TypeOK, ControlInv, DestructorInv, SourceInv, RendererInv,
                    SleepInv, vsyncVars, renderVars, Wake, WakeAll
    <1>4. CASE SubmitWakeRender
        BY <1>4 DEF SubmitWakeRender, NotifyRenderer, TypeInv, TypeOK, ControlInv, DestructorInv, SourceInv, RendererInv,
                    SleepInv, vsyncVars, renderVars, Wake, WakeAll
    <1>5. CASE SignalVsync
        BY <1>5 DEF SignalVsync, TypeInv, TypeOK, ControlInv, DestructorInv, SourceInv, RendererInv,
                    SleepInv, vsyncVars, renderVars, Wake, WakeAll
    <1>6. CASE VsyncLoop
        BY <1>6 DEF VsyncLoop, TypeInv, TypeOK, ControlInv, DestructorInv, SourceInv, RendererInv,
                    SleepInv, vsyncVars, renderVars, Wake, WakeAll
    <1>7. CASE WaitForVsync
        BY <1>7 DEF WaitForVsync, TypeInv, TypeOK, ControlInv, DestructorInv, SourceInv, RendererInv,
                    SleepInv, vsyncVars, renderVars, Wake, WakeAll
    <1>8. CASE WaitForAsyncVsync
        BY <1>8 DEF WaitForAsyncVsync, TypeInv, TypeOK, ControlInv, DestructorInv, SourceInv, RendererInv,
                    SleepInv, vsyncVars, renderVars, Wake, WakeAll
    <1>9. CASE VsyncGuard
        BY <1>9 DEF VsyncGuard, TypeInv, TypeOK, ControlInv, DestructorInv, SourceInv, RendererInv,
                    SleepInv, vsyncVars, renderVars, Wake, WakeAll
    <1>10. CASE HandleVsync
        BY <1>10 DEF HandleVsync, CatchUpPacing, ServeVsync, GiveUp, TypeInv, TypeOK, ControlInv, DestructorInv, SourceInv, RendererInv,
                    SleepInv, vsyncVars, renderVars, Wake, WakeAll
    <1>11. CASE DropPaced
        BY <1>11 DEF DropPaced, CatchUpPacing, ServeVsync, GiveUp, TypeInv, TypeOK, ControlInv, DestructorInv, SourceInv, RendererInv,
                    SleepInv, vsyncVars, renderVars, Wake, WakeAll
    <1>12. CASE WaitForFrame
        BY <1>12 DEF WaitForFrame, ServeVsync, GiveUp, TypeInv, TypeOK, ControlInv, DestructorInv, SourceInv, RendererInv,
                    SleepInv, vsyncVars, renderVars, Wake, WakeAll
    <1>13. CASE VsyncWakeRender
        BY <1>13 DEF VsyncWakeRender, NotifyRenderer, TypeInv, TypeOK, ControlInv, DestructorInv, SourceInv, RendererInv,
                    SleepInv, vsyncVars, renderVars, Wake, WakeAll
    <1>14. CASE RenderLoop
        BY <1>14 DEF RenderLoop, TypeInv, TypeOK, ControlInv, DestructorInv, SourceInv, RendererInv,
                    SleepInv, vsyncVars, renderVars, Wake, WakeAll
    <1>15. CASE TakeFrame
        BY <1>15 DEF TakeFrame, TypeInv, TypeOK, ControlInv, DestructorInv, SourceInv, RendererInv,
                    SleepInv, vsyncVars, renderVars, Wake, WakeAll
    <1>16. CASE RenderOnMainThread
        BY <1>16 DEF RenderOnMainThread, TypeInv, TypeOK, ControlInv, DestructorInv, SourceInv, RendererInv,
                    SleepInv, vsyncVars, renderVars, Wake, WakeAll
    <1>17. CASE RenderFrame
        BY <1>17 DEF RenderFrame, TypeInv, TypeOK, ControlInv, DestructorInv, SourceInv, RendererInv,
                    SleepInv, vsyncVars, renderVars, Wake, WakeAll
    <1>18. CASE TrimRenderQueue
        BY <1>18 DEF TrimRenderQueue, CatchUpRendering, TypeInv, TypeOK, ControlInv, DestructorInv, SourceInv, RendererInv,
                    SleepInv, vsyncVars, renderVars, Wake, WakeAll
    <1>19. CASE DropRendered
        BY <1>19 DEF DropRendered, CatchUpRendering, TypeInv, TypeOK, ControlInv, DestructorInv, SourceInv, RendererInv,
                    SleepInv, vsyncVars, renderVars, Wake, WakeAll
    <1>20. CASE CleanupRenderContext
        BY <1>20 DEF CleanupRenderContext, TypeInv, TypeOK, ControlInv, DestructorInv, SourceInv, RendererInv,
                    SleepInv, vsyncVars, renderVars, Wake, WakeAll
    <1>21. CASE Stop
        BY <1>21 DEF Stop, TypeInv, TypeOK, ControlInv, DestructorInv, SourceInv, RendererInv,
                    SleepInv, vsyncVars, renderVars, Wake, WakeAll
    <1>22. CASE JoinVsyncThread
        BY <1>22 DEF JoinVsyncThread, TypeInv, TypeOK, ControlInv, DestructorInv, SourceInv, RendererInv,
                    SleepInv, vsyncVars, renderVars, Wake, WakeAll
    <1>23. CASE JoinRenderThread
        BY <1>23 DEF JoinRenderThread, RenderThreadExited, TypeInv, TypeOK, ControlInv, DestructorInv, SourceInv, RendererInv,
                    SleepInv, vsyncVars, renderVars, Wake, WakeAll
    <1>24. CASE FreeRemaining
        BY <1>24 DEF FreeRemaining, TypeInv, TypeOK, ControlInv, DestructorInv, SourceInv, RendererInv,
                    SleepInv, vsyncVars, renderVars, Wake, WakeAll
    <1>25. CASE SpuriousWakeup
        BY <1>25 DEF SpuriousWakeup, TypeInv, TypeOK, ControlInv, DestructorInv, SourceInv, RendererInv,
                    SleepInv, vsyncVars, renderVars, Wake, WakeAll
    <1>26. CASE UNCHANGED vars
        BY <1>26 DEF vars, ControlInv, DestructorInv, SourceInv, RendererInv, SleepInv
    <1> QED
        BY <1>1, <1>2, <1>3, <1>4, <1>5, <1>6, <1>7, <1>8, <1>9, <1>10, <1>11, <1>12, <1>13, <1>14, <1>15, <1>16, <1>17, <1>18, <1>19, <1>20, <1>21, <1>22, <1>23, <1>24, <1>25, <1>26
        DEF Next, Decoder, VsyncThread, Renderer, Destructor, Gone

----------------------------------------------------------------------------
(* Waiting: no wakeup is lost *)

LEMMA WakeupStep == TypeInv /\ ControlInv /\ NoLostWakeup /\ [Next]_vars => NoLostWakeup'
    <1> SUFFICES ASSUME TypeInv, ControlInv, NoLostWakeup, [Next]_vars PROVE NoLostWakeup'
        OBVIOUS
    <1>1. CASE SubmitForPacing
        BY <1>1 DEF SubmitForPacing, TypeInv, TypeOK, ControlInv, DestructorInv, SourceInv, RendererInv,
                    SleepInv, NoLostWakeup, vsyncVars, renderVars, Wake, WakeAll
    <1>2. CASE SubmitForRendering
        BY <1>2 DEF SubmitForRendering, TypeInv, TypeOK, ControlInv, DestructorInv, SourceInv, RendererInv,
                    SleepInv, NoLostWakeup, vsyncVars, renderVars, Wake, WakeAll
    <1>3. CASE SubmitWakePacing
        BY <1>3 DEF SubmitWakePacing, TypeInv, TypeOK, ControlInv, DestructorInv, SourceInv, RendererInv,
                    SleepInv, NoLostWakeup, vsyncVars, renderVars, Wake, WakeAll
    <1>4. CASE SubmitWakeRender
        BY <1>4 DEF SubmitWakeRender, NotifyRenderer, TypeInv, TypeOK, ControlInv, DestructorInv, SourceInv, RendererInv,
                    SleepInv, NoLostWakeup, vsyncVars, renderVars, Wake, WakeAll
    <1>5. CASE SignalVsync
        BY <1>5 DEF SignalVsync, TypeInv, TypeOK, ControlInv, DestructorInv, SourceInv, RendererInv,
                    SleepInv, NoLostWakeup, vsyncVars, renderVars, Wake, WakeAll
    <1>6. CASE VsyncLoop
        BY <1>6 DEF VsyncLoop, TypeInv, TypeOK, ControlInv, DestructorInv, SourceInv, RendererInv,
                    SleepInv, NoLostWakeup, vsyncVars, renderVars, Wake, WakeAll
    <1>7. CASE WaitForVsync
        BY <1>7 DEF WaitForVsync, TypeInv, TypeOK, ControlInv, DestructorInv, SourceInv, RendererInv,
                    SleepInv, NoLostWakeup, vsyncVars, renderVars, Wake, WakeAll
    <1>8. CASE WaitForAsyncVsync
        BY <1>8 DEF WaitForAsyncVsync, TypeInv, TypeOK, ControlInv, DestructorInv, SourceInv, RendererInv,
                    SleepInv, NoLostWakeup, vsyncVars, renderVars, Wake, WakeAll
    <1>9. CASE VsyncGuard
        BY <1>9 DEF VsyncGuard, TypeInv, TypeOK, ControlInv, DestructorInv, SourceInv, RendererInv,
                    SleepInv, NoLostWakeup, vsyncVars, renderVars, Wake, WakeAll
    <1>10. CASE HandleVsync
        BY <1>10 DEF HandleVsync, CatchUpPacing, ServeVsync, GiveUp, TypeInv, TypeOK, ControlInv, DestructorInv, SourceInv, RendererInv,
                    SleepInv, NoLostWakeup, vsyncVars, renderVars, Wake, WakeAll
    <1>11. CASE DropPaced
        BY <1>11 DEF DropPaced, CatchUpPacing, ServeVsync, GiveUp, TypeInv, TypeOK, ControlInv, DestructorInv, SourceInv, RendererInv,
                    SleepInv, NoLostWakeup, vsyncVars, renderVars, Wake, WakeAll
    <1>12. CASE WaitForFrame
        BY <1>12 DEF WaitForFrame, ServeVsync, GiveUp, TypeInv, TypeOK, ControlInv, DestructorInv, SourceInv, RendererInv,
                    SleepInv, NoLostWakeup, vsyncVars, renderVars, Wake, WakeAll
    <1>13. CASE VsyncWakeRender
        BY <1>13 DEF VsyncWakeRender, NotifyRenderer, TypeInv, TypeOK, ControlInv, DestructorInv, SourceInv, RendererInv,
                    SleepInv, NoLostWakeup, vsyncVars, renderVars, Wake, WakeAll
    <1>14. CASE RenderLoop
        BY <1>14 DEF RenderLoop, TypeInv, TypeOK, ControlInv, DestructorInv, SourceInv, RendererInv,
                    SleepInv, NoLostWakeup, vsyncVars, renderVars, Wake, WakeAll
    <1>15. CASE TakeFrame
        BY <1>15 DEF TakeFrame, TypeInv, TypeOK, ControlInv, DestructorInv, SourceInv, RendererInv,
                    SleepInv, NoLostWakeup, vsyncVars, renderVars, Wake, WakeAll
    <1>16. CASE RenderOnMainThread
        BY <1>16 DEF RenderOnMainThread, TypeInv, TypeOK, ControlInv, DestructorInv, SourceInv, RendererInv,
                    SleepInv, NoLostWakeup, vsyncVars, renderVars, Wake, WakeAll
    <1>17. CASE RenderFrame
        BY <1>17 DEF RenderFrame, TypeInv, TypeOK, ControlInv, DestructorInv, SourceInv, RendererInv,
                    SleepInv, NoLostWakeup, vsyncVars, renderVars, Wake, WakeAll
    <1>18. CASE TrimRenderQueue
        BY <1>18 DEF TrimRenderQueue, CatchUpRendering, TypeInv, TypeOK, ControlInv, DestructorInv, SourceInv, RendererInv,
                    SleepInv, NoLostWakeup, vsyncVars, renderVars, Wake, WakeAll
    <1>19. CASE DropRendered
        BY <1>19 DEF DropRendered, CatchUpRendering, TypeInv, TypeOK, ControlInv, DestructorInv, SourceInv, RendererInv,
                    SleepInv, NoLostWakeup, vsyncVars, renderVars, Wake, WakeAll
    <1>20. CASE CleanupRenderContext
        BY <1>20 DEF CleanupRenderContext, TypeInv, TypeOK, ControlInv, DestructorInv, SourceInv, RendererInv,
                    SleepInv, NoLostWakeup, vsyncVars, renderVars, Wake, WakeAll
    <1>21. CASE Stop
        BY <1>21 DEF Stop, TypeInv, TypeOK, ControlInv, DestructorInv, SourceInv, RendererInv,
                    SleepInv, NoLostWakeup, vsyncVars, renderVars, Wake, WakeAll
    <1>22. CASE JoinVsyncThread
        BY <1>22 DEF JoinVsyncThread, TypeInv, TypeOK, ControlInv, DestructorInv, SourceInv, RendererInv,
                    SleepInv, NoLostWakeup, vsyncVars, renderVars, Wake, WakeAll
    <1>23. CASE JoinRenderThread
        BY <1>23 DEF JoinRenderThread, RenderThreadExited, TypeInv, TypeOK, ControlInv, DestructorInv, SourceInv, RendererInv,
                    SleepInv, NoLostWakeup, vsyncVars, renderVars, Wake, WakeAll
    <1>24. CASE FreeRemaining
        BY <1>24 DEF FreeRemaining, TypeInv, TypeOK, ControlInv, DestructorInv, SourceInv, RendererInv,
                    SleepInv, NoLostWakeup, vsyncVars, renderVars, Wake, WakeAll
    <1>25. CASE SpuriousWakeup
        BY <1>25 DEF SpuriousWakeup, TypeInv, TypeOK, ControlInv, DestructorInv, SourceInv, RendererInv,
                    SleepInv, NoLostWakeup, vsyncVars, renderVars, Wake, WakeAll
    <1>26. CASE UNCHANGED vars
        BY <1>26 DEF vars, NoLostWakeup
    <1> QED
        BY <1>1, <1>2, <1>3, <1>4, <1>5, <1>6, <1>7, <1>8, <1>9, <1>10, <1>11, <1>12, <1>13, <1>14, <1>15, <1>16, <1>17, <1>18, <1>19, <1>20, <1>21, <1>22, <1>23, <1>24, <1>25, <1>26
        DEF Next, Decoder, VsyncThread, Renderer, Destructor, Gone

\* No thread sleeps while its condition holds and nobody is about to wake
\* it, and none sleeps once the destructor fired: wakeOne() after the
\* unlock, timed waits and wakeAll() under the lock are enough.
THEOREM WakeupsKept == Spec => []NoLostWakeup
    <1>1. Init => NoLostWakeup
        BY DEF Init, NoLostWakeup
    <1> QED BY <1>1, TypeInit, TypeStep, ControlInit, ControlStep, WakeupStep, PTL DEF Spec

\* The renderer is not used after cleanupRenderContext(), and the context
\* is cleaned up before the destructor frees what is left.
THEOREM ContextSafety == Spec => []ContextSafe
    <1>1. TypeInv /\ ControlInv => ContextSafe
        BY DEF TypeInv, TypeOK, ControlInv, DestructorInv, RendererInv, ContextSafe
    <1> QED BY <1>1, TypeInit, TypeStep, ControlInit, ControlStep, PTL DEF Spec


----------------------------------------------------------------------------
(* Frames: order and ownership *)

\* The part of FrameInv that is about frames and not about threads.
FrameFacts ==
    FramesInOrder /\ Held \cap freed = {} /\ Held \cup freed = 1..sent /\ shown <= sent

\* ServeVsync frees the frame in the V-sync thread's hand, if any, and moves
\* at most the head of the pacing queue to the end of the render queue.
LEMMA FrameServeVsync ==
    ASSUME TypeInv, FrameFacts, NEW expired \in BOOLEAN,
           ServeVsync(InHand(vFrame), expired),
           UNCHANGED <<sent, shown, rFrame>>
    PROVE  FrameFacts' /\ vFrame' = NoFrame
    <1>a. /\ \A f \in Frames(pacing) : shown < f
          /\ \A f \in Frames(renderQ) : shown < f
          /\ \A f \in Frames(renderQ), g \in Frames(pacing) : f < g
          /\ \A f \in InHand(rFrame) : shown < f
          /\ \A f \in InHand(rFrame), g \in Frames(renderQ) \cup Frames(pacing) : f < g
          /\ \A f \in InHand(vFrame) : shown < f
          /\ \A f \in InHand(vFrame), g \in Frames(pacing) : f < g
          /\ \A f \in Frames(renderQ) \cup InHand(rFrame), g \in InHand(vFrame) : f < g
        BY DEF FrameFacts, FramesInOrder, AllBelow
    <1>1. /\ pacing \in Seq(Nat) /\ renderQ \in Seq(Nat) /\ Len(renderQ) <= MAX_QUEUED_FRAMES
          /\ shown \in Nat /\ rFrame \in Nat /\ vFrame \in Nat
        BY DEF TypeInv, TypeOK, SurfacesBounded
    <1>2. Frames(pacing) \subseteq Nat /\ Frames(renderQ) \subseteq Nat
        BY <1>1, FramesType
    <1>3. CASE UNCHANGED <<pacing, renderQ>> /\ freed' = freed \cup InHand(vFrame) /\ vFrame' = NoFrame
        BY <1>1, <1>2, <1>3 DEF FrameFacts, FramesInOrder, AllBelow, Held, InHand, NoFrame
    <1>4. CASE /\ pacing # <<>> /\ pacing' = Tail(pacing)
               /\ renderQ' = Enqueue(renderQ, Head(pacing))
               /\ freed' = freed \cup InHand(vFrame) \cup DroppedFor(renderQ)
               /\ vFrame' = NoFrame
        <2> DEFINE h == Head(pacing)
        <2>1. /\ h \in Nat /\ Frames(pacing) = {h} \cup Frames(pacing')
              /\ Increasing(pacing') /\ \A f \in Frames(pacing') : h < f
            BY <1>1, <1>4, FramesTail DEF FrameFacts, FramesInOrder
        <2>2. Increasing(renderQ) /\ \A g \in Frames(renderQ) : g < h
            BY <2>1 DEF FrameFacts, FramesInOrder, AllBelow
        <2>3. /\ Frames(renderQ') \cup DroppedFor(renderQ) = Frames(renderQ) \cup {h}
              /\ DroppedFor(renderQ) \subseteq Frames(renderQ)
              /\ Increasing(renderQ')
              /\ \A g \in DroppedFor(renderQ), f \in Frames(renderQ') : g < f
            BY <1>1, <1>4, <2>1, <2>2, EnqueueFrame
        <2>4. Frames(renderQ') \cap DroppedFor(renderQ) = {}
            BY <1>2, <2>1, <2>3
        <2> HIDE DEF h
        <2>5. FramesInOrder'
            <3>1. /\ h \in Frames(pacing) /\ Frames(pacing') \subseteq Frames(pacing)
                  /\ Frames(renderQ') \subseteq Frames(renderQ) \cup {h}
                BY <2>1, <2>3
            <3>2. \A f \in Frames(renderQ'), g \in Frames(pacing') : f < g
                BY <1>a, <2>1, <3>1
            <3>3. \A f \in InHand(rFrame) \cup {shown}, g \in Frames(renderQ') \cup Frames(pacing') : f < g
                BY <1>a, <3>1
            <3>4. InHand(vFrame') = {}
                BY <1>4 DEF InHand
            <3> QED BY <1>a, <2>1, <2>3, <3>2, <3>3, <3>4 DEF FramesInOrder, AllBelow
        <2>6. Held = Held' \cup DroppedFor(renderQ) \cup InHand(vFrame)
            BY <1>4, <2>1, <2>3 DEF Held, InHand, NoFrame
        <2>7. ASSUME NEW f \in Held' PROVE f \notin DroppedFor(renderQ) \cup InHand(vFrame)
            <3>1. CASE f \in Frames(pacing')
                BY <1>1, <1>2, <1>a, <2>1, <2>3, <3>1 DEF InHand
            <3>2. CASE f \in Frames(renderQ')
                <4>1. f \notin DroppedFor(renderQ) /\ f \in Frames(renderQ) \cup {h} /\ h \in Frames(pacing)
                    BY <2>1, <2>3, <2>4, <3>2
                <4> QED BY <1>1, <1>2, <1>a, <4>1 DEF InHand
            <3>3. CASE f \in InHand(rFrame)
                BY <1>1, <1>2, <1>a, <2>3, <3>3 DEF InHand
            <3> QED BY <1>4, <2>7, <3>1, <3>2, <3>3 DEF Held, InHand, NoFrame
        <2> QED BY <1>4, <2>5, <2>6, <2>7 DEF FrameFacts
    <1> QED BY <1>3, <1>4 DEF ServeVsync

\* The same of the catch-up loop, which may also take the head of the pacing
\* queue in hand to free it.
LEMMA FrameCatchUp ==
    ASSUME TypeInv, FrameFacts, NEW target \in 0..3,
           CatchUpPacing(target, InHand(vFrame)),
           UNCHANGED <<sent, shown, rFrame>>
    PROVE  FrameFacts' /\ (vFrame' # NoFrame <=> vpc' = "drop")
    <1>a. /\ \A f \in Frames(pacing) : shown < f
          /\ \A f \in Frames(renderQ) : shown < f
          /\ \A f \in Frames(renderQ), g \in Frames(pacing) : f < g
          /\ \A f \in InHand(rFrame) : shown < f
          /\ \A f \in InHand(rFrame), g \in Frames(renderQ) \cup Frames(pacing) : f < g
          /\ \A f \in InHand(vFrame) : shown < f
          /\ \A f \in InHand(vFrame), g \in Frames(pacing) : f < g
          /\ \A f \in Frames(renderQ) \cup InHand(rFrame), g \in InHand(vFrame) : f < g
        BY DEF FrameFacts, FramesInOrder, AllBelow
    <1>1. /\ pacing \in Seq(Nat) /\ renderQ \in Seq(Nat)
          /\ shown \in Nat /\ rFrame \in Nat /\ vFrame \in Nat
        BY DEF TypeInv, TypeOK
    <1>2. Frames(pacing) \subseteq Nat /\ Frames(renderQ) \subseteq Nat
        BY <1>1, FramesType
    <1>3. CASE Len(pacing) > target
        <2>1. /\ pacing # <<>> /\ vpc' = "drop" /\ vFrame' = Head(pacing) /\ pacing' = Tail(pacing)
              /\ freed' = freed \cup InHand(vFrame) /\ UNCHANGED renderQ
            BY <1>1, <1>3, FramesType DEF CatchUpPacing
        <2>2. /\ vFrame' \in Nat /\ Frames(pacing) = {vFrame'} \cup Frames(pacing')
              /\ Increasing(pacing') /\ \A f \in Frames(pacing') : vFrame' < f
            BY <1>1, <2>1, FramesTail DEF FrameFacts, FramesInOrder
        <2>a. vFrame' \in Frames(pacing) /\ Frames(pacing') \subseteq Frames(pacing)
            BY <2>2
        <2>3. vFrame' # NoFrame
            BY <1>1, <1>a, <2>2, <2>a DEF NoFrame
        <2>4. FramesInOrder'
            BY <1>1, <1>2, <2>1, <2>2 DEF FrameFacts, FramesInOrder, AllBelow, InHand, NoFrame
        <2>5. Held = Held' \cup InHand(vFrame)
            BY <2>1, <2>2, <2>3 DEF Held, InHand, NoFrame
        <2>6. Held' \cap InHand(vFrame) = {}
            BY <1>1, <1>2, <1>a, <2>1, <2>2, <2>3 DEF Held, InHand, NoFrame
        <2> QED BY <2>1, <2>3, <2>4, <2>5, <2>6 DEF FrameFacts
    <1>4. CASE ~(Len(pacing) > target)
        <2>1. PICK expired \in BOOLEAN : ServeVsync(InHand(vFrame), expired)
            BY <1>4 DEF CatchUpPacing
        <2> QED BY <2>1, FrameServeVsync DEF ServeVsync
    <1> QED BY <1>3, <1>4

\* The catch-up loop of the renderer frees the frame in its hand and may
\* take the head of the render queue.
LEMMA FrameCatchUpRendering ==
    ASSUME TypeInv, FrameFacts, NEW target \in 0..2,
           CatchUpRendering(target), freed' = freed \cup InHand(rFrame),
           UNCHANGED <<sent, shown, vFrame, pacing>>
    PROVE  FrameFacts' /\ (rFrame' # NoFrame <=> rpc' \in {"render", "drop"})
    <1>a. /\ \A f \in Frames(pacing) : shown < f
          /\ \A f \in Frames(renderQ) : shown < f
          /\ \A f \in Frames(renderQ), g \in Frames(pacing) : f < g
          /\ \A f \in InHand(rFrame) : shown < f
          /\ \A f \in InHand(rFrame), g \in Frames(renderQ) \cup Frames(pacing) : f < g
          /\ \A f \in InHand(vFrame) : shown < f
          /\ \A f \in InHand(vFrame), g \in Frames(pacing) : f < g
          /\ \A f \in Frames(renderQ) \cup InHand(rFrame), g \in InHand(vFrame) : f < g
        BY DEF FrameFacts, FramesInOrder, AllBelow
    <1>1. /\ pacing \in Seq(Nat) /\ renderQ \in Seq(Nat)
          /\ shown \in Nat /\ rFrame \in Nat /\ vFrame \in Nat
        BY DEF TypeInv, TypeOK
    <1>2. Frames(pacing) \subseteq Nat /\ Frames(renderQ) \subseteq Nat
        BY <1>1, FramesType
    <1>3. CASE Len(renderQ) > target
        <2>1. renderQ # <<>> /\ rpc' = "drop" /\ rFrame' = Head(renderQ) /\ renderQ' = Tail(renderQ)
            BY <1>1, <1>3, FramesType DEF CatchUpRendering
        <2>2. /\ rFrame' \in Nat /\ Frames(renderQ) = {rFrame'} \cup Frames(renderQ')
              /\ Increasing(renderQ') /\ \A f \in Frames(renderQ') : rFrame' < f
            BY <1>1, <2>1, FramesTail DEF FrameFacts, FramesInOrder
        <2>a. rFrame' \in Frames(renderQ) /\ Frames(renderQ') \subseteq Frames(renderQ)
            BY <2>2
        <2>3. rFrame' # NoFrame
            BY <1>1, <1>a, <2>2, <2>a DEF NoFrame
        <2>b. Increasing(pacing')
            BY DEF FrameFacts, FramesInOrder
        <2>4. FramesInOrder'
            BY <1>1, <1>2, <1>a, <2>2, <2>a, <2>b DEF FramesInOrder, AllBelow, InHand, NoFrame
        <2>5. Held = Held' \cup InHand(rFrame)
            BY <2>1, <2>2, <2>3 DEF Held, InHand, NoFrame
        <2>6. Held' \cap InHand(rFrame) = {}
            BY <1>1, <1>2, <1>a, <2>1, <2>2, <2>3 DEF Held, InHand, NoFrame
        <2> QED BY <2>1, <2>3, <2>4, <2>5, <2>6 DEF FrameFacts
    <1>4. CASE ~(Len(renderQ) > target)
        <2>1. rFrame' = NoFrame /\ renderQ' = renderQ /\ rpc' \in {"loop", "idle"}
            BY <1>4 DEF CatchUpRendering
        <2>2. FramesInOrder'
            BY <1>1, <1>2, <2>1 DEF FrameFacts, FramesInOrder, AllBelow, InHand, NoFrame
        <2>3. Held = Held' \cup InHand(rFrame) /\ Held' \cap InHand(rFrame) = {}
            BY <1>1, <1>2, <2>1 DEF FrameFacts, FramesInOrder, AllBelow, Held, InHand, NoFrame
        <2> QED BY <2>1, <2>2, <2>3 DEF FrameFacts
    <1> QED BY <1>3, <1>4

\* A thread holds a frame exactly while it renders or frees it.
HandInv ==
    /\ vFrame # NoFrame <=> vpc = "drop"
    /\ rFrame # NoFrame <=> rpc \in {"render", "drop"}

FrameInv == HandInv /\ FrameFacts

LEMMA FrameInit == Init => FrameInv
    <1>1. Frames(<<>>) = {} /\ Increasing(<<>>)
        BY DEF Frames, Increasing
    <1> QED BY <1>1 DEF Init, FrameInv, HandInv, FrameFacts, FramesInOrder, AllBelow,
                        Held, InHand, NoFrame

\* The order, element by element, as the steps below use it.
LEMMA OrderFacts ==
    ASSUME TypeInv, FrameFacts
    PROVE  /\ \A f \in Frames(pacing) : shown < f /\ f \in 1..sent /\ f \notin freed
           /\ \A f \in Frames(renderQ) : shown < f /\ f \in 1..sent /\ f \notin freed
           /\ \A f \in InHand(rFrame) : shown < f /\ f \in 1..sent /\ f \notin freed
           /\ \A f \in InHand(vFrame) : shown < f /\ f \in 1..sent /\ f \notin freed
           /\ \A f \in Frames(renderQ), g \in Frames(pacing) : f < g
           /\ \A f \in InHand(rFrame), g \in Frames(renderQ) \cup Frames(pacing) : f < g
           /\ \A f \in InHand(vFrame), g \in Frames(pacing) : f < g
           /\ \A f \in Frames(renderQ) \cup InHand(rFrame), g \in InHand(vFrame) : f < g
           /\ Increasing(renderQ) /\ Increasing(pacing)
           /\ freed \subseteq 1..sent
           /\ \A f \in 1..sent : f \in Held \/ f \in freed
    <1>1. Held \cap freed = {} /\ Held \cup freed = 1..sent
        BY DEF FrameFacts
    <1>2. /\ Frames(pacing) \subseteq Held /\ Frames(renderQ) \subseteq Held
          /\ InHand(rFrame) \subseteq Held /\ InHand(vFrame) \subseteq Held
        BY DEF Held
    <1>3. FramesInOrder
        BY DEF FrameFacts
    <1>4. \A f \in Held : f \in 1..sent /\ f \notin freed
        BY <1>1
    <1>5. freed \subseteq 1..sent /\ \A f \in 1..sent : f \in Held \/ f \in freed
        BY <1>1
    <1>6. \A f \in Frames(pacing) \cup Frames(renderQ) \cup InHand(rFrame) \cup InHand(vFrame) : shown < f
        BY <1>3 DEF FramesInOrder, AllBelow
    <1>7. /\ \A f \in Frames(renderQ), g \in Frames(pacing) : f < g
          /\ \A f \in InHand(rFrame), g \in Frames(renderQ) \cup Frames(pacing) : f < g
          /\ \A f \in InHand(vFrame), g \in Frames(pacing) : f < g
          /\ \A f \in Frames(renderQ) \cup InHand(rFrame), g \in InHand(vFrame) : f < g
          /\ Increasing(renderQ) /\ Increasing(pacing)
        BY <1>3 DEF FramesInOrder, AllBelow
    <1> QED BY <1>2, <1>4, <1>5, <1>6, <1>7

\* The renderer takes the head of the render queue in hand.
LEMMA FrameTake ==
    ASSUME TypeInv, FrameFacts, renderQ # <<>>, rFrame = NoFrame,
           rFrame' = Head(renderQ), renderQ' = Tail(renderQ),
           UNCHANGED <<sent, shown, vFrame, pacing, freed>>
    PROVE  FrameFacts' /\ rFrame' # NoFrame
    <1>1. renderQ \in Seq(Nat) /\ shown \in Nat /\ vFrame \in Nat /\ Frames(pacing) \subseteq Nat
        BY FramesType DEF TypeInv, TypeOK
    <1>2. /\ rFrame' \in Nat /\ Frames(renderQ) = {rFrame'} \cup Frames(renderQ')
          /\ Increasing(renderQ') /\ \A f \in Frames(renderQ') : rFrame' < f
        BY <1>1, FramesTail, OrderFacts
    <1>3. rFrame' \in Frames(renderQ) /\ Frames(renderQ') \subseteq Frames(renderQ)
        BY <1>2
    <1>4. rFrame' # NoFrame
        BY <1>1, <1>3, OrderFacts DEF NoFrame
    <1>5. FramesInOrder'
        BY <1>1, <1>2, <1>3, OrderFacts DEF FramesInOrder, AllBelow, InHand, NoFrame
    <1>6. Held' = Held
        BY <1>2, <1>4 DEF Held, InHand, NoFrame
    <1> QED BY <1>4, <1>5, <1>6 DEF FrameFacts

LEMMA FrameStep == TypeInv /\ ControlInv /\ FrameInv /\ [Next]_vars => FrameInv'
    <1> SUFFICES ASSUME TypeInv, ControlInv, FrameInv, [Next]_vars PROVE FrameInv'
        OBVIOUS
    <1> USE PacerAssumption
    <1>a. FrameFacts /\ HandInv
        BY DEF FrameInv
    <1>b. /\ pacing \in Seq(Nat) /\ renderQ \in Seq(Nat) /\ sent \in Nat
          /\ Len(pacing) <= MAX_QUEUED_FRAMES /\ Len(renderQ) <= MAX_QUEUED_FRAMES
          /\ shown \in Nat /\ vFrame \in Nat /\ rFrame \in Nat
          /\ Frames(pacing) \subseteq Nat /\ Frames(renderQ) \subseteq Nat
        BY FramesType DEF TypeInv, TypeOK, SurfacesBounded
    <1>c. PacingTarget \in 0..3 /\ RenderTarget \in 0..2 /\ vTarget \in 0..3 /\ rTarget \in 0..2
        BY DEF PacingTarget, RenderTarget, TypeInv, TypeOK
    <1>d. InHand(NoFrame) = {}
        BY DEF InHand
    \* Steps that move no frame.
    <1>e. ASSUME UNCHANGED <<pacing, renderQ, vFrame, rFrame, shown, freed, sent>>, HandInv'
          PROVE  FrameInv'
        BY <1>a, <1>e DEF FrameInv, FrameFacts, FramesInOrder, AllBelow, Held, InHand
    <1>1. CASE SubmitForPacing
        <2>1. /\ pacing' = Enqueue(pacing, sent + 1) /\ freed' = freed \cup DroppedFor(pacing)
              /\ sent' = sent + 1 /\ HandInv'
              /\ UNCHANGED <<renderQ, vFrame, rFrame, shown>>
            BY <1>1, <1>a DEF SubmitForPacing, HandInv, vsyncVars, renderVars
        <2>2. \A f \in Frames(pacing) : f < sent + 1
            BY <1>a, <1>b, OrderFacts
        <2>3. /\ Frames(pacing') \cup DroppedFor(pacing) = Frames(pacing) \cup {sent + 1}
              /\ DroppedFor(pacing) \subseteq Frames(pacing)
              /\ sent + 1 \in Frames(pacing')
              /\ Increasing(pacing')
              /\ \A g \in DroppedFor(pacing), h \in Frames(pacing') : g < h
            <3>1. Increasing(pacing) /\ sent + 1 \in Nat
                BY <1>a, <1>b, OrderFacts
            <3> QED BY <1>b, <2>1, <2>2, <3>1, EnqueueFrame
        <2>4. FramesInOrder'
            <3>1. /\ \A f \in InHand(rFrame) \cup InHand(vFrame) \cup Frames(renderQ) : f < sent + 1
                  /\ shown < sent + 1
                BY <1>a, <1>b, OrderFacts DEF FrameFacts
            <3> QED BY <1>a, <1>b, <2>1, <2>3, <3>1, OrderFacts DEF FramesInOrder, AllBelow
        <2>5. (Held \cap freed = {})'
            BY <1>a, <1>b, <2>1, <2>3, OrderFacts DEF Held
        <2>6. (Held \cup freed = 1..sent)'
            <3>1. Held' \cup freed' = Held \cup freed \cup {sent + 1}
                BY <2>1, <2>3 DEF Held
            <3> QED BY <1>a, <1>b, <2>1, <3>1 DEF FrameFacts
        <2>7. (shown <= sent)'
            BY <1>a, <1>b, <2>1 DEF FrameFacts
        <2> QED BY <2>1, <2>4, <2>5, <2>6, <2>7 DEF FrameInv, FrameFacts
    <1>2. CASE SubmitForRendering
        <2>1. /\ renderQ' = Enqueue(renderQ, sent + 1) /\ freed' = freed \cup DroppedFor(renderQ)
              /\ sent' = sent + 1 /\ HandInv'
              /\ UNCHANGED <<pacing, vFrame, rFrame, shown>>
            BY <1>2, <1>a DEF SubmitForRendering, HandInv, vsyncVars, renderVars
        <2>2. \A f \in Frames(renderQ) : f < sent + 1
            BY <1>a, <1>b, OrderFacts
        <2>3. /\ Frames(renderQ') \cup DroppedFor(renderQ) = Frames(renderQ) \cup {sent + 1}
              /\ DroppedFor(renderQ) \subseteq Frames(renderQ)
              /\ sent + 1 \in Frames(renderQ')
              /\ Increasing(renderQ')
              /\ \A g \in DroppedFor(renderQ), h \in Frames(renderQ') : g < h
            <3>1. Increasing(renderQ) /\ sent + 1 \in Nat
                BY <1>a, <1>b, OrderFacts
            <3> QED BY <1>b, <2>1, <2>2, <3>1, EnqueueFrame
        \* Without a V-sync source there is nothing behind the render queue.
        <2>4. Frames(pacing) = {} /\ InHand(vFrame) = {}
            <3>1. pacing = <<>> /\ vpc = "done"
                BY <1>2 DEF SubmitForRendering, ControlInv, SourceInv
            <3> QED BY <1>a, <1>b, <1>d, <3>1, FramesType DEF HandInv
        <2>5. FramesInOrder'
            <3>1. /\ \A f \in InHand(rFrame) : f < sent + 1
                  /\ shown < sent + 1
                BY <1>a, <1>b, OrderFacts DEF FrameFacts
            <3> QED BY <1>a, <1>b, <2>1, <2>3, <2>4, <3>1, OrderFacts DEF FramesInOrder, AllBelow
        <2>6. (Held \cap freed = {})'
            BY <1>a, <1>b, <2>1, <2>3, <2>4, OrderFacts DEF Held
        <2>7. (Held \cup freed = 1..sent)'
            <3>1. Held' \cup freed' = Held \cup freed \cup {sent + 1}
                BY <2>1, <2>3 DEF Held
            <3> QED BY <1>a, <1>b, <2>1, <3>1 DEF FrameFacts
        <2>8. (shown <= sent)'
            BY <1>a, <1>b, <2>1 DEF FrameFacts
        <2> QED BY <2>1, <2>5, <2>6, <2>7, <2>8 DEF FrameInv, FrameFacts
    <1>3. CASE SubmitWakePacing
        <2>1. UNCHANGED <<pacing, renderQ, vFrame, rFrame, shown, freed, sent>>
            BY <1>3 DEF SubmitWakePacing, vsyncVars, renderVars
        <2>2. HandInv'
            BY <1>3, <1>a, <2>1 DEF SubmitWakePacing, HandInv, vsyncVars, renderVars
        <2> QED BY <1>e, <2>1, <2>2
    <1>4. CASE SubmitWakeRender
        <2>1. UNCHANGED <<pacing, renderQ, vFrame, rFrame, shown, freed, sent>>
            BY <1>4 DEF SubmitWakeRender, vsyncVars, renderVars
        <2>2. HandInv'
            BY <1>4, <1>a, <2>1 DEF SubmitWakeRender, HandInv, vsyncVars, renderVars
        <2> QED BY <1>e, <2>1, <2>2
    <1>5. CASE SignalVsync
        <2>1. UNCHANGED <<pacing, renderQ, vFrame, rFrame, shown, freed, sent>>
            BY <1>5 DEF SignalVsync, vsyncVars, renderVars
        <2>2. HandInv'
            BY <1>5, <1>a, <2>1 DEF SignalVsync, HandInv, vsyncVars, renderVars
        <2> QED BY <1>e, <2>1, <2>2
    <1>6. CASE VsyncLoop
        <2>1. UNCHANGED <<pacing, renderQ, vFrame, rFrame, shown, freed, sent>>
            BY <1>6 DEF VsyncLoop, vsyncVars, renderVars
        <2>2. HandInv'
            BY <1>6, <1>a, <2>1 DEF VsyncLoop, HandInv, vsyncVars, renderVars
        <2> QED BY <1>e, <2>1, <2>2
    <1>7. CASE WaitForVsync
        <2>1. UNCHANGED <<pacing, renderQ, vFrame, rFrame, shown, freed, sent>>
            BY <1>7 DEF WaitForVsync, vsyncVars, renderVars
        <2>2. HandInv'
            BY <1>7, <1>a, <2>1 DEF WaitForVsync, HandInv, vsyncVars, renderVars
        <2> QED BY <1>e, <2>1, <2>2
    <1>8. CASE WaitForAsyncVsync
        <2>1. UNCHANGED <<pacing, renderQ, vFrame, rFrame, shown, freed, sent>>
            BY <1>8 DEF WaitForAsyncVsync, vsyncVars, renderVars
        <2>2. HandInv'
            BY <1>8, <1>a, <2>1 DEF WaitForAsyncVsync, HandInv, vsyncVars, renderVars
        <2> QED BY <1>e, <2>1, <2>2
    <1>9. CASE VsyncGuard
        <2>1. UNCHANGED <<pacing, renderQ, vFrame, rFrame, shown, freed, sent>>
            BY <1>9 DEF VsyncGuard, vsyncVars, renderVars
        <2>2. HandInv'
            BY <1>9, <1>a, <2>1 DEF VsyncGuard, HandInv, vsyncVars, renderVars
        <2> QED BY <1>e, <2>1, <2>2
    <1>10. CASE HandleVsync
        <2>1. vFrame = NoFrame /\ CatchUpPacing(PacingTarget, {}) /\ UNCHANGED <<sent, shown, rFrame, rpc>>
            BY <1>10, <1>a DEF HandleVsync, HandInv, renderVars
        <2>2. FrameFacts' /\ (vFrame' # NoFrame <=> vpc' = "drop")
            BY <1>a, <1>c, <1>d, <2>1, FrameCatchUp
        <2> QED BY <1>a, <2>1, <2>2 DEF FrameInv, HandInv
    <1>11. CASE DropPaced
        <2>1. /\ CatchUpPacing(vTarget, {vFrame}) /\ {vFrame} = InHand(vFrame)
              /\ UNCHANGED <<sent, shown, rFrame, rpc>>
            BY <1>11, <1>a DEF DropPaced, HandInv, InHand, renderVars
        <2>2. FrameFacts' /\ (vFrame' # NoFrame <=> vpc' = "drop")
            BY <1>a, <1>c, <2>1, FrameCatchUp
        <2> QED BY <1>a, <2>1, <2>2 DEF FrameInv, HandInv
    <1>12. CASE WaitForFrame
        <2>1. vFrame = NoFrame /\ UNCHANGED <<sent, shown, rFrame, rpc>>
            BY <1>12, <1>a DEF WaitForFrame, HandInv, renderVars
        <2>2. PICK expired \in BOOLEAN : ServeVsync({}, expired)
            BY <1>12 DEF WaitForFrame
        <2>3. FrameFacts' /\ vFrame' = NoFrame
            BY <1>a, <1>d, <2>1, <2>2, FrameServeVsync
        <2>4. vpc' # "drop"
            BY <2>2 DEF ServeVsync
        <2> QED BY <1>a, <2>1, <2>3, <2>4 DEF FrameInv, HandInv
    <1>13. CASE VsyncWakeRender
        <2>1. UNCHANGED <<pacing, renderQ, vFrame, rFrame, shown, freed, sent>>
            BY <1>13 DEF VsyncWakeRender, vsyncVars, renderVars
        <2>2. HandInv'
            BY <1>13, <1>a, <2>1 DEF VsyncWakeRender, HandInv, vsyncVars, renderVars
        <2> QED BY <1>e, <2>1, <2>2
    <1>14. CASE RenderLoop
        <2>1. UNCHANGED <<pacing, renderQ, vFrame, rFrame, shown, freed, sent>>
            BY <1>14 DEF RenderLoop, vsyncVars, renderVars
        <2>2. HandInv'
            BY <1>14, <1>a, <2>1 DEF RenderLoop, HandInv, vsyncVars, renderVars
        <2> QED BY <1>e, <2>1, <2>2
    <1>15. CASE TakeFrame
        <2>1. rFrame = NoFrame /\ UNCHANGED <<pacing, sent, shown, vFrame, vpc, freed>>
            BY <1>15, <1>a DEF TakeFrame, HandInv, vsyncVars
        <2>2. CASE renderQ # <<>> /\ rpc' = "render"
            BY <1>15, <1>a, <2>1, <2>2, FrameTake DEF TakeFrame, FrameInv, HandInv
        <2>3. CASE UNCHANGED <<renderQ, rFrame>> /\ rpc' \in {"take", "cleanup"}
            BY <1>a, <1>e, <2>1, <2>3 DEF HandInv
        <2> QED BY <1>15, <2>2, <2>3 DEF TakeFrame
    <1>16. CASE RenderOnMainThread
        <2>1. rFrame = NoFrame /\ UNCHANGED <<pacing, sent, shown, vFrame, vpc, freed>>
            BY <1>16, <1>a DEF RenderOnMainThread, HandInv, vsyncVars
        <2>2. CASE renderQ # <<>>
            BY <1>16, <1>a, <2>1, <2>2, FrameTake DEF RenderOnMainThread, FrameInv, HandInv
        <2>3. CASE renderQ = <<>>
            <3>1. UNCHANGED <<renderQ, rFrame, rpc>>
                BY <1>16, <2>3 DEF RenderOnMainThread
            <3> QED BY <1>a, <1>e, <2>1, <3>1 DEF HandInv
        <2> QED BY <2>2, <2>3
    <1>17. CASE RenderFrame
        <2>1. /\ rFrame # NoFrame /\ shown' = rFrame /\ freed' = freed \cup {rFrame}
              /\ rFrame' = NoFrame /\ rpc' = "trim"
              /\ UNCHANGED <<pacing, renderQ, vFrame, vpc, sent>>
            BY <1>17, <1>a DEF RenderFrame, HandInv, vsyncVars
        <2>2. InHand(rFrame) = {rFrame} /\ InHand(rFrame') = {}
            BY <2>1 DEF InHand
        <2>3. rFrame \in 1..sent /\ \A f \in Frames(renderQ) \cup Frames(pacing) \cup InHand(vFrame) : rFrame < f
            BY <1>a, <2>2, OrderFacts
        <2>4. FramesInOrder'
            BY <1>a, <2>1, <2>2, <2>3, OrderFacts DEF FramesInOrder, AllBelow, InHand
        <2>5. Held = Held' \cup {rFrame}
            BY <2>1, <2>2 DEF Held, InHand
        <2>6. rFrame \notin Held'
            <3>1. \A f \in Held' : rFrame < f
                BY <2>1, <2>2, <2>3 DEF Held, InHand
            <3> QED BY <1>b, <3>1
        <2>7. (shown <= sent)'
            BY <2>1, <2>3
        <2> QED BY <1>a, <2>1, <2>4, <2>5, <2>6, <2>7 DEF FrameInv, FrameFacts, HandInv
    <1>18. CASE TrimRenderQueue
        <2>1. /\ rFrame = NoFrame /\ CatchUpRendering(RenderTarget) /\ freed' = freed
              /\ UNCHANGED <<sent, shown, vFrame, pacing, vpc>>
            BY <1>18, <1>a DEF TrimRenderQueue, HandInv, vsyncVars
        <2>2. FrameFacts' /\ (rFrame' # NoFrame <=> rpc' \in {"render", "drop"})
            BY <1>a, <1>c, <1>d, <2>1, FrameCatchUpRendering
        <2> QED BY <1>a, <2>1, <2>2 DEF FrameInv, HandInv
    <1>19. CASE DropRendered
        <2>1. /\ CatchUpRendering(rTarget) /\ {rFrame} = InHand(rFrame) /\ freed' = freed \cup {rFrame}
              /\ UNCHANGED <<sent, shown, vFrame, pacing, vpc>>
            BY <1>19, <1>a DEF DropRendered, HandInv, InHand, vsyncVars
        <2>2. FrameFacts' /\ (rFrame' # NoFrame <=> rpc' \in {"render", "drop"})
            BY <1>a, <1>c, <2>1, FrameCatchUpRendering
        <2> QED BY <1>a, <2>1, <2>2 DEF FrameInv, HandInv
    <1>20. CASE CleanupRenderContext
        <2>1. UNCHANGED <<pacing, renderQ, vFrame, rFrame, shown, freed, sent>>
            BY <1>20 DEF CleanupRenderContext, vsyncVars, renderVars
        <2>2. HandInv'
            BY <1>20, <1>a, <2>1 DEF CleanupRenderContext, HandInv, vsyncVars, renderVars
        <2> QED BY <1>e, <2>1, <2>2
    <1>21. CASE Stop
        <2>1. UNCHANGED <<pacing, renderQ, vFrame, rFrame, shown, freed, sent>>
            BY <1>21 DEF Stop, vsyncVars, renderVars
        <2>2. HandInv'
            BY <1>21, <1>a, <2>1 DEF Stop, HandInv, vsyncVars, renderVars
        <2> QED BY <1>e, <2>1, <2>2
    <1>22. CASE JoinVsyncThread
        <2>1. UNCHANGED <<pacing, renderQ, vFrame, rFrame, shown, freed, sent>>
            BY <1>22 DEF JoinVsyncThread, vsyncVars, renderVars
        <2>2. HandInv'
            BY <1>22, <1>a, <2>1 DEF JoinVsyncThread, HandInv, vsyncVars, renderVars
        <2> QED BY <1>e, <2>1, <2>2
    <1>23. CASE JoinRenderThread
        <2>1. UNCHANGED <<pacing, renderQ, vFrame, rFrame, shown, freed, sent>>
            BY <1>23 DEF JoinRenderThread, vsyncVars, renderVars
        <2>2. HandInv'
            BY <1>23, <1>a, <2>1 DEF JoinRenderThread, HandInv, vsyncVars, renderVars
        <2> QED BY <1>e, <2>1, <2>2
    <1>24. CASE FreeRemaining
        <2>1. /\ freed' = freed \cup Frames(renderQ) \cup Frames(pacing)
              /\ renderQ' = <<>> /\ pacing' = <<>>
              /\ UNCHANGED <<sent, shown, vFrame, vpc, rFrame, rpc>>
            BY <1>24 DEF FreeRemaining, vsyncVars, renderVars
        \* The joins left no frame in anybody's hand.
        <2>2. InHand(vFrame) = {} /\ InHand(rFrame) = {}
            BY <1>24, <1>a, <1>d DEF FreeRemaining, ControlInv, DestructorInv, RendererInv, HandInv
        <2>3. Frames(renderQ') = {} /\ Frames(pacing') = {} /\ Increasing(<<>>)
            BY <2>1 DEF Frames, Increasing
        <2>4. FramesInOrder'
            BY <2>1, <2>2, <2>3 DEF FramesInOrder, AllBelow
        <2>5. Held' = {} /\ freed' = Held \cup freed
            BY <2>1, <2>2, <2>3 DEF Held
        <2> QED BY <1>a, <2>1, <2>4, <2>5 DEF FrameInv, FrameFacts, HandInv
    <1>25. CASE SpuriousWakeup
        <2>1. UNCHANGED <<pacing, renderQ, vFrame, rFrame, shown, freed, sent>>
            BY <1>25 DEF SpuriousWakeup, vsyncVars, renderVars
        <2>2. HandInv'
            BY <1>25, <1>a, <2>1 DEF SpuriousWakeup, HandInv, vsyncVars, renderVars
        <2> QED BY <1>e, <2>1, <2>2
    <1>26. CASE UNCHANGED vars
        BY <1>26, <1>a, <1>e DEF vars, HandInv
    <1> QED
        BY <1>1, <1>2, <1>3, <1>4, <1>5, <1>6, <1>7, <1>8, <1>9, <1>10, <1>11, <1>12, <1>13, <1>14, <1>15, <1>16, <1>17, <1>18, <1>19, <1>20, <1>21, <1>22, <1>23, <1>24, <1>25, <1>26
        DEF Next, Decoder, VsyncThread, Renderer, Destructor, Gone

\* Frames reach the screen in the order they were submitted, whatever the
\* threads drop on the way.
THEOREM OrderKept == Spec => []FramesInOrder
    <1>1. FrameInv => FramesInOrder
        BY DEF FrameInv, FrameFacts
    <1> QED BY <1>1, FrameInit, FrameStep, TypeInit, TypeStep, ControlInit, ControlStep, PTL DEF Spec

\* Every submitted frame is held by exactly one owner until it is freed
\* exactly once, and the destructor leaves none behind.
THEOREM OwnershipKept == Spec => []FrameOwnership
    <1>1. TypeInv /\ ControlInv /\ FrameInv => FrameOwnership
        <2> SUFFICES ASSUME TypeInv, ControlInv, FrameInv PROVE FrameOwnership
            OBVIOUS
        <2>1. Held \cap freed = {} /\ Held \cup freed = 1..sent /\ HandInv
            BY DEF FrameInv, FrameFacts
        <2>2. ASSUME dpc = "done" PROVE Held = {}
            <3>1. /\ pacing = <<>> /\ renderQ = <<>> /\ vpc = "done" /\ rpc \in {"idle", "done"}
                BY <2>2 DEF ControlInv, DestructorInv
            <3>2. vFrame = NoFrame /\ rFrame = NoFrame
                BY <2>1, <3>1 DEF HandInv
            <3>3. Frames(pacing) = {} /\ Frames(renderQ) = {}
                BY <3>1 DEF Frames
            <3> QED BY <3>2, <3>3 DEF Held, InHand
        <2> QED BY <2>1, <2>2 DEF FrameOwnership
    <1> QED BY <1>1, FrameInit, FrameStep, TypeInit, TypeStep, ControlInit, ControlStep, PTL DEF Spec

----------------------------------------------------------------------------
(* The stop, the events of main-thread rendering, the abstract channel *)

\* Once the destructor fired nothing is handed to the renderer any more.
THEOREM NothingHandedOffAfterStop == Spec => NoHandOffAfterStop
    <1>1. TypeInv /\ ControlInv /\ [Next]_vars => [stopping => Len(renderQ') <= Len(renderQ)]_vars
        <2> SUFFICES ASSUME TypeInv, ControlInv, [Next]_vars, stopping
                     PROVE  Len(renderQ') <= Len(renderQ)
            OBVIOUS
        <2>1. renderQ \in Seq(Nat) /\ Len(renderQ) \in Nat /\ Len(<<>>) = 0
            BY DEF TypeInv, TypeOK
        <2>2. renderQ # <<>> => Len(Tail(renderQ)) = Len(renderQ) - 1
            BY <2>1, FramesTail
        <2>3. renderQ' = renderQ \/ (renderQ # <<>> /\ renderQ' = Tail(renderQ)) \/ renderQ' = <<>>
            <3>1. CASE Decoder
                BY <3>1 DEF Decoder, SubmitForPacing, SubmitForRendering, SubmitWakePacing,
                            SubmitWakeRender, ControlInv, DestructorInv
            <3>2. CASE VsyncThread
                BY <3>2 DEF VsyncThread, VsyncLoop, WaitForVsync, WaitForAsyncVsync, VsyncGuard,
                            HandleVsync, DropPaced, WaitForFrame, VsyncWakeRender,
                            CatchUpPacing, ServeVsync, GiveUp
            <3>3. CASE TrimRenderQueue \/ DropRendered
                <4>1. RenderTarget \in 0..2 /\ rTarget \in 0..2
                    BY DEF RenderTarget, TypeInv, TypeOK
                <4>2. PICK target \in 0..2 : CatchUpRendering(target)
                    BY <3>3, <4>1 DEF TrimRenderQueue, DropRendered
                <4>3. Len(renderQ) > target => renderQ # <<>>
                    BY <2>1
                <4> QED BY <4>2, <4>3 DEF CatchUpRendering
            <3>4. CASE Renderer /\ ~(TrimRenderQueue \/ DropRendered)
                BY <3>4 DEF Renderer, RenderLoop, TakeFrame, RenderOnMainThread, RenderFrame,
                            CleanupRenderContext
            <3>5. CASE SignalVsync \/ Destructor \/ SpuriousWakeup \/ Gone \/ UNCHANGED vars
                BY <3>5 DEF SignalVsync, Destructor, Stop, JoinVsyncThread, JoinRenderThread,
                            FreeRemaining, SpuriousWakeup, Gone, vars
            <3> QED BY <3>1, <3>2, <3>3, <3>4, <3>5 DEF Next
        <2> QED BY <2>1, <2>2, <2>3
    <1> QED BY <1>1, TypeInit, TypeStep, ControlInit, ControlStep, PTL DEF Spec, NoHandOffAfterStop

\* What the V-sync thread does to the frames that may still be shown: it
\* drops some, and adds none.
LEMMA ServeLoses ==
    ASSUME TypeInv, NEW released, NEW expired \in BOOLEAN, ServeVsync(released, expired)
    PROVE  Frames(pacing') \cup Frames(renderQ') \subseteq Frames(pacing) \cup Frames(renderQ)
    <1>1. pacing \in Seq(Nat) /\ renderQ \in Seq(Nat) /\ Len(renderQ) <= MAX_QUEUED_FRAMES
        BY DEF TypeInv, TypeOK, SurfacesBounded
    <1>2. CASE /\ pacing # <<>> /\ pacing' = Tail(pacing)
               /\ renderQ' = Enqueue(renderQ, Head(pacing))
        <2>1. Head(pacing) \in Nat /\ Frames(pacing) = {Head(pacing)} \cup Frames(pacing')
            BY <1>1, <1>2, FramesTail
        <2>2. Frames(renderQ') \subseteq Frames(renderQ) \cup {Head(pacing)}
            BY <1>1, <1>2, <2>1, EnqueueFrame
        <2> QED BY <2>1, <2>2
    <1>3. CASE UNCHANGED <<pacing, renderQ>>
        BY <1>3
    <1> QED BY <1>2, <1>3 DEF ServeVsync

LEMMA CatchUpLoses ==
    ASSUME TypeInv, NEW released, NEW target \in 0..3, CatchUpPacing(target, released)
    PROVE  Frames(pacing') \cup Frames(renderQ') \subseteq Frames(pacing) \cup Frames(renderQ)
    <1>1. CASE /\ Len(pacing) > target /\ pacing' = Tail(pacing) /\ UNCHANGED renderQ
        <2>1. pacing \in Seq(Nat) /\ pacing # <<>>
            BY <1>1, FramesType DEF TypeInv, TypeOK
        <2> QED BY <1>1, <2>1, FramesTail
    <1>2. CASE \E expired \in BOOLEAN : ServeVsync(released, expired)
        BY <1>2, ServeLoses
    <1> QED BY <1>1, <1>2 DEF CatchUpPacing

\* One step of the pacer is one step of the channel or none.
LEMMA ChannelStep ==
    TypeInv /\ ControlInv /\ FrameInv /\ [Next]_vars => [Channel!Next]_<<sent, Inside, shown>>
    <1> SUFFICES ASSUME TypeInv, ControlInv, FrameInv, [Next]_vars
                 PROVE  Channel!Next \/ UNCHANGED <<sent, Inside, shown>>
        OBVIOUS
    <1> USE PacerAssumption
    <1>a. FrameFacts /\ HandInv
        BY DEF FrameInv
    <1>b. /\ pacing \in Seq(Nat) /\ renderQ \in Seq(Nat) /\ sent \in Nat
          /\ Len(pacing) <= MAX_QUEUED_FRAMES /\ Len(renderQ) <= MAX_QUEUED_FRAMES
          /\ Frames(pacing) \subseteq Nat /\ Frames(renderQ) \subseteq Nat /\ rFrame \in Nat
        BY FramesType DEF TypeInv, TypeOK, SurfacesBounded
    <1>c. PacingTarget \in 0..3 /\ RenderTarget \in 0..2 /\ vTarget \in 0..3 /\ rTarget \in 0..2
        BY DEF PacingTarget, RenderTarget, TypeInv, TypeOK
    \* A step that loses frames, or moves them, is Lose.
    <1>d. ASSUME Frames(pacing') \cup Frames(renderQ') \subseteq Frames(pacing) \cup Frames(renderQ),
                 UNCHANGED <<sent, shown, rFrame>>, rpc' = "render" <=> rpc = "render"
          PROVE  Channel!Next
        BY <1>d DEF Channel!Next, Channel!Lose, Inside
    <1>1. CASE SubmitForPacing \/ SubmitForRendering
        <2> DEFINE lost == Inside \ Inside'
        <2>1. CASE SubmitForPacing
            <3>1. /\ pacing' = Enqueue(pacing, sent + 1) /\ sent < NumFrames /\ sent' = sent + 1
                  /\ UNCHANGED <<renderQ, rFrame, rpc, shown>>
                BY <2>1 DEF SubmitForPacing, renderVars
            <3>2. /\ Frames(pacing') \cup DroppedFor(pacing) = Frames(pacing) \cup {sent + 1}
                  /\ DroppedFor(pacing) \subseteq Frames(pacing) /\ sent + 1 \in Frames(pacing')
                  /\ \A f, g \in DroppedFor(pacing) : f = g
                BY <1>b, <3>1, EnqueueFrame
            <3>3. Inside' = (Inside \ lost) \cup {sent + 1}
                BY <3>1, <3>2 DEF Inside
            <3>4. lost \subseteq DroppedFor(pacing)
                BY <3>1, <3>2 DEF Inside
            <3>5. \A f, g \in lost : f = g
                BY <3>2, <3>4
            <3> QED BY <3>1, <3>3, <3>5 DEF Channel!Next, Channel!Send
        <2>2. CASE SubmitForRendering
            <3>1. /\ renderQ' = Enqueue(renderQ, sent + 1) /\ sent < NumFrames /\ sent' = sent + 1
                  /\ UNCHANGED <<pacing, rFrame, rpc, shown>>
                BY <2>2 DEF SubmitForRendering, renderVars
            <3>2. /\ Frames(renderQ') \cup DroppedFor(renderQ) = Frames(renderQ) \cup {sent + 1}
                  /\ DroppedFor(renderQ) \subseteq Frames(renderQ) /\ sent + 1 \in Frames(renderQ')
                  /\ \A f, g \in DroppedFor(renderQ) : f = g
                BY <1>b, <3>1, EnqueueFrame
            <3>3. Inside' = (Inside \ lost) \cup {sent + 1}
                BY <3>1, <3>2 DEF Inside
            <3>4. lost \subseteq DroppedFor(renderQ)
                BY <3>1, <3>2 DEF Inside
            <3>5. \A f, g \in lost : f = g
                BY <3>2, <3>4
            <3> QED BY <3>1, <3>3, <3>5 DEF Channel!Next, Channel!Send
        <2> QED BY <1>1, <2>1, <2>2
    <1>2. CASE HandleVsync
        BY <1>2, <1>c, <1>d, CatchUpLoses DEF HandleVsync, renderVars
    <1>3. CASE DropPaced
        BY <1>3, <1>c, <1>d, CatchUpLoses DEF DropPaced, renderVars
    <1>4. CASE WaitForFrame
        BY <1>4, <1>d, ServeLoses DEF WaitForFrame, renderVars
    <1>5. CASE TakeFrame \/ RenderOnMainThread
        <2>1. rpc # "render" /\ UNCHANGED <<pacing, sent, shown>>
            BY <1>5 DEF TakeFrame, RenderOnMainThread
        <2>2. CASE UNCHANGED renderQ /\ rpc' # "render"
            BY <2>1, <2>2 DEF Inside
        <2>3. CASE renderQ # <<>> /\ rFrame' = Head(renderQ) /\ renderQ' = Tail(renderQ) /\ rpc' = "render"
            <3>1. Frames(renderQ) = {rFrame'} \cup Frames(renderQ')
                BY <1>b, <2>3, FramesTail
            <3> QED BY <2>1, <2>3, <3>1 DEF Inside
        <2> QED BY <1>5, <2>2, <2>3 DEF TakeFrame, RenderOnMainThread
    <1>6. CASE RenderFrame
        <2>1. /\ rpc = "render" /\ rpc' = "trim" /\ shown' = rFrame /\ rFrame # NoFrame
              /\ UNCHANGED <<pacing, renderQ, sent>>
            BY <1>6, <1>a DEF RenderFrame, HandInv
        <2>2. \A f \in Frames(renderQ) \cup Frames(pacing) : rFrame < f
            BY <1>a, <2>1, OrderFacts DEF InHand
        <2>3. Inside' = Inside \ {rFrame} /\ rFrame \in Inside /\ \A f \in Inside : rFrame <= f
            BY <1>b, <2>1, <2>2 DEF Inside
        <2> QED BY <2>1, <2>3 DEF Channel!Next, Channel!Deliver
    <1>7. CASE TrimRenderQueue \/ DropRendered
        <2>1. /\ rpc \in {"trim", "drop"} /\ UNCHANGED <<pacing, sent, shown>>
              /\ \E target \in 0..2 : CatchUpRendering(target)
            BY <1>7, <1>c DEF TrimRenderQueue, DropRendered
        <2>2. rpc' # "render" /\ Frames(renderQ') \subseteq Frames(renderQ)
            <3>1. CASE renderQ # <<>> /\ renderQ' = Tail(renderQ) /\ rpc' = "drop"
                BY <1>b, <3>1, FramesTail
            <3>2. CASE UNCHANGED renderQ /\ rpc' \in {"loop", "idle"}
                BY <3>2
            <3>3. renderQ = <<>> => Len(renderQ) = 0
                BY <1>b
            <3> QED BY <1>b, <2>1, <3>1, <3>2, <3>3 DEF CatchUpRendering
        <2>3. Inside' \subseteq Inside
            BY <2>1, <2>2 DEF Inside
        <2> QED BY <2>1, <2>3 DEF Channel!Next, Channel!Lose
    <1>8. CASE FreeRemaining
        <2>1. Frames(pacing') = {} /\ Frames(renderQ') = {} /\ UNCHANGED <<sent, shown, rFrame, rpc>>
            BY <1>8 DEF FreeRemaining, Frames, renderVars
        <2> QED BY <1>d, <2>1
    <1>9. CASE \/ SubmitWakePacing \/ SubmitWakeRender \/ SignalVsync \/ VsyncLoop \/ WaitForVsync
               \/ WaitForAsyncVsync \/ VsyncGuard \/ VsyncWakeRender \/ RenderLoop
               \/ CleanupRenderContext \/ Stop \/ JoinVsyncThread \/ JoinRenderThread
               \/ SpuriousWakeup \/ UNCHANGED vars
        <2>1. UNCHANGED <<pacing, renderQ, sent, shown, rFrame>> /\ (rpc' = "render" <=> rpc = "render")
            BY <1>9 DEF SubmitWakePacing, SubmitWakeRender, SignalVsync, VsyncLoop, WaitForVsync,
                        WaitForAsyncVsync, VsyncGuard, VsyncWakeRender, RenderLoop,
                        CleanupRenderContext, Stop, JoinVsyncThread, JoinRenderThread,
                        SpuriousWakeup, vars, vsyncVars, renderVars
        <2> QED BY <2>1 DEF Inside
    <1> QED BY <1>1, <1>2, <1>3, <1>4, <1>5, <1>6, <1>7, <1>8, <1>9
            DEF Next, Decoder, VsyncThread, Renderer, Destructor, Gone

\* The pacer implements the abstract channel: frames go in one by one and
\* come out in order, at most once, none after it was lost.
THEOREM ChannelImplemented == Spec => ImplementsChannel
    <1>1. Init => Channel!Init
        <2>1. Frames(<<>>) = {}
            BY DEF Frames
        <2> QED BY <2>1 DEF Init, Channel!Init, Inside, NoFrame
    <1> QED BY <1>1, ChannelStep, FrameInit, FrameStep, TypeInit, TypeStep, ControlInit,
               ControlStep, PTL
            DEF Spec, ImplementsChannel, Channel!Spec, Channel!channelVars

----------------------------------------------------------------------------
(* Main-thread rendering *)

\* Events and event pushes still to come.
Pushing(pc) == IF pc = "wakeRender" THEN 1 ELSE 0

LEMMA EventStep ==
    TypeInv /\ ControlInv /\ EveryFrameHasEvent /\ [Next]_vars => EveryFrameHasEvent'
    <1> SUFFICES ASSUME TypeInv, ControlInv, EveryFrameHasEvent, [Next]_vars, ~mode'.renderThread
                 PROVE  Len(renderQ') <= events' + Pushing(spc') + Pushing(vpc')
        BY DEF EveryFrameHasEvent, Pushing
    <1>a. mode' = mode
        BY DEF Next, Decoder, VsyncThread, Renderer, Destructor, Gone, SubmitForPacing,
               SubmitForRendering, SubmitWakePacing, SubmitWakeRender, SignalVsync, VsyncLoop,
               WaitForVsync, WaitForAsyncVsync, VsyncGuard, HandleVsync, DropPaced, WaitForFrame,
               VsyncWakeRender, RenderLoop, TakeFrame, RenderOnMainThread, RenderFrame,
               TrimRenderQueue, DropRendered, CleanupRenderContext, Stop, JoinVsyncThread,
               JoinRenderThread, FreeRemaining, SpuriousWakeup, vars
    <1>b. Len(renderQ) <= events + Pushing(spc) + Pushing(vpc)
        BY <1>a DEF EveryFrameHasEvent, Pushing
    <1>c. /\ pacing \in Seq(Nat) /\ renderQ \in Seq(Nat) /\ Len(renderQ) <= MAX_QUEUED_FRAMES
          /\ Len(renderQ) \in Nat /\ events \in Nat /\ sent + 1 \in Nat /\ Len(<<>>) = 0
          /\ RenderTarget \in 0..2 /\ rTarget \in 0..2
        BY DEF TypeInv, TypeOK, SurfacesBounded, RenderTarget
    <1>d. renderQ # <<>> => Len(Tail(renderQ)) = Len(renderQ) - 1
        BY <1>c, FramesTail
    <1>e. ASSUME NEW f \in Nat
          PROVE  Len(Enqueue(renderQ, f)) \in Nat /\ Len(Enqueue(renderQ, f)) <= Len(renderQ) + 1
        <2>1. renderQ \in Seq(Nat) /\ Len(renderQ) <= MAX_QUEUED_FRAMES
            BY <1>c
        <2>2. Enqueue(renderQ, f) \in Seq(Nat)
            BY <2>1, EnqueueFrame
        <2>3. Len(Enqueue(renderQ, f)) <= Len(renderQ) + 1
            BY <2>1, EnqueueFrame
        <2>4. Len(Enqueue(renderQ, f)) \in Nat
            BY <2>2, FramesType
        <2> QED BY <2>3, <2>4
    <1>1. CASE Decoder
        <2>1. CASE SubmitForPacing \/ SubmitWakePacing
            BY <2>1, <1>b DEF SubmitForPacing, SubmitWakePacing, Pushing, vsyncVars
        <2>2. CASE SubmitForRendering
            <3>1. /\ renderQ' = Enqueue(renderQ, sent + 1) /\ spc = "idle" /\ spc' = "wakeRender"
                  /\ UNCHANGED <<vpc, events>>
                BY <2>2 DEF SubmitForRendering, vsyncVars
            <3>2. Len(renderQ') \in Nat /\ Len(renderQ') <= Len(renderQ) + 1
                BY <1>c, <1>e, <3>1
            <3>3. Pushing(spc) = 0 /\ Pushing(spc') = 1 /\ Pushing(vpc') = Pushing(vpc)
                  /\ Pushing(vpc) \in {0, 1}
                BY <3>1 DEF Pushing
            <3> QED BY <1>b, <1>c, <3>1, <3>2, <3>3
        <2>3. CASE SubmitWakeRender
            <3>1. /\ spc = "wakeRender" /\ spc' = "idle" /\ events' = events + 1
                  /\ UNCHANGED <<vpc, renderQ>>
                BY <2>3, <1>a DEF SubmitWakeRender, NotifyRenderer, vsyncVars
            <3> QED BY <1>b, <1>c, <3>1 DEF Pushing
        <2> QED BY <1>1, <2>1, <2>2, <2>3 DEF Decoder
    <1>2. CASE HandleVsync \/ DropPaced \/ WaitForFrame
        <2>1. UNCHANGED <<spc, events>> /\ Pushing(vpc) = 0
            BY <1>2 DEF HandleVsync, DropPaced, WaitForFrame, Pushing
        <2>2. \/ UNCHANGED renderQ
              \/ /\ pacing # <<>> /\ vpc' = "wakeRender" /\ renderQ' = Enqueue(renderQ, Head(pacing))
            BY <1>2 DEF HandleVsync, DropPaced, WaitForFrame, CatchUpPacing, ServeVsync
        <2>3. pacing # <<>> => Head(pacing) \in Nat
            BY <1>c, FramesTail
        <2>4. CASE UNCHANGED renderQ
            BY <1>b, <1>c, <2>1, <2>4 DEF Pushing
        <2>5. CASE /\ pacing # <<>> /\ vpc' = "wakeRender"
                   /\ renderQ' = Enqueue(renderQ, Head(pacing))
            <3>1. Len(renderQ') \in Nat /\ Len(renderQ') <= Len(renderQ) + 1
                BY <1>e, <2>3, <2>5
            <3>2. Pushing(vpc') = 1 /\ Pushing(spc') = Pushing(spc) /\ Pushing(spc) \in {0, 1}
                BY <2>1, <2>5 DEF Pushing
            <3> QED BY <1>b, <1>c, <2>1, <3>1, <3>2
        <2> QED BY <2>2, <2>4, <2>5
    <1>3. CASE VsyncWakeRender
        <2>1. /\ vpc = "wakeRender" /\ vpc' = "loop" /\ events' = events + 1
              /\ UNCHANGED <<spc, renderQ>>
            BY <1>3, <1>a DEF VsyncWakeRender, NotifyRenderer
        <2> QED BY <1>b, <1>c, <2>1 DEF Pushing
    <1>4. CASE VsyncLoop \/ WaitForVsync \/ WaitForAsyncVsync \/ VsyncGuard
        <2>1. UNCHANGED <<spc, renderQ, events>> /\ Pushing(vpc) = 0
            BY <1>4 DEF VsyncLoop, WaitForVsync, WaitForAsyncVsync, VsyncGuard, Pushing
        <2> QED BY <1>b, <1>c, <2>1 DEF Pushing
    <1>5. CASE RenderOnMainThread
        <2>1. UNCHANGED <<spc, vpc>> /\ events > 0 /\ events' = events - 1
            BY <1>5 DEF RenderOnMainThread, vsyncVars
        <2>2. IF renderQ = <<>> THEN renderQ' = <<>> ELSE renderQ' = Tail(renderQ)
            BY <1>5 DEF RenderOnMainThread
        <2> QED BY <1>b, <1>c, <1>d, <2>1, <2>2 DEF Pushing
    <1>6. CASE TrimRenderQueue \/ DropRendered
        <2>1. UNCHANGED <<spc, vpc, events>>
            BY <1>6 DEF TrimRenderQueue, DropRendered, vsyncVars
        <2>2. PICK target \in 0..2 : CatchUpRendering(target)
            BY <1>6, <1>c DEF TrimRenderQueue, DropRendered
        <2>3. Len(renderQ) > target => renderQ # <<>>
            BY <1>c
        <2>4. renderQ' = renderQ \/ (renderQ # <<>> /\ renderQ' = Tail(renderQ))
            BY <2>2, <2>3 DEF CatchUpRendering
        <2> QED BY <1>b, <1>c, <1>d, <2>1, <2>4 DEF Pushing
    <1>7. CASE TakeFrame
        BY <1>7, <1>a DEF TakeFrame, ControlInv, RendererInv
    <1>8. CASE FreeRemaining
        BY <1>8, <1>b, <1>c DEF FreeRemaining, Pushing, vsyncVars
    <1>9. CASE \/ SignalVsync \/ RenderLoop \/ RenderFrame \/ CleanupRenderContext
               \/ Stop \/ JoinVsyncThread \/ JoinRenderThread \/ SpuriousWakeup \/ UNCHANGED vars
        <2>1. UNCHANGED <<spc, vpc, renderQ, events>>
            BY <1>9 DEF SignalVsync, RenderLoop, RenderFrame, CleanupRenderContext, Stop,
                        JoinVsyncThread, JoinRenderThread, SpuriousWakeup, vars, vsyncVars
        <2> QED BY <1>b, <2>1
    <1> QED BY <1>1, <1>2, <1>3, <1>4, <1>5, <1>6, <1>7, <1>8, <1>9
            DEF Next, VsyncThread, Renderer, Destructor, Gone

\* With main-thread rendering every queued frame has an event of its own
\* that will fetch it.
THEOREM EventsSuffice == Spec => []EveryFrameHasEvent
    <1>1. Init => EveryFrameHasEvent
        <2>1. Len(<<>>) = 0
            OBVIOUS
        <2> QED BY <2>1 DEF Init, EveryFrameHasEvent
    <1> QED BY <1>1, EventStep, TypeInit, TypeStep, ControlInit, ControlStep, PTL DEF Spec

----------------------------------------------------------------------------
(* The destructor: its joins end *)

\* How far a thread at this place is from its end, once the stop is seen.
VsyncPlace(place) ==
    IF place = "done" THEN 0 ELSE IF place \in {"loop", "guard"} THEN 1 ELSE 2

RenderPlace(place) ==
    CASE place \in {"idle", "done"} -> 0
      [] place = "cleanup" -> 1
      [] place \in {"loop", "take"} -> 2
      [] place \in {"trim", "drop"} -> 3
      [] OTHER -> 4

\* The steps each thread takes at most after the stop: the frames of the queue
\* it may still drop one by one, and the way from its place to its end.
VsyncStepsLeft == VsyncPlace(vpc) + Len(pacing)
RenderStepsLeft == RenderPlace(rpc) + Len(renderQ)

\* The steps of the destructor after the stop.
JoinsLeft ==
    IF dpc = "joinVsync" THEN 3 ELSE IF dpc = "joinRender" THEN 2
    ELSE IF dpc = "free" THEN 1 ELSE 0

\* Nobody sleeps once the destructor fired; a V-sync thread that has not ended
\* has a source, the render thread is at a place of its own, and the main
\* thread, which runs the destructor, is not rendering.
JoinsAttended ==
    dpc # "none" =>
        /\ asleep = {}
        /\ vpc # "done" => mode.source # "none"
        /\ mode.renderThread <=> rpc # "idle"

\* After the stop every step of a thread takes that thread nearer to its end,
\* and no step takes another thread or the destructor further away.
JoinsNearer ==
    dpc # "none" =>
        /\ VsyncStepsLeft' <= VsyncStepsLeft
        /\ RenderStepsLeft' <= RenderStepsLeft
        /\ JoinsLeft' <= JoinsLeft
        /\ VsyncThread => VsyncStepsLeft' < VsyncStepsLeft
        /\ Renderer => RenderStepsLeft' < RenderStepsLeft
        /\ Destructor => JoinsLeft' < JoinsLeft

\* The ranks are natural numbers.
LEMMA StepsLeftType ==
    ASSUME TypeOK
    PROVE  /\ Len(pacing) \in Nat /\ VsyncPlace(vpc) \in Nat /\ VsyncStepsLeft \in Nat
           /\ Len(renderQ) \in Nat /\ RenderPlace(rpc) \in Nat /\ RenderStepsLeft \in Nat
           /\ JoinsLeft \in Nat
    <1>1. Len(pacing) \in Nat /\ Len(renderQ) \in Nat
        BY FramesType DEF TypeOK
    <1>2. VsyncPlace(vpc) \in Nat /\ RenderPlace(rpc) \in Nat
        BY DEF VsyncPlace, RenderPlace
    <1>3. JoinsLeft \in Nat
        BY DEF JoinsLeft
    <1> QED BY <1>1, <1>2, <1>3 DEF VsyncStepsLeft, RenderStepsLeft

\* handleVsync() after the stop frees the frames it is behind, one by one
\* outside the lock, and returns without another.
LEMMA CatchUpStops ==
    ASSUME TypeInv, stopping, NEW target \in 0..3, NEW released,
           CatchUpPacing(target, released)
    PROVE  \/ vpc' = "drop" /\ pacing # <<>> /\ pacing' = Tail(pacing)
           \/ vpc' = "loop" /\ pacing' = pacing
    <1>1. CASE Len(pacing) > target /\ vpc' = "drop" /\ pacing' = Tail(pacing)
        <2>1. pacing # <<>>
            BY <1>1, FramesType DEF TypeInv, TypeOK
        <2> QED BY <1>1, <2>1
    <1>2. ASSUME NEW expired \in BOOLEAN, ServeVsync(released, expired)
          PROVE  vpc' = "loop" /\ pacing' = pacing
        BY <1>2 DEF ServeVsync, GiveUp
    <1> QED BY <1>1, <1>2 DEF CatchUpPacing

\* A step of the V-sync thread after the stop.
LEMMA VsyncNearer ==
    ASSUME TypeInv, TypeInv', ControlInv, dpc # "none", VsyncThread
    PROVE  VsyncStepsLeft' < VsyncStepsLeft /\ rpc' = rpc /\ dpc' = dpc
    <1>0. /\ pacing \in Seq(Nat) /\ Len(pacing) \in Nat /\ stopping /\ vTarget \in 0..3
          /\ PacingTarget \in 0..3
        BY DEF TypeInv, TypeOK, ControlInv, DestructorInv, PacingTarget
    <1>a. rpc' = rpc /\ dpc' = dpc
        BY DEF VsyncThread, VsyncLoop, WaitForVsync, WaitForAsyncVsync, VsyncGuard, HandleVsync,
               DropPaced, WaitForFrame, VsyncWakeRender, renderVars
    <1> SUFFICES VsyncStepsLeft' < VsyncStepsLeft
        BY <1>a
    <1>b. /\ VsyncStepsLeft = VsyncPlace(vpc) + Len(pacing)
          /\ VsyncStepsLeft' = VsyncPlace(vpc') + Len(pacing')
        BY DEF VsyncStepsLeft
    <1>1. ASSUME pacing' = pacing, VsyncPlace(vpc') \in Nat, VsyncPlace(vpc) \in Nat,
                 VsyncPlace(vpc') < VsyncPlace(vpc)
          PROVE  VsyncStepsLeft' < VsyncStepsLeft
        BY <1>0, <1>1, <1>b
    <1>2. CASE VsyncLoop \/ VsyncGuard
        <2>1. pacing' = pacing /\ vpc \in {"loop", "guard"} /\ vpc' = "done"
            BY <1>0, <1>2 DEF VsyncLoop, VsyncGuard
        <2>2. VsyncPlace(vpc) = 1 /\ VsyncPlace(vpc') = 0
            BY <2>1 DEF VsyncPlace
        <2> QED BY <1>1, <2>1, <2>2
    <1>3. CASE WaitForVsync \/ WaitForAsyncVsync
        <2>1. pacing' = pacing /\ vpc = "waitVsync" /\ vpc' = "guard"
            BY <1>0, <1>3 DEF WaitForVsync, WaitForAsyncVsync
        <2>2. VsyncPlace(vpc) = 2 /\ VsyncPlace(vpc') = 1
            BY <2>1 DEF VsyncPlace
        <2> QED BY <1>1, <2>1, <2>2
    <1>4. CASE WaitForFrame \/ VsyncWakeRender
        <2>1. pacing' = pacing /\ vpc \in {"waitFrame", "wakeRender"} /\ vpc' = "loop"
            BY <1>0, <1>4 DEF WaitForFrame, ServeVsync, GiveUp, VsyncWakeRender
        <2>2. VsyncPlace(vpc) = 2 /\ VsyncPlace(vpc') = 1
            BY <2>1 DEF VsyncPlace
        <2> QED BY <1>1, <2>1, <2>2
    <1>5. CASE HandleVsync \/ DropPaced
        <2>1. vpc \in {"handle", "drop"}
            BY <1>5 DEF HandleVsync, DropPaced
        <2>2. \/ vpc' = "drop" /\ pacing # <<>> /\ pacing' = Tail(pacing)
              \/ vpc' = "loop" /\ pacing' = pacing
            <3>1. CASE HandleVsync
                BY <1>0, <3>1, CatchUpStops DEF HandleVsync
            <3>2. CASE DropPaced
                BY <1>0, <3>2, CatchUpStops DEF DropPaced
            <3> QED BY <1>5, <3>1, <3>2
        <2>3. VsyncPlace(vpc) = 2
            BY <2>1 DEF VsyncPlace
        <2>4. CASE vpc' = "drop" /\ pacing # <<>> /\ pacing' = Tail(pacing)
            <3>1. VsyncPlace(vpc') = 2
                BY <2>4 DEF VsyncPlace
            <3>2. Len(pacing') = Len(pacing) - 1
                BY <1>0, <2>4, FramesTail
            <3> QED BY <1>0, <1>b, <2>3, <3>1, <3>2
        <2>5. CASE vpc' = "loop" /\ pacing' = pacing
            <3>1. VsyncPlace(vpc') = 1
                BY <2>5 DEF VsyncPlace
            <3> QED BY <1>1, <2>3, <2>5, <3>1
        <2> QED BY <2>2, <2>4, <2>5
    <1> QED BY <1>2, <1>3, <1>4, <1>5 DEF VsyncThread

\* A step of the render thread after the stop; the main thread takes none.
LEMMA RendererNearer ==
    ASSUME TypeInv, TypeInv', ControlInv, dpc # "none", Renderer
    PROVE  RenderStepsLeft' < RenderStepsLeft /\ vpc' = vpc /\ pacing' = pacing /\ dpc' = dpc
    <1>0. /\ renderQ \in Seq(Nat) /\ Len(renderQ) \in Nat /\ stopping /\ rTarget \in 0..2
          /\ RenderTarget \in 0..2 /\ (~mode.renderThread => rpc = "idle")
        BY DEF TypeInv, TypeOK, ControlInv, DestructorInv, RenderTarget
    <1>a. vpc' = vpc /\ pacing' = pacing /\ dpc' = dpc
        BY DEF Renderer, RenderLoop, TakeFrame, RenderOnMainThread, RenderFrame, TrimRenderQueue,
               DropRendered, CleanupRenderContext, vsyncVars
    <1> SUFFICES RenderStepsLeft' < RenderStepsLeft
        BY <1>a
    <1>b. /\ RenderStepsLeft = RenderPlace(rpc) + Len(renderQ)
          /\ RenderStepsLeft' = RenderPlace(rpc') + Len(renderQ')
        BY DEF RenderStepsLeft
    <1>1. ASSUME renderQ' = renderQ, RenderPlace(rpc') \in Nat, RenderPlace(rpc) \in Nat,
                 RenderPlace(rpc') < RenderPlace(rpc)
          PROVE  RenderStepsLeft' < RenderStepsLeft
        BY <1>0, <1>1, <1>b
    <1>2. CASE RenderLoop \/ TakeFrame
        <2>1. renderQ' = renderQ /\ rpc \in {"loop", "take"} /\ rpc' = "cleanup"
            BY <1>0, <1>2 DEF RenderLoop, TakeFrame
        <2>2. RenderPlace(rpc) = 2 /\ RenderPlace(rpc') = 1
            BY <2>1 DEF RenderPlace
        <2> QED BY <1>1, <2>1, <2>2
    <1>3. CASE RenderFrame
        <2>1. renderQ' = renderQ /\ rpc = "render" /\ rpc' = "trim"
            BY <1>3 DEF RenderFrame
        <2>2. RenderPlace(rpc) = 4 /\ RenderPlace(rpc') = 3
            BY <2>1 DEF RenderPlace
        <2> QED BY <1>1, <2>1, <2>2
    <1>4. CASE CleanupRenderContext
        <2>1. renderQ' = renderQ /\ rpc = "cleanup" /\ rpc' = "done"
            BY <1>4 DEF CleanupRenderContext
        <2>2. RenderPlace(rpc) = 1 /\ RenderPlace(rpc') = 0
            BY <2>1 DEF RenderPlace
        <2> QED BY <1>1, <2>1, <2>2
    <1>5. CASE TrimRenderQueue \/ DropRendered
        <2>1. rpc \in {"trim", "drop"}
            BY <1>5 DEF TrimRenderQueue, DropRendered
        <2>2. PICK target \in 0..2 : CatchUpRendering(target)
            BY <1>0, <1>5 DEF TrimRenderQueue, DropRendered
        <2>3. RenderPlace(rpc) = 3 /\ mode.renderThread
            BY <1>0, <2>1 DEF RenderPlace
        <2>4. CASE Len(renderQ) > target
            <3>1. rpc' = "drop" /\ renderQ' = Tail(renderQ) /\ renderQ # <<>>
                BY <1>0, <2>2, <2>4, FramesType DEF CatchUpRendering
            <3>2. RenderPlace(rpc') = 3 /\ Len(renderQ') = Len(renderQ) - 1
                BY <1>0, <3>1, FramesTail DEF RenderPlace
            <3> QED BY <1>0, <1>b, <2>3, <3>2
        <2>5. CASE ~(Len(renderQ) > target)
            <3>1. rpc' = "loop" /\ renderQ' = renderQ
                BY <2>2, <2>3, <2>5 DEF CatchUpRendering
            <3>2. RenderPlace(rpc') = 2
                BY <3>1 DEF RenderPlace
            <3> QED BY <1>1, <2>3, <3>1, <3>2
        <2> QED BY <2>4, <2>5
    <1>6. CASE RenderOnMainThread
        BY <1>6 DEF RenderOnMainThread
    <1> QED BY <1>2, <1>3, <1>4, <1>5, <1>6 DEF Renderer

\* A step of the destructor after the stop.
LEMMA DestructorNearer ==
    ASSUME TypeInv, dpc # "none", Destructor
    PROVE  /\ JoinsLeft' < JoinsLeft
           /\ VsyncStepsLeft' <= VsyncStepsLeft /\ RenderStepsLeft' <= RenderStepsLeft
    <1>0. VsyncStepsLeft \in Nat /\ RenderStepsLeft \in Nat /\ Len(<<>>) = 0
          /\ VsyncPlace(vpc) \in Nat /\ RenderPlace(rpc) \in Nat
          /\ Len(pacing) \in Nat /\ Len(renderQ) \in Nat
        BY StepsLeftType DEF TypeInv
    <1>1. vpc' = vpc /\ rpc' = rpc /\ (UNCHANGED <<pacing, renderQ>> \/ (pacing' = <<>> /\ renderQ' = <<>>))
        BY DEF Destructor, Stop, JoinVsyncThread, JoinRenderThread, FreeRemaining, vsyncVars, renderVars
    <1>2. VsyncStepsLeft' <= VsyncStepsLeft /\ RenderStepsLeft' <= RenderStepsLeft
        BY <1>0, <1>1 DEF VsyncStepsLeft, RenderStepsLeft
    <1>3. JoinsLeft' < JoinsLeft
        <2>1. \/ dpc = "joinVsync" /\ dpc' = "joinRender"
              \/ dpc = "joinRender" /\ dpc' = "free"
              \/ dpc = "free" /\ dpc' = "done"
            BY DEF Destructor, Stop, JoinVsyncThread, JoinRenderThread, FreeRemaining
        <2>2. \/ JoinsLeft = 3 /\ JoinsLeft' = 2
              \/ JoinsLeft = 2 /\ JoinsLeft' = 1
              \/ JoinsLeft = 1 /\ JoinsLeft' = 0
            BY <2>1 DEF JoinsLeft
        <2> QED BY <2>2
    <1> QED BY <1>2, <1>3

LEMMA JoinsNearerStep ==
    TypeInv /\ TypeInv' /\ ControlInv /\ [Next]_vars /\ [stopping => Len(renderQ') <= Len(renderQ)]_vars
        => [JoinsNearer]_vars
    <1> SUFFICES ASSUME TypeInv, TypeInv', ControlInv, Next, dpc # "none",
                        Len(renderQ') <= Len(renderQ)
                 PROVE  JoinsNearer
        BY DEF JoinsNearer, ControlInv, DestructorInv
    <1>0. /\ VsyncStepsLeft \in Nat /\ RenderStepsLeft \in Nat /\ JoinsLeft \in Nat
          /\ RenderPlace(rpc) \in Nat /\ Len(renderQ) \in Nat
        BY StepsLeftType DEF TypeInv
    <1>n. /\ Len(pacing') \in Nat /\ Len(renderQ') \in Nat
          /\ VsyncStepsLeft' \in Nat /\ RenderStepsLeft' \in Nat /\ JoinsLeft' \in Nat
        <2>1. Len(pacing') \in Nat /\ Len(renderQ') \in Nat
            BY FramesType DEF TypeInv, TypeOK
        <2>2. VsyncPlace(vpc)' \in Nat /\ RenderPlace(rpc)' \in Nat
            BY DEF VsyncPlace, RenderPlace
        <2>3. JoinsLeft' \in Nat
            BY DEF JoinsLeft
        <2> QED BY <2>1, <2>2, <2>3 DEF VsyncStepsLeft, RenderStepsLeft
    <1>v. vpc' = vpc /\ pacing' = pacing => VsyncStepsLeft' = VsyncStepsLeft
        BY DEF VsyncStepsLeft
    <1>r. rpc' = rpc => RenderStepsLeft' <= RenderStepsLeft
        <2>1. rpc' = rpc => RenderStepsLeft' = RenderPlace(rpc) + Len(renderQ')
            BY DEF RenderStepsLeft
        <2> QED BY <1>0, <2>1 DEF RenderStepsLeft
    <1>d. dpc' = dpc => JoinsLeft' = JoinsLeft
        BY DEF JoinsLeft
    <1>1. VsyncThread => /\ VsyncStepsLeft' < VsyncStepsLeft
                         /\ RenderStepsLeft' <= RenderStepsLeft /\ JoinsLeft' = JoinsLeft
        BY VsyncNearer, <1>r, <1>d
    <1>2. Renderer => /\ RenderStepsLeft' < RenderStepsLeft
                      /\ VsyncStepsLeft' = VsyncStepsLeft /\ JoinsLeft' = JoinsLeft
        BY RendererNearer, <1>v, <1>d
    <1>3. Destructor => /\ JoinsLeft' < JoinsLeft
                        /\ VsyncStepsLeft' <= VsyncStepsLeft /\ RenderStepsLeft' <= RenderStepsLeft
        BY DestructorNearer
    <1>4. ASSUME Decoder \/ SignalVsync \/ SpuriousWakeup \/ Gone
          PROVE  /\ VsyncStepsLeft' = VsyncStepsLeft /\ RenderStepsLeft' <= RenderStepsLeft
                 /\ JoinsLeft' = JoinsLeft
        <2>1. vpc' = vpc /\ pacing' = pacing /\ rpc' = rpc /\ dpc' = dpc
            BY <1>4 DEF Decoder, SubmitForPacing, SubmitForRendering, SubmitWakePacing,
                        SubmitWakeRender, SignalVsync, SpuriousWakeup, Gone, vars, vsyncVars,
                        renderVars
        <2> QED BY <2>1, <1>v, <1>r, <1>d
    <1>5. /\ VsyncThread => VsyncStepsLeft' < VsyncStepsLeft
          /\ Renderer => RenderStepsLeft' < RenderStepsLeft
          /\ Destructor => JoinsLeft' < JoinsLeft
        BY <1>1, <1>2, <1>3
    <1>6. VsyncThread \/ Renderer \/ Destructor \/ (Decoder \/ SignalVsync \/ SpuriousWakeup \/ Gone)
        BY DEF Next
    <1>7. /\ VsyncStepsLeft' <= VsyncStepsLeft /\ RenderStepsLeft' <= RenderStepsLeft
          /\ JoinsLeft' <= JoinsLeft
        BY <1>0, <1>n, <1>1, <1>2, <1>3, <1>4, <1>6
    <1> QED BY <1>5, <1>7 DEF JoinsNearer

\* The safety half of DestructorReturns.  Once the destructor fired nobody sleeps,
\* whoever it joins takes a bounded number of steps to its end, the frames of its
\* queue one by one, and nothing that the decoder, a V-sync source or the other
\* threads do adds to them (~Pacer, vsyncThread, renderThread, handleVsync).
THEOREM JoinsCountDown == Spec => []JoinsAttended /\ [][JoinsNearer]_vars
    <1>1. TypeInv /\ ControlInv /\ NoLostWakeup => JoinsAttended
        BY DEF TypeInv, TypeOK, ControlInv, DestructorInv, SourceInv, RendererInv, NoLostWakeup,
               JoinsAttended
    <1> QED BY <1>1, TypeInit, TypeStep, ControlInit, ControlStep, WakeupsKept,
               NothingHandedOffAfterStop, JoinsNearerStep, PTL DEF Spec, NoHandOffAfterStop

=============================================================================
