------------------------------- MODULE Pacer -------------------------------
(***************************************************************************)
(* The frame pacer between the video decoder and the renderer:             *)
(* app/streaming/video/ffmpeg-renderers/pacer/pacer.cpp.                   *)
(*                                                                         *)
(* Five actors share one mutex, m_FrameQueueLock, and three condition      *)
(* variables: the decoder thread (submitFrame), the V-sync source          *)
(* (signalVsync), the V-sync thread, the renderer (a thread of its own, or *)
(* the main thread driven by SDL_CODE_FRAME_READY events) and the          *)
(* destructor.  One action is one critical section, or one step taken      *)
(* without the lock whose order against the others matters: a wakeOne()    *)
(* after the unlock, a read of the atomic m_Stopping, rendering a frame.   *)
(*                                                                         *)
(* Frames are numbered in submission order; frame 0 is "no frame".         *)
(***************************************************************************)
EXTENDS Integers, Sequences

CONSTANTS
    MAX_QUEUED_FRAMES,  \* capacity of each of the two queues
    DisplayFps,         \* refresh rate of the display
    MaxVideoFps,        \* frame rate of the stream
    NumFrames           \* bound: frames the decoder submits in a behaviour

ASSUME PacerAssumption ==
    /\ MAX_QUEUED_FRAMES \in Nat \ {0}
    /\ DisplayFps \in Nat /\ DisplayFps >= 2
    /\ MaxVideoFps \in Nat /\ MaxVideoFps >= 2
    /\ NumFrames \in Nat

VARIABLES
    mode,           \* what initialize() found out; never changes
    sent,           \* frames submitted so far
    spc,            \* decoder thread: "idle", or about to wake a consumer
    pacing,         \* m_PacingQueue
    renderQ,        \* m_RenderQueue
    pacingHistory,  \* m_PacingQueueHistory
    renderHistory,  \* m_RenderQueueHistory
    stopping,       \* m_Stopping
    vsyncPending,   \* m_VsyncPending
    asleep,         \* condition variables that have a (single) waiter
    vpc,            \* V-sync thread
    vTarget,        \* its frameDropTarget
    vFrame,         \* the frame it frees outside the lock
    rpc,            \* renderer: render thread, or main thread
    rTarget,        \* its frameDropTarget
    rFrame,         \* the frame it renders or frees outside the lock
    events,         \* SDL_CODE_FRAME_READY events not yet handled
    shown,          \* the last frame passed to renderFrame()
    freed,          \* frames passed to av_frame_free()
    cleaned,        \* cleanupRenderContext() was called
    dpc             \* destructor

vars == <<mode, sent, spc, pacing, renderQ, pacingHistory, renderHistory,
          stopping, vsyncPending, asleep, vpc, vTarget, vFrame, rpc, rTarget,
          rFrame, events, shown, freed, cleaned, dpc>>

vsyncVars   == <<vsyncPending, vpc, vTarget, vFrame, pacingHistory>>
renderVars  == <<rpc, rTarget, rFrame, renderHistory, shown, cleaned>>

NoFrame    == 0
Conditions == {"VsyncSignalled", "PacingQueueNotEmpty", "RenderQueueNotEmpty"}
Modes      == [source : {"none", "sync", "async"},  \* m_VsyncSource
               renderThread : BOOLEAN,              \* m_RenderThread
               noBuffering : BOOLEAN]               \* RENDERER_ATTRIBUTE_NO_BUFFERING

----------------------------------------------------------------------------
(* Helpers *)

\* The frames of a queue.
Frames(q) == {q[i] : i \in 1..Len(q)}

\* A 500 ms rolling window of queue lengths, q being the queue sampled.
Sample(history, window, q) ==
    Append(IF Len(history) = window THEN Tail(history) ELSE history, Len(q))

Entries(history) == Frames(history)

\* Definitions called Bad... are plausible bugs in the definition after
\* them; the mutants of PROJECT.json show which property each one breaks.
\* Bugs: the dropped frame is not freed; the queue is filled from the wrong end.
BadDroppedFor(q)     == {}
BadEnqueue(q, f)     == <<f>> \o (IF Len(q) = MAX_QUEUED_FRAMES THEN Tail(q) ELSE q)

\* dropFrameForEnqueue(): the oldest frame leaves a full queue.
DropForEnqueue(q) == IF Len(q) = MAX_QUEUED_FRAMES THEN Tail(q) ELSE q
DroppedFor(q)     == IF Len(q) = MAX_QUEUED_FRAMES THEN {Head(q)} ELSE {}
Enqueue(q, f)     == Append(DropForEnqueue(q), f)

\* frameDropTarget of handleVsync(), from the history before this V-sync.
PacingTarget ==
    IF MaxVideoFps >= DisplayFps /\ \E n \in Entries(pacingHistory) : n <= 1
    THEN 3 ELSE 1

\* frameDropTarget of renderFrame().
RenderTarget ==
    IF mode.noBuffering THEN 1
    ELSE IF \E n \in Entries(renderHistory) : n = 0 THEN 2 ELSE 0

\* Bug: the destructor forgets the render thread.
BadWakeAll == asleep \ {"VsyncSignalled", "PacingQueueNotEmpty"}

\* wakeOne() of a condition variable, and the destructor's three wakeAll().
Wake(condition) == asleep \ {condition}
WakeAll         == {}

\* Bug: an event is pushed only when none is pending.
BadNotifyRenderer ==
    IF mode.renderThread
    THEN asleep' = Wake("RenderQueueNotEmpty") /\ UNCHANGED events
    ELSE events' = 1 /\ UNCHANGED asleep

\* The tail of enqueueFrameForRenderingAndUnlock(), after the unlock.
NotifyRenderer ==
    IF mode.renderThread
    THEN asleep' = Wake("RenderQueueNotEmpty") /\ UNCHANGED events
    ELSE events' = events + 1 /\ UNCHANGED asleep

----------------------------------------------------------------------------
(* Constructor and initialize(): no frame, threads at the head of loops. *)
Init ==
    /\ mode \in Modes
    /\ sent = 0 /\ spc = "idle"
    /\ pacing = <<>> /\ renderQ = <<>>
    /\ pacingHistory = <<>> /\ renderHistory = <<>>
    /\ stopping = FALSE /\ vsyncPending = FALSE
    /\ asleep = {}
    /\ vpc = IF mode.source = "none" THEN "done" ELSE "loop"
    /\ vTarget = 0 /\ vFrame = NoFrame
    /\ rpc = IF mode.renderThread THEN "loop" ELSE "idle"
    /\ rTarget = 0 /\ rFrame = NoFrame
    /\ events = 0 /\ shown = NoFrame /\ freed = {} /\ cleaned = FALSE
    /\ dpc = "none"

----------------------------------------------------------------------------
(* Decoder thread: submitFrame() *)

SubmitForPacing ==
    /\ spc = "idle" /\ dpc = "none" /\ sent < NumFrames
    /\ mode.source # "none"
    /\ sent' = sent + 1
    /\ pacing' = Enqueue(pacing, sent + 1)
    /\ freed' = freed \cup DroppedFor(pacing)
    /\ spc' = "wakePacing"
    /\ UNCHANGED <<mode, renderQ, stopping, asleep, events, dpc, vsyncVars, renderVars>>

SubmitForRendering ==
    /\ spc = "idle" /\ dpc = "none" /\ sent < NumFrames
    /\ mode.source = "none"
    /\ sent' = sent + 1
    /\ renderQ' = Enqueue(renderQ, sent + 1)
    /\ freed' = freed \cup DroppedFor(renderQ)
    /\ spc' = "wakeRender"
    /\ UNCHANGED <<mode, pacing, stopping, asleep, events, dpc, vsyncVars, renderVars>>

SubmitWakePacing ==
    /\ spc = "wakePacing"
    /\ spc' = "idle"
    /\ asleep' = Wake("PacingQueueNotEmpty")
    /\ UNCHANGED <<mode, sent, pacing, renderQ, stopping, events, freed, dpc,
                   vsyncVars, renderVars>>

SubmitWakeRender ==
    /\ spc = "wakeRender"
    /\ spc' = "idle"
    /\ NotifyRenderer
    /\ UNCHANGED <<mode, sent, pacing, renderQ, stopping, freed, dpc,
                   vsyncVars, renderVars>>

----------------------------------------------------------------------------
(* V-sync source and V-sync thread *)

\* signalVsync(), called by an asynchronous source until it is deleted.
SignalVsync ==
    /\ mode.source = "async" /\ dpc \in {"none", "joinVsync"}
    /\ vsyncPending' = TRUE
    /\ asleep' = Wake("VsyncSignalled")
    /\ UNCHANGED <<mode, sent, spc, pacing, renderQ, stopping, events, freed, dpc,
                   vpc, vTarget, vFrame, pacingHistory, renderVars>>

\* while (!m_Stopping)
VsyncLoop ==
    /\ vpc = "loop"
    /\ vpc' = IF stopping THEN "done" ELSE "waitVsync"
    /\ UNCHANGED <<mode, sent, spc, pacing, renderQ, stopping, asleep, events, freed,
                   dpc, vsyncPending, vTarget, vFrame, pacingHistory, renderVars>>

\* A synchronous source waits in the V-sync thread and returns.
WaitForVsync ==
    /\ vpc = "waitVsync" /\ mode.source = "sync"
    /\ vpc' = "guard"
    /\ UNCHANGED <<mode, sent, spc, pacing, renderQ, stopping, asleep, events, freed,
                   dpc, vsyncPending, vTarget, vFrame, pacingHistory, renderVars>>

\* waitForAsyncVsync(): consume the pending signal, give up, or go to sleep.
\* The wait ends when the thread was woken or its 100 ms deadline expired.
WaitForAsyncVsync ==
    /\ vpc = "waitVsync" /\ mode.source = "async"
    /\ \E expired \in BOOLEAN :
        /\ expired \/ "VsyncSignalled" \notin asleep
        /\ IF vsyncPending \/ stopping \/ expired
           THEN /\ vpc' = "guard"
                /\ vsyncPending' = FALSE
                /\ asleep' = Wake("VsyncSignalled")
           ELSE /\ asleep' = asleep \cup {"VsyncSignalled"}
                /\ UNCHANGED <<vpc, vsyncPending>>
    /\ UNCHANGED <<mode, sent, spc, pacing, renderQ, stopping, events, freed, dpc,
                   vTarget, vFrame, pacingHistory, renderVars>>

\* The stopping check between the wait and handleVsync().
VsyncGuard ==
    /\ vpc = "guard"
    /\ vpc' = IF stopping THEN "done" ELSE "handle"
    /\ UNCHANGED <<mode, sent, spc, pacing, renderQ, stopping, asleep, events, freed,
                   dpc, vsyncPending, vTarget, vFrame, pacingHistory, renderVars>>

\* handleVsync() returns without a frame: stop, or deadline and no frame.
GiveUp(expired) == stopping \/ (pacing = <<>> /\ expired)

\* handleVsync() from the stopping guard on, lock held: return, wait for a
\* frame, or hand the first frame to the render queue.  released is the
\* frame freed just before the lock was taken again, if any.
ServeVsync(released, expired) ==
    /\ vFrame' = NoFrame
    /\ \/ /\ GiveUp(expired)
          /\ vpc' = "loop"
          /\ asleep' = Wake("PacingQueueNotEmpty")
          /\ freed' = freed \cup released
          /\ UNCHANGED <<pacing, renderQ>>
       \/ /\ ~GiveUp(expired) /\ pacing = <<>>
          /\ vpc' = "waitFrame"
          /\ asleep' = asleep \cup {"PacingQueueNotEmpty"}
          /\ freed' = freed \cup released
          /\ UNCHANGED <<pacing, renderQ>>
       \/ /\ ~GiveUp(expired) /\ pacing # <<>>
          /\ vpc' = "wakeRender"
          /\ asleep' = Wake("PacingQueueNotEmpty")
          /\ pacing' = Tail(pacing)
          /\ renderQ' = Enqueue(renderQ, Head(pacing))
          /\ freed' = freed \cup released \cup DroppedFor(renderQ)

\* The catch-up loop, lock held, and what follows it.
CatchUpPacing(target, released) ==
    \/ /\ Len(pacing) > target
       /\ vpc' = "drop"
       /\ vFrame' = Head(pacing)
       /\ pacing' = Tail(pacing)
       /\ freed' = freed \cup released
       /\ UNCHANGED <<renderQ, asleep>>
    \/ /\ Len(pacing) <= target
       /\ \E expired \in BOOLEAN : ServeVsync(released, expired)

HandleVsync ==
    /\ vpc = "handle"
    /\ vTarget' = PacingTarget
    /\ pacingHistory' = IF MaxVideoFps >= DisplayFps
                        THEN Sample(pacingHistory, DisplayFps \div 2, pacing)
                        ELSE pacingHistory
    /\ CatchUpPacing(PacingTarget, {})
    /\ UNCHANGED <<mode, sent, spc, stopping, events, dpc, vsyncPending, renderVars>>

\* Free the dropped frame without the lock, take it again, go on.
DropPaced ==
    /\ vpc = "drop"
    /\ CatchUpPacing(vTarget, {vFrame})
    /\ UNCHANGED <<mode, sent, spc, stopping, events, dpc, vsyncPending, vTarget,
                   pacingHistory, renderVars>>

\* The wait for a frame ends by a wakeup or by its deadline.
WaitForFrame ==
    /\ vpc = "waitFrame"
    /\ \E expired \in BOOLEAN :
        /\ expired \/ "PacingQueueNotEmpty" \notin asleep
        /\ ServeVsync({}, expired)
    /\ UNCHANGED <<mode, sent, spc, stopping, events, dpc, vsyncPending, vTarget,
                   pacingHistory, renderVars>>

VsyncWakeRender ==
    /\ vpc = "wakeRender"
    /\ vpc' = "loop"
    /\ NotifyRenderer
    /\ UNCHANGED <<mode, sent, spc, pacing, renderQ, stopping, freed, dpc,
                   vsyncPending, vTarget, vFrame, pacingHistory, renderVars>>

----------------------------------------------------------------------------
(* Renderer *)

\* while (!m_Stopping), then the renderer's waitToRender().
RenderLoop ==
    /\ rpc = "loop"
    /\ rpc' = IF stopping THEN "cleanup" ELSE "take"
    /\ UNCHANGED <<mode, sent, spc, pacing, renderQ, stopping, asleep, events, freed,
                   dpc, vsyncVars, rTarget, rFrame, renderHistory, shown, cleaned>>

\* The render thread waits for a frame, takes one or sees the stop.
TakeFrame ==
    /\ rpc = "take" /\ "RenderQueueNotEmpty" \notin asleep
    /\ \/ /\ stopping
          /\ rpc' = "cleanup"
          /\ UNCHANGED <<asleep, renderQ, rFrame>>
       \/ /\ ~stopping /\ renderQ = <<>>
          /\ asleep' = asleep \cup {"RenderQueueNotEmpty"}
          /\ UNCHANGED <<rpc, renderQ, rFrame>>
       \/ /\ ~stopping /\ renderQ # <<>>
          /\ rpc' = "render"
          /\ rFrame' = Head(renderQ)
          /\ renderQ' = Tail(renderQ)
          /\ UNCHANGED asleep
    /\ UNCHANGED <<mode, sent, spc, pacing, stopping, events, freed, dpc, vsyncVars,
                   rTarget, renderHistory, shown, cleaned>>

\* renderOnMainThread(), called for one SDL_CODE_FRAME_READY event.
RenderOnMainThread ==
    /\ rpc = "idle" /\ dpc = "none" /\ events > 0
    /\ events' = events - 1
    /\ IF renderQ = <<>>
       THEN UNCHANGED <<rpc, rFrame, renderQ>>
       ELSE /\ rpc' = "render"
            /\ rFrame' = Head(renderQ)
            /\ renderQ' = Tail(renderQ)
    /\ UNCHANGED <<mode, sent, spc, pacing, stopping, asleep, freed, dpc, vsyncVars,
                   rTarget, renderHistory, shown, cleaned>>

\* renderFrame() up to the lock: show the frame and free it.
RenderFrame ==
    /\ rpc = "render"
    /\ shown' = rFrame
    /\ freed' = freed \cup {rFrame}
    /\ rFrame' = NoFrame
    /\ rpc' = "trim"
    /\ UNCHANGED <<mode, sent, spc, pacing, renderQ, stopping, asleep, events, dpc,
                   vsyncVars, rTarget, renderHistory, cleaned>>

\* The catch-up loop of renderFrame(), lock held.
CatchUpRendering(target) ==
    IF Len(renderQ) > target
    THEN /\ rpc' = "drop"
         /\ rFrame' = Head(renderQ)
         /\ renderQ' = Tail(renderQ)
    ELSE /\ rpc' = IF mode.renderThread THEN "loop" ELSE "idle"
         /\ rFrame' = NoFrame
         /\ UNCHANGED renderQ

TrimRenderQueue ==
    /\ rpc = "trim"
    /\ rTarget' = RenderTarget
    /\ renderHistory' = IF mode.noBuffering THEN renderHistory
                        ELSE Sample(renderHistory, MaxVideoFps \div 2, renderQ)
    /\ CatchUpRendering(RenderTarget)
    /\ UNCHANGED <<mode, sent, spc, pacing, stopping, asleep, events, freed, dpc,
                   vsyncVars, shown, cleaned>>

DropRendered ==
    /\ rpc = "drop"
    /\ freed' = freed \cup {rFrame}
    /\ CatchUpRendering(rTarget)
    /\ UNCHANGED <<mode, sent, spc, pacing, stopping, asleep, events, dpc, vsyncVars,
                   rTarget, renderHistory, shown, cleaned>>

\* The render thread's last step.
CleanupRenderContext ==
    /\ rpc = "cleanup"
    /\ rpc' = "done"
    /\ cleaned' = TRUE
    /\ UNCHANGED <<mode, sent, spc, pacing, renderQ, stopping, asleep, events, freed,
                   dpc, vsyncVars, rTarget, rFrame, renderHistory, shown>>

----------------------------------------------------------------------------
(* Destructor.  FFmpegVideoDecoder::reset() joins the decoder thread       *)
(* before it deletes the pacer, and does so on the main thread.            *)

Stop ==
    /\ dpc = "none" /\ spc = "idle"
    /\ ~mode.renderThread => rpc = "idle"
    /\ dpc' = "joinVsync"
    /\ stopping' = TRUE
    /\ asleep' = WakeAll
    /\ UNCHANGED <<mode, sent, spc, pacing, renderQ, events, freed, vsyncVars, renderVars>>

JoinVsyncThread ==
    /\ dpc = "joinVsync" /\ vpc = "done"
    /\ dpc' = "joinRender"
    /\ UNCHANGED <<mode, sent, spc, pacing, renderQ, stopping, asleep, events, freed,
                   vsyncVars, renderVars>>

\* Bug: the destructor does not join the render thread.
BadRenderThreadExited == TRUE

\* SDL_WaitThread(m_RenderThread), if there is one.
RenderThreadExited == mode.renderThread => rpc = "done"

JoinRenderThread ==
    /\ dpc = "joinRender"
    /\ RenderThreadExited
    /\ cleaned' = IF mode.renderThread THEN cleaned ELSE TRUE
    /\ dpc' = "free"
    /\ UNCHANGED <<mode, sent, spc, pacing, renderQ, stopping, asleep, events, freed,
                   vsyncVars, rpc, rTarget, rFrame, renderHistory, shown>>

FreeRemaining ==
    /\ dpc = "free"
    /\ dpc' = "done"
    /\ freed' = freed \cup Frames(renderQ) \cup Frames(pacing)
    /\ renderQ' = <<>> /\ pacing' = <<>>
    /\ UNCHANGED <<mode, sent, spc, stopping, asleep, events, vsyncVars, renderVars>>

----------------------------------------------------------------------------
\* A condition variable may wake its waiter for no reason.
SpuriousWakeup ==
    /\ \E condition \in asleep : asleep' = Wake(condition)
    /\ UNCHANGED <<mode, sent, spc, pacing, renderQ, stopping, events, freed, dpc,
                   vsyncVars, renderVars>>

\* The pacer is gone.
Gone == dpc = "done" /\ UNCHANGED vars

Decoder == SubmitForPacing \/ SubmitForRendering \/ SubmitWakePacing \/ SubmitWakeRender

VsyncThread ==
    \/ VsyncLoop \/ WaitForVsync \/ WaitForAsyncVsync \/ VsyncGuard
    \/ HandleVsync \/ DropPaced \/ WaitForFrame \/ VsyncWakeRender

Renderer ==
    \/ RenderLoop \/ TakeFrame \/ RenderOnMainThread \/ RenderFrame
    \/ TrimRenderQueue \/ DropRendered \/ CleanupRenderContext

Destructor == Stop \/ JoinVsyncThread \/ JoinRenderThread \/ FreeRemaining

Next == Decoder \/ SignalVsync \/ VsyncThread \/ Renderer \/ Destructor
        \/ SpuriousWakeup \/ Gone

Spec == Init /\ [][Next]_vars

(* Every thread that can take a step eventually does: the operating system *)
(* schedules it, a V-sync source and a renderer return, and the deadline   *)
(* of a timed wait, which spurious wakeups do not extend, expires.         *)
(* Nothing obliges the decoder to submit, a source to signal, the owner to *)
(* delete the pacer or a condition variable to wake spuriously.            *)
Fairness ==
    /\ WF_vars(SubmitWakePacing \/ SubmitWakeRender)
    /\ WF_vars(VsyncThread)
    /\ WF_vars(WaitForAsyncVsync /\ vpc' # "waitVsync")
    /\ WF_vars(WaitForFrame /\ vpc' # "waitFrame")
    /\ WF_vars(Renderer)
    /\ WF_vars(JoinVsyncThread \/ JoinRenderThread \/ FreeRemaining)

FairSpec == Spec /\ Fairness

----------------------------------------------------------------------------
(* Properties *)

\* Type invariant.
TypeOK ==
    /\ mode \in Modes
    /\ sent \in 0..NumFrames
    /\ spc \in {"idle", "wakePacing", "wakeRender"}
    /\ pacing \in Seq(Nat) /\ renderQ \in Seq(Nat)
    /\ pacingHistory \in Seq(Nat) /\ Len(pacingHistory) <= DisplayFps \div 2
    /\ renderHistory \in Seq(Nat) /\ Len(renderHistory) <= MaxVideoFps \div 2
    /\ stopping \in BOOLEAN /\ vsyncPending \in BOOLEAN /\ cleaned \in BOOLEAN
    /\ asleep \subseteq Conditions
    /\ vpc \in {"loop", "waitVsync", "guard", "handle", "drop", "waitFrame",
                "wakeRender", "done"}
    /\ rpc \in {"loop", "take", "idle", "render", "trim", "drop", "cleanup", "done"}
    /\ vTarget \in 0..3 /\ rTarget \in 0..2
    /\ vFrame \in Nat /\ rFrame \in Nat /\ shown \in Nat
    /\ events \in Nat
    /\ freed \subseteq Nat
    /\ dpc \in {"none", "joinVsync", "joinRender", "free", "done"}

Increasing(q) == \A i, j \in 1..Len(q) : i < j => q[i] < q[j]
AllBelow(S, T) == \A x \in S, y \in T : x < y
InHand(f) == {f} \ {NoFrame}

\* Frames reach the screen in the order they were decoded: whatever is
\* dropped between, the frames ahead of a frame are older than it, through
\* both queues and the two frames that threads hold outside the lock.
FramesInOrder ==
    /\ Increasing(renderQ) /\ Increasing(pacing)
    /\ AllBelow({shown}, InHand(rFrame) \cup Frames(renderQ) \cup InHand(vFrame) \cup Frames(pacing))
    /\ AllBelow(InHand(rFrame), Frames(renderQ) \cup InHand(vFrame) \cup Frames(pacing))
    /\ AllBelow(Frames(renderQ), InHand(vFrame) \cup Frames(pacing))
    /\ AllBelow(InHand(vFrame), Frames(pacing))

Held == Frames(pacing) \cup Frames(renderQ) \cup InHand(vFrame) \cup InHand(rFrame)

\* Every submitted frame is either held by a queue or a thread, or it has
\* been freed, never both: no leak, no use after av_frame_free() and, as
\* only held frames are freed, no double free, although the drop loops
\* release the lock around every free.
FrameOwnership ==
    /\ Held \cap freed = {}
    /\ Held \cup freed = 1..sent
    /\ dpc = "done" => freed = 1..sent

\* The comment on MAX_QUEUED_FRAMES: neither queue outgrows its limit, so
\* the pacer never holds more decoder surfaces than both queues and the two
\* frames in hand.
SurfacesBounded ==
    /\ Len(pacing) <= MAX_QUEUED_FRAMES
    /\ Len(renderQ) <= MAX_QUEUED_FRAMES

\* After cleanupRenderContext() the renderer is never used again, and the
\* context is cleaned up before the destructor frees what is left.
ContextSafe ==
    /\ cleaned => /\ stopping
                  /\ rpc \in {"idle", "done"}
    /\ dpc \in {"free", "done"} => cleaned

\* A thread sleeps on a condition that holds only while somebody is about
\* to wake it, and nobody sleeps through the stop.
NoLostWakeup ==
    /\ stopping => asleep = {}
    /\ "RenderQueueNotEmpty" \in asleep /\ renderQ # <<>> =>
            spc = "wakeRender" \/ vpc = "wakeRender"
    /\ "PacingQueueNotEmpty" \in asleep /\ pacing # <<>> => spc = "wakePacing"
    /\ "VsyncSignalled" \in asleep => ~vsyncPending

\* Main-thread rendering: each queued frame has an event that will fetch
\* it, queued or about to be pushed, so no frame waits for the next one.
EveryFrameHasEvent ==
    ~mode.renderThread =>
        Len(renderQ) <= events + (IF spc = "wakeRender" THEN 1 ELSE 0)
                               + (IF vpc = "wakeRender" THEN 1 ELSE 0)

\* handleVsync() hands nothing to the renderer once the destructor fired.
NoHandOffAfterStop == [][stopping => Len(renderQ') <= Len(renderQ)]_vars

\* The destructor returns: no join waits for a thread that sleeps for ever.
DestructorReturns == dpc # "none" ~> dpc = "done"

\* Every frame gets back to the decoder's pool, without help from later
\* frames or from the destructor.
EveryFrameReleased == \A f \in 1..NumFrames : sent >= f ~> f \in freed

\* The frames that may still reach the screen.
Inside ==
    Frames(pacing) \cup Frames(renderQ) \cup (IF rpc = "render" THEN {rFrame} ELSE {})

Channel == INSTANCE FrameChannel WITH inside <- Inside

\* The pacer implements the lossy in-order channel.
ImplementsChannel == Channel!Spec

=============================================================================
