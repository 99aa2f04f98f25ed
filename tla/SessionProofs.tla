--------------------------- MODULE SessionProofs ---------------------------
(***************************************************************************)
(* Proofs about Session, for every number of sessions and attempts.        *)
(***************************************************************************)
EXTENDS Session, TLAPS

----------------------------------------------------------------------------
(* The inductive invariant *)

\* Steps of a session that holds the slot, and those in which it is
\* s_ActiveSession.
ActiveSteps ==
    {"preparing", "launching", "launched", "connect", "connecting", "returned", "backoff",
     "accepted", "giveUp", "connected", "opening"}
    \cup Windowed \cup (TaskSteps \ {"releasing"})
HoldingSteps == ActiveSteps \cup {"releasing"}

\* Steps in which a connection of the session, or its callback, may exist.
ConnectedSteps ==
    {"connect", "connecting", "returned", "backoff", "accepted", "giveUp", "connected",
     "opening"}
    \cup Windowed \cup {"cleanup", "stopping"}

\* Steps in which a session is in the registry.
RegisteredSteps ==
    Connecting \cup Windowed \cup (TaskSteps \ {"clearing", "releasing"})

Live(s) == pc[s] \notin {"unborn", "done"}

\* An attempt is left to make whenever one may be started.
AttemptsInv ==
    \A s \in Sessions :
        /\ pc[s] \in {"unborn", "created", "starting", "waiting", "preparing", "launching",
                      "launched"} => attempt[s] = 0
        /\ pc[s] \in {"connect", "backoff"} => attempt[s] < Attempts

\* The slot and s_ActiveSession are given up in this order, by their holder.
SlotInv ==
    \A s \in Sessions :
        /\ slot = s <=> pc[s] \in HoldingSteps
        /\ active = s <=> pc[s] \in ActiveSteps

\* The connection and the callback belong to a session that has not stopped it.
ConnInv ==
    /\ conn.state = "down" => conn = Down
    /\ conn.state # "down" => conn.of \in Sessions /\ pc[conn.of] \in ConnectedSteps
    /\ cb.pc = "idle" => cb = NoCall
    /\ cb.pc # "idle" => cb.of \in Sessions /\ pc[cb.of] \in ConnectedSteps

\* The segue owns the only live session.
SegueInv ==
    /\ ui = "list" <=> cur = NoSession
    /\ \A s \in Sessions : Live(s) => ui = "segue" /\ cur = s
    /\ ui = "recovery" => pc[cur] = "done"
    /\ \A s \in deleted : pc[s] = "done" /\ cur # s
    /\ \A s \in Sessions : pc[s] = "done" /\ s \notin deleted => cur = s

\* After the completion of a session only quit() is queued.
NotifyLast(q) ==
    \A i, j \in 1..Len(q) : i < j /\ q[i].what = "notify" => q[j].what = "quit"

\* Calls queued for a session are for the segue's.
InboxInv ==
    /\ NotifyLast(inbox)
    /\ \A c \in Calls(inbox) :
          /\ c.what = "quit" <=> c.of = NoSession
          /\ c.of # NoSession => ui = "segue" /\ c.of = cur
          /\ c.what = "notify" => pc[c.of] = "done"

\* A session is registered from exec() to the end of its cleanup.
RegistryInv ==
    /\ \A s \in Sessions : registered = s <=> pc[s] \in RegisteredSteps
    /\ spc = "terminate" => registered # NoSession

\* A session is cleaned only when its task is past the connection's stop, and
\* its task begins with the gate.
CleanedInv ==
    \A s \in Sessions :
        /\ "Cleaned" \in gate[s] => pc[s] \in {"keep", "forget", "clearing", "releasing", "done"}
        /\ pc[s] \in TaskSteps \ {"cleanup"} => "Terminating" \in gate[s]

\* What a process that is leaving was told.
ReasonInv ==
    /\ reason = "None" => spc = "idle" /\ ~quitting /\ mpc = "loop"
    /\ \A c \in Calls(inbox) : c.what = "quit" => reason # "None"
    /\ \A s \in Sessions :
          pc[s] = "exiting" \/ flag[s] \cap {"AppExit", "ExitAfterQuit"} # {} => reason # "None"

Offered(s) == {"Recoverable", "Cleaned"} \subseteq gate[s] /\ gate[s] \cap Ended = {}

\* A session that can be resumed has told the segue so, or is about to.
TextInv ==
    \A s \in Sessions : "Recoverable" \in gate[s] =>
        \/ s \in recoveryText
        \/ Queued("recovery", s) \in Calls(inbox)
        \/ cb.pc = "report" /\ cb.of = s /\ cb.surface = "recovery"

\* The dialog and the registry offer only what can be resumed.
OfferInv ==
    /\ ui = "recovery" /\ mpc = "loop" => Offered(cur)
    /\ ui = "recovery" => {"Recoverable", "Cleaned"} \subseteq gate[cur]
    /\ \A s \in Sessions : pc[s] = "keep" /\ reason = "None" => Offered(s)
    /\ recoveryContext # NoSession =>
           /\ pc[recoveryContext] \in {"clearing", "releasing", "done"}
           /\ reason = "None" => Offered(recoveryContext) /\ recoveryContext \notin deleted

\* What the user was told of kept the host's application.
KeptInv ==
    /\ \A s \in Sessions : "lost" \in told[s] => "Interrupted" \in gate[s]
    /\ cb.pc = "report" /\ cb.surface # "nothing" => "Interrupted" \in gate[cb.of]
    /\ \A s \in Sessions : pc[s] \in {"quittingHost", "sendingQuit"} =>
           "ExitAfterQuit" \in flag[s] \/ ("Interrupted" \notin gate[s] /\ config.quitAppAfter)

\* Once notify() has run, the registered session keeps the host for the next
\* process.
PreserveInv ==
    reason = "Replace" /\ registered # NoSession /\ spc # "notify" =>
        "Preserve" \in flag[registered]

\* A dead connection is known to its callback, to the gate, or only to the flag
\* that runConnectionAttempts() looks at; that flag is raised during retries.
DeathInv ==
    /\ conn.state = "dead" =>
           \/ cb.pc # "idle" /\ cb.of = conn.of
           \/ "Terminating" \in gate[conn.of] \/ "AttemptTerminated" \in flag[conn.of]
    /\ cb.pc = "report" => "Terminating" \in gate[cb.of]
    /\ cb.pc = "record" => config.retry
    /\ \A s \in Sessions : flag[s] \cap {"Suppress", "AttemptTerminated"} # {} => config.retry

IInv ==
    /\ TypeOK /\ AttemptsInv /\ SlotInv /\ ConnInv /\ SegueInv /\ InboxInv /\ RegistryInv
    /\ CleanedInv /\ ReasonInv /\ TextInv /\ OfferInv /\ KeptInv /\ PreserveInv
    /\ DeathInv

----------------------------------------------------------------------------
(* Lemmas *)

\* What the type invariant says of one variable at a time.
LEMMA Domains ==
    ASSUME TypeOK
    PROVE  /\ pc \in [Sessions -> Steps]
           /\ attempt \in [Sessions -> 0..MaxAttempts]
           /\ gate \in [Sessions -> SUBSET Bits]
           /\ flag \in [Sessions -> SUBSET Flags]
           /\ told \in [Sessions -> SUBSET {"lost", "decoder"}]
           /\ resumeOnly \subseteq Sessions /\ recoveryText \subseteq Sessions
           /\ deleted \subseteq Sessions
           /\ slot \in Sessions \cup {NoSession} /\ active \in Sessions \cup {NoSession}
           /\ cur \in Sessions \cup {NoSession}
           /\ registered \in Sessions \cup {NoSession}
           /\ recoveryContext \in Sessions \cup {NoSession}
           /\ requester \in Sessions \cup {NoSession}
           /\ conn \in [of : Sessions \cup {NoSession},
                        state : {"down", "starting", "up", "dead"}]
           /\ cb \in [pc : {"idle", "check", "record", "classify", "begin", "report"},
                      of : Sessions \cup {NoSession}, error : BOOLEAN,
                      intentional : BOOLEAN, surface : {"nothing", "error", "recovery"}]
           /\ inbox \in Seq(QueuedCalls)
    BY DEF TypeOK

\* The number 0 stands for no session.
LEMMA NoSessionIsNone == NoSession \notin Sessions
    BY DEF Sessions, NoSession

\* A call put at the end of the queue.
LEMMA CallAppended ==
    ASSUME TypeOK, NEW c \in QueuedCalls, inbox' = Append(inbox, c)
    PROVE  /\ Calls(inbox) \subseteq QueuedCalls
           /\ inbox' \in Seq(QueuedCalls)
           /\ Calls(inbox') = Calls(inbox) \cup {c}
           /\ /\ NotifyLast(inbox)
              /\ c.what = "quit" \/ \A d \in Calls(inbox) : d.what # "notify"
              => NotifyLast(inbox')
    <1>1. inbox \in Seq(QueuedCalls) /\ Len(inbox) \in Nat
        BY Domains
    <1>2. /\ inbox' \in Seq(QueuedCalls) /\ Len(inbox') = Len(inbox) + 1
          /\ \A i \in 1..Len(inbox) : inbox'[i] = inbox[i]
          /\ inbox'[Len(inbox) + 1] = c
        BY <1>1
    <1>3. Calls(inbox) \subseteq QueuedCalls
        BY <1>1 DEF Calls
    <1>4. Calls(inbox') = Calls(inbox) \cup {c}
        <2>1. \A d \in Calls(inbox') : d \in Calls(inbox) \cup {c}
            BY <1>1, <1>2 DEF Calls
        <2>2. \A d \in Calls(inbox) : d \in Calls(inbox')
            BY <1>1, <1>2 DEF Calls
        <2>3. c \in Calls(inbox')
            <3>1. Len(inbox) + 1 \in 1..Len(inbox')
                BY <1>1, <1>2
            <3> QED BY <3>1, <1>2 DEF Calls
        <2> QED BY <2>1, <2>2, <2>3
    <1>5. ASSUME NotifyLast(inbox), c.what = "quit" \/ \A d \in Calls(inbox) : d.what # "notify"
          PROVE  NotifyLast(inbox')
        <2> SUFFICES ASSUME NEW i \in 1..Len(inbox'), NEW j \in 1..Len(inbox'), i < j,
                            inbox'[i].what = "notify"
                     PROVE  inbox'[j].what = "quit"
            BY DEF NotifyLast
        <2>1. i \in 1..Len(inbox) /\ inbox'[i] = inbox[i]
            BY <1>1, <1>2
        <2>2. inbox[i] \in Calls(inbox)
            BY <2>1 DEF Calls
        <2>3. CASE j = Len(inbox) + 1
            BY <2>1, <2>2, <2>3, <1>2, <1>5
        <2>4. CASE j # Len(inbox) + 1
            BY <2>1, <2>4, <1>1, <1>2, <1>5 DEF NotifyLast
        <2> QED BY <2>3, <2>4
    <1> QED BY <1>2, <1>3, <1>4, <1>5

\* The call at the head of the queue is delivered.
LEMMA CallDelivered ==
    ASSUME TypeOK, inbox # <<>>, inbox' = Tail(inbox)
    PROVE  /\ Calls(inbox) \subseteq QueuedCalls
           /\ inbox' \in Seq(QueuedCalls)
           /\ Calls(inbox) = {Head(inbox)} \cup Calls(inbox')
           /\ NotifyLast(inbox) =>
                  /\ NotifyLast(inbox')
                  /\ Head(inbox).what = "notify" => \A c \in Calls(inbox') : c.what = "quit"
    <1>1. inbox \in Seq(QueuedCalls) /\ Len(inbox) \in Nat \ {0} /\ Head(inbox) = inbox[1]
        BY Domains
    <1>2. /\ inbox' \in Seq(QueuedCalls) /\ Len(inbox') = Len(inbox) - 1
          /\ \A i \in 1..Len(inbox') : inbox'[i] = inbox[i + 1] /\ i + 1 \in 1..Len(inbox)
        BY <1>1
    <1>3. Calls(inbox) \subseteq QueuedCalls
        BY <1>1 DEF Calls
    <1>4. Calls(inbox) = {Head(inbox)} \cup Calls(inbox')
        <2>1. ASSUME NEW c \in Calls(inbox) PROVE c \in {Head(inbox)} \cup Calls(inbox')
            <3>1. PICK i \in 1..Len(inbox) : c = inbox[i]
                BY DEF Calls
            <3>2. CASE i = 1
                BY <3>1, <3>2, <1>1
            <3>3. CASE i # 1
                <4>1. i - 1 \in 1..Len(inbox') /\ inbox'[i - 1] = c
                    BY <3>1, <3>3, <1>1, <1>2
                <4> QED BY <4>1 DEF Calls
            <3> QED BY <3>2, <3>3
        <2>2. Head(inbox) \in Calls(inbox)
            BY <1>1 DEF Calls
        <2>3. \A c \in Calls(inbox') : c \in Calls(inbox)
            BY <1>1, <1>2 DEF Calls
        <2> QED BY <2>1, <2>2, <2>3
    <1>5. ASSUME NotifyLast(inbox) PROVE NotifyLast(inbox')
        BY <1>1, <1>2, <1>5 DEF NotifyLast
    <1>6. ASSUME NotifyLast(inbox), Head(inbox).what = "notify", NEW c \in Calls(inbox')
          PROVE  c.what = "quit"
        <2>1. PICK i \in 1..Len(inbox') : c = inbox'[i]
            BY DEF Calls
        <2>2. 1 \in 1..Len(inbox) /\ i + 1 \in 1..Len(inbox) /\ 1 < i + 1 /\ c = inbox[i + 1]
            BY <2>1, <1>1, <1>2
        <2> QED BY <2>2, <1>1, <1>6 DEF NotifyLast
    <1> QED BY <1>2, <1>3, <1>4, <1>5, <1>6

\* canResume() in the words of the invariant.
LEMMA ResumeMeansOffered ==
    \A s \in Sessions : MayResume(gate[s]) <=> Offered(s)
    BY DEF MayResume, Offered, Ended

\* One session lives, so no other may be registered.
LEMMA OnlyLiveRegistered ==
    ASSUME SegueInv, NEW s \in Sessions, Live(s)
    PROVE  \A t \in Sessions : t # s => pc[t] \notin RegisteredSteps
    <1>1. cur = s
        BY DEF SegueInv
    <1>2. ASSUME NEW t \in Sessions, t # s PROVE ~Live(t)
        BY <1>1, <1>2 DEF SegueInv
    <1>3. "unborn" \notin RegisteredSteps /\ "done" \notin RegisteredSteps
        BY DEF RegisteredSteps, Connecting, Windowed, TaskSteps
    <1> QED BY <1>2, <1>3 DEF Live

----------------------------------------------------------------------------
(* The type invariant, in the groups of variables that actions change *)

ExecType ==
    config \in [quitAppAfter : BOOLEAN, retry : BOOLEAN] /\ pc \in [Sessions -> Steps]
AttemptType == attempt \in [Sessions -> 0..MaxAttempts]
GateType == gate \in [Sessions -> SUBSET Bits]
FlagType == flag \in [Sessions -> SUBSET Flags]
ToldType == told \in [Sessions -> SUBSET {"lost", "decoder"}]
ConnType ==
    /\ slot \in Sessions \cup {NoSession} /\ active \in Sessions \cup {NoSession}
    /\ conn \in [of : Sessions \cup {NoSession}, state : {"down", "starting", "up", "dead"}]
CallbackType ==
    cb \in [pc : {"idle", "check", "record", "classify", "begin", "report"},
            of : Sessions \cup {NoSession}, error : BOOLEAN, intentional : BOOLEAN,
            surface : {"nothing", "error", "recovery"}]
UiType ==
    /\ ui \in {"list", "segue", "recovery"} /\ cur \in Sessions \cup {NoSession}
    /\ resumeOnly \subseteq Sessions /\ recoveryText \subseteq Sessions
    /\ deleted \subseteq Sessions
InboxType == inbox \in Seq(QueuedCalls)
LifeType ==
    /\ registered \in Sessions \cup {NoSession}
    /\ recoveryContext \in Sessions \cup {NoSession}
    /\ requester \in Sessions \cup {NoSession}
    /\ host \in {"free", "ours", "other"}
    /\ reason \in {"None", "Exit", "Replace"}
    /\ spc \in {"idle", "notify", "terminate", "dispatch", "done"}
    /\ quitting \in BOOLEAN
    /\ mpc \in {"loop", "leaving", "exited"}

\* The type invariant is the conjunction of its groups.
LEMMA TypeParts ==
    TypeOK <=> /\ ExecType /\ AttemptType /\ GateType /\ FlagType /\ ToldType /\ ConnType
               /\ CallbackType /\ UiType /\ InboxType /\ LifeType
    BY DEF TypeOK, ExecType, AttemptType, GateType, FlagType, ToldType, ConnType, CallbackType,
           UiType, InboxType, LifeType

\* Program counters stay among the steps of the program.
LEMMA ExecTypeStep == IInv /\ [Next]_vars => ExecType'
    <1> SUFFICES ASSUME IInv, [Next]_vars PROVE ExecType'
        OBVIOUS
    <1> USE Domains DEF IInv, TypeOK, ExecType, Steps, Windowed, TaskSteps, Connecting, Goto,
        RegistryUnlocked, Queued, RegisteredAfterFailure, OfferAnotherResume, Down, Attempts,
        AttemptSucceeded, MustLeave, RequestReturned, ProducersStopped, EndedUnexpectedly,
        QuitHost, MayUnregister, RequestAppExit
    <1>1. CASE CreateSession BY <1>1 DEF CreateSession
    <1>2. CASE UserResume BY <1>2 DEF UserResume
    <1>3. ASSUME NEW s \in Sessions, Exec(s) PROVE ExecType' BY <1>3 DEF Exec
    <1>4. ASSUME NEW s \in Sessions, Initialize(s) PROVE ExecType'
        <2>1. CASE pc' = [pc EXCEPT ![s] = "waiting"] /\ UNCHANGED <<gate, registered, inbox>>
            BY <1>4, <2>1 DEF Initialize
        <2>2. CASE /\ pc' = [pc EXCEPT ![s] = "done"]
                  /\ registered' = NoSession /\ spc # "terminate"
                  /\ gate' = [gate EXCEPT ![s] = CompleteCleanup(gate[s])]
                  /\ inbox' = Append(inbox, Queued("notify", s))
            BY <1>4, <2>2 DEF Initialize
        <2> QED BY <1>4, <2>1, <2>2 DEF Initialize, Goto, RegistryUnlocked, RegisteredAfterFailure
    <1>5. ASSUME NEW s \in Sessions, AcquireSlot(s) PROVE ExecType' BY <1>5 DEF AcquireSlot
    <1>6. ASSUME NEW s \in Sessions, PrepareConnection(s) PROVE ExecType'
        <2>1. CASE pc' = [pc EXCEPT ![s] = "cleanup"] /\ UNCHANGED flag
            BY <1>6, <2>1 DEF PrepareConnection
        <2>2. CASE pc' = [pc EXCEPT ![s] = "launching"] /\ Raise(s, {"Suppress"})
            BY <1>6, <2>2 DEF PrepareConnection
        <2>3. CASE pc' = [pc EXCEPT ![s] = "launching"] /\ UNCHANGED flag
            BY <1>6, <2>3 DEF PrepareConnection
        <2> QED BY <1>6, <2>1, <2>2, <2>3 DEF PrepareConnection, Goto
    <1>7. ASSUME NEW s \in Sessions, Launch(s) PROVE ExecType'
        <2>1. CASE pc' = [pc EXCEPT ![s] = "launched"] /\ UNCHANGED <<gate, told, inbox>>
            BY <1>7, <2>1 DEF Launch
        <2>2. CASE pc' = [pc EXCEPT ![s] = "giveUp"] /\ UNCHANGED <<gate, told, inbox>>
            BY <1>7, <2>2 DEF Launch
        <2>3. CASE pc' = [pc EXCEPT ![s] = "giveUp"] /\ OfferAnotherResume(s)
            BY <1>7, <2>3 DEF Launch
        <2> QED BY <1>7, <2>1, <2>2, <2>3 DEF Launch, Goto
    <1>8. ASSUME NEW s \in Sessions, CheckLaunched(s) PROVE ExecType' BY <1>8 DEF CheckLaunched
    <1>9. ASSUME NEW s \in Sessions, StartConnection(s) PROVE ExecType'
        BY <1>9 DEF StartConnection
    <1>10. ASSUME NEW s \in Sessions, StartReturns(s) PROVE ExecType' BY <1>10 DEF StartReturns
    <1>11. ASSUME NEW s \in Sessions, JudgeAttempt(s) PROVE ExecType' BY <1>11 DEF JudgeAttempt
    <1>12. ASSUME NEW s \in Sessions, Backoff(s) PROVE ExecType' BY <1>12 DEF Backoff
    <1>13. ASSUME NEW s \in Sessions, EndAttempts(s) PROVE ExecType' BY <1>13 DEF EndAttempts
    <1>14. ASSUME NEW s \in Sessions, ConnectionStarted(s) PROVE ExecType'
        BY <1>14 DEF ConnectionStarted
    <1>15. ASSUME NEW s \in Sessions, OpenWindow(s) PROVE ExecType'
        <2>1. CASE pc' = [pc EXCEPT ![s] = "streaming"] /\ Lower(s, {"Unexpected"})
            BY <1>15, <2>1 DEF OpenWindow
        <2>2. CASE pc' = [pc EXCEPT ![s] = "cleanup"] /\ UNCHANGED flag
            BY <1>15, <2>2 DEF OpenWindow
        <2> QED BY <1>15, <2>1, <2>2 DEF OpenWindow, Goto
    <1>16. ASSUME NEW s \in Sessions, SeeTermination(s) PROVE ExecType'
        BY <1>16 DEF SeeTermination
    <1>17. ASSUME NEW s \in Sessions, HandleEvent(s) PROVE ExecType' BY <1>17 DEF HandleEvent
    <1>18. ASSUME NEW s \in Sessions, FinishCancel(s) PROVE ExecType' BY <1>18 DEF FinishCancel
    <1>19. ASSUME NEW s \in Sessions, FinishQuit(s) PROVE ExecType' BY <1>19 DEF FinishQuit
    <1>20. ASSUME NEW s \in Sessions, FinishSystemQuit(s) PROVE ExecType'
        BY <1>20 DEF FinishSystemQuit
    <1>21. ASSUME NEW s \in Sessions, QuitLoop(s) PROVE ExecType' BY <1>21 DEF QuitLoop
    <1>22. ASSUME NEW s \in Sessions, Teardown(s) PROVE ExecType' BY <1>22 DEF Teardown
    <1>23. ASSUME NEW s \in Sessions, BeginCleanupTask(s) PROVE ExecType'
        BY <1>23 DEF BeginCleanupTask
    <1>24. ASSUME NEW s \in Sessions, StopConnection(s) PROVE ExecType'
        BY <1>24 DEF StopConnection
    <1>25. ASSUME NEW s \in Sessions, Decide(s) PROVE ExecType' BY <1>25 DEF Decide
    <1>26. ASSUME NEW s \in Sessions, AskHost(s) PROVE ExecType'
        <2>1. CASE pc' = [pc EXCEPT ![s] = "sendingQuit"]
            BY <1>26, <2>1 DEF AskHost
        <2>2. CASE pc' = [pc EXCEPT ![s] = "completing"]
            BY <1>26, <2>2 DEF AskHost
        <2> QED BY <1>26, <2>1, <2>2 DEF AskHost, Goto
    <1>27. ASSUME NEW s \in Sessions, QuitHostApp(s) PROVE ExecType' BY <1>27 DEF QuitHostApp
    <1>28. ASSUME NEW s \in Sessions, Complete(s) PROVE ExecType' BY <1>28 DEF Complete
    <1>29. ASSUME NEW s \in Sessions, Unregister(s) PROVE ExecType' BY <1>29 DEF Unregister
    <1>30. ASSUME NEW s \in Sessions, ClearActive(s) PROVE ExecType' BY <1>30 DEF ClearActive
    <1>31. ASSUME NEW s \in Sessions, ReleaseSlot(s) PROVE ExecType' BY <1>31 DEF ReleaseSlot
    <1>32. ASSUME NEW s \in Sessions, TakeEvent(s) PROVE ExecType' BY <1>32 DEF TakeEvent
    <1>33. ASSUME NEW s \in Sessions, WakeFromSuspend(s) PROVE ExecType'
        BY <1>33 DEF WakeFromSuspend
    <1>34. ASSUME NEW s \in Sessions, UserCancel(s) PROVE ExecType' BY <1>34 DEF UserCancel
    <1>35. ASSUME NEW s \in Sessions, UserQuit(s) PROVE ExecType' BY <1>35 DEF UserQuit
    <1>36. ASSUME NEW s \in Sessions, SystemQuit(s) PROVE ExecType' BY <1>36 DEF SystemQuit
    <1>37. ASSUME NEW s \in Sessions, CloseWindow(s) PROVE ExecType' BY <1>37 DEF CloseWindow
    <1>38. ASSUME NEW s \in Sessions, DecoderFails(s) PROVE ExecType' BY <1>38 DEF DecoderFails
    <1>39. CASE UNCHANGED <<config, pc>> BY <1>39
    <1>40. CASE HandleRecovery \/ HandleNotify \/ HandleQuit \/ UserDismiss \/ LeaveEventLoop
        \/ Exit \/ TerminateConnection \/ CallbackCheck \/ CallbackRecord \/ CallbackClassify
        \/ CallbackBegin \/ CallbackReport \/ RequestShutdown \/ ShutdownNotify
        \/ ShutdownTerminate \/ ShutdownDispatch \/ HostChanges
        BY <1>40, <1>39 DEF HandleRecovery, HandleNotify, HandleQuit, UserDismiss,
            LeaveEventLoop, Exit, TerminateConnection, CallbackCheck, CallbackRecord,
            CallbackClassify, CallbackBegin, CallbackReport, RequestShutdown, ShutdownNotify,
            ShutdownTerminate, ShutdownDispatch, HostChanges, execVars, objectVars, connVars,
            uiVars, lifeVars
    <1> HIDE Domains DEF IInv, TypeOK, ExecType, Steps, Windowed, TaskSteps, Connecting, Goto,
        RegistryUnlocked, Queued, RegisteredAfterFailure, OfferAnotherResume, Down, Attempts,
        AttemptSucceeded, MustLeave, RequestReturned, ProducersStopped, EndedUnexpectedly,
        QuitHost, MayUnregister, RequestAppExit
    <1>41. CASE MainThread
        BY <1>41, <1>1, <1>2, <1>40 DEF MainThread
    <1>42. ASSUME NEW s \in Sessions, Progress(s) PROVE ExecType'
        BY <1>42, <1>3, <1>4, <1>5, <1>6, <1>7, <1>8, <1>9, <1>10, <1>11, <1>12, <1>13, <1>14,
            <1>15, <1>16, <1>17, <1>18, <1>19, <1>20, <1>21, <1>22, <1>23, <1>24, <1>25, <1>26,
            <1>27, <1>28, <1>29, <1>30, <1>31 DEF Progress
    <1>43. ASSUME NEW s \in Sessions, Stimulus(s) PROVE ExecType'
        BY <1>43, <1>32, <1>33, <1>34, <1>35, <1>36, <1>37, <1>38 DEF Stimulus
    <1>44. CASE Callback
        BY <1>44, <1>40 DEF Callback
    <1>45. CASE Requester
        BY <1>45, <1>40 DEF Requester
    <1> QED
        BY <1>39, <1>40, <1>41, <1>42, <1>43, <1>44, <1>45
        DEF Next, Exited, vars, execVars, objectVars, connVars, uiVars, lifeVars

\* The bound on the attempts follows from AttemptsInv.
LEMMA AttemptTypeStep == IInv /\ [Next]_vars => AttemptType'
    <1> SUFFICES ASSUME IInv, [Next]_vars PROVE AttemptType'
        OBVIOUS
    <1> USE Domains, SessionAssumption DEF IInv, AttemptsInv, AttemptType, Attempts, Goto
    <1>1. ASSUME NEW s \in Sessions, StartConnection(s) PROVE AttemptType'
        <2>1. attempt[s] \in 0..MaxAttempts /\ attempt[s] < Attempts
            BY <1>1 DEF StartConnection
        <2>2. Attempts <= MaxAttempts /\ Attempts \in Nat
            OBVIOUS
        <2>3. attempt[s] + 1 \in 0..MaxAttempts
            BY <2>1, <2>2
        <2>4. attempt' = [attempt EXCEPT ![s] = attempt[s] + 1]
            BY <1>1 DEF StartConnection
        <2> QED BY <2>3, <2>4
    <1>2. ASSUME NEW s \in Sessions, EndAttempts(s) PROVE AttemptType' BY <1>2 DEF EndAttempts
    <1>3. CASE UNCHANGED <<attempt>> BY <1>3
    <1>4. CASE \/ CreateSession
             \/ HandleRecovery
             \/ HandleNotify
             \/ HandleQuit
             \/ UserResume
             \/ UserDismiss
             \/ LeaveEventLoop
             \/ Exit
             \/ \E s \in Sessions : Exec(s) \/ Initialize(s) \/ AcquireSlot(s)
                     \/ PrepareConnection(s) \/ Launch(s) \/ CheckLaunched(s)
        BY <1>4, <1>3 DEF CreateSession, HandleRecovery, HandleNotify, HandleQuit, UserResume,
            UserDismiss, LeaveEventLoop, Exit, Exec, Initialize, AcquireSlot, PrepareConnection,
            Launch, CheckLaunched, execVars, objectVars, connVars, uiVars, lifeVars
    <1>5. CASE \/ \E s \in Sessions : StartReturns(s) \/ JudgeAttempt(s) \/ Backoff(s)
                     \/ ConnectionStarted(s) \/ OpenWindow(s) \/ SeeTermination(s)
                     \/ HandleEvent(s) \/ FinishCancel(s) \/ FinishQuit(s)
                     \/ FinishSystemQuit(s) \/ QuitLoop(s) \/ Teardown(s)
                     \/ BeginCleanupTask(s) \/ StopConnection(s)
        BY <1>5, <1>3 DEF StartReturns, JudgeAttempt, Backoff, ConnectionStarted, OpenWindow,
            SeeTermination, HandleEvent, FinishCancel, FinishQuit, FinishSystemQuit, QuitLoop,
            Teardown, BeginCleanupTask, StopConnection, execVars, objectVars, connVars, uiVars,
            lifeVars
    <1>6. CASE \/ \E s \in Sessions : Decide(s) \/ AskHost(s) \/ QuitHostApp(s)
                     \/ Complete(s) \/ Unregister(s) \/ ClearActive(s) \/ ReleaseSlot(s)
                     \/ TakeEvent(s) \/ WakeFromSuspend(s) \/ UserCancel(s)
                     \/ UserQuit(s) \/ SystemQuit(s) \/ CloseWindow(s) \/ DecoderFails(s)
        BY <1>6, <1>3 DEF Decide, AskHost, QuitHostApp, Complete, Unregister, ClearActive,
            ReleaseSlot, TakeEvent, WakeFromSuspend, UserCancel, UserQuit, SystemQuit,
            CloseWindow, DecoderFails, execVars, objectVars, connVars, uiVars, lifeVars
    <1>7. CASE \/ TerminateConnection
             \/ CallbackCheck
             \/ CallbackRecord
             \/ CallbackClassify
             \/ CallbackBegin
             \/ CallbackReport
             \/ RequestShutdown
             \/ ShutdownNotify
             \/ ShutdownTerminate
             \/ ShutdownDispatch
             \/ HostChanges
        BY <1>7, <1>3 DEF TerminateConnection, CallbackCheck, CallbackRecord, CallbackClassify,
            CallbackBegin, CallbackReport, RequestShutdown, ShutdownNotify, ShutdownTerminate,
            ShutdownDispatch, HostChanges, execVars, objectVars, connVars, uiVars, lifeVars
    <1> QED
        BY <1>1, <1>2, <1>3, <1>4, <1>5, <1>6, <1>7
        DEF Next, MainThread, Progress, Stimulus, Callback, Requester, Exited, vars, execVars,
            objectVars, connVars, uiVars, lifeVars

\* The gate only ever holds its bits.
LEMMA GateTypeStep == IInv /\ [Next]_vars => GateType'
    <1> SUFFICES ASSUME IInv, [Next]_vars PROVE GateType'
        OBVIOUS
    <1> USE Domains DEF IInv, GateType, Bits, Goto, TakeResume, RegistryUnlocked, Cancel,
        BeginTermination, Queued, CompleteCleanup, RegisteredAfterFailure, OfferAnotherResume,
        RequestReturned, BeginCleanup, MustLeave, RequestAppExit, Surface, NoCall
    <1>1. CASE UserResume BY <1>1 DEF UserResume
    <1>2. CASE UserDismiss BY <1>2 DEF UserDismiss
    <1>3. CASE LeaveEventLoop BY <1>3 DEF LeaveEventLoop
    <1>4. ASSUME NEW s \in Sessions, Exec(s) PROVE GateType'
        <2>1. CASE reason = "None"
            <3>1. UNCHANGED <<flag, gate>>
                BY <1>4, <2>1 DEF Exec, Raise, Goto, RegistryUnlocked, ExitRequestedBefore
            <3> QED BY <1>4, <2>1, <3>1 DEF Exec
        <2>2. CASE reason # "None"
            <3>1. /\ flag' = [flag EXCEPT ![s] = flag[s] \cup ExitMarks]
                  /\ gate' = [gate EXCEPT ![s] =
                         BeginTermination(Cancel(gate[s]), FALSE, FALSE)]
                BY <1>4, <2>2 DEF Exec, Raise, Goto, RegistryUnlocked, ExitRequestedBefore
            <3> QED BY <1>4, <2>2, <3>1 DEF Exec
        <2> QED BY <1>4, <2>1, <2>2
    <1>5. ASSUME NEW s \in Sessions, Initialize(s) PROVE GateType'
        <2>1. CASE pc' = [pc EXCEPT ![s] = "waiting"] /\ UNCHANGED <<gate, registered, inbox>>
            BY <1>5, <2>1 DEF Initialize
        <2>2. CASE /\ pc' = [pc EXCEPT ![s] = "done"]
                  /\ registered' = NoSession /\ spc # "terminate"
                  /\ gate' = [gate EXCEPT ![s] = CompleteCleanup(gate[s])]
                  /\ inbox' = Append(inbox, Queued("notify", s))
            BY <1>5, <2>2 DEF Initialize
        <2> QED BY <1>5, <2>1, <2>2 DEF Initialize, Goto, RegistryUnlocked, RegisteredAfterFailure
    <1>6. ASSUME NEW s \in Sessions, Launch(s) PROVE GateType'
        <2>1. CASE pc' = [pc EXCEPT ![s] = "launched"] /\ UNCHANGED <<gate, told, inbox>>
            BY <1>6, <2>1 DEF Launch
        <2>2. CASE pc' = [pc EXCEPT ![s] = "giveUp"] /\ UNCHANGED <<gate, told, inbox>>
            BY <1>6, <2>2 DEF Launch
        <2>3. CASE pc' = [pc EXCEPT ![s] = "giveUp"] /\ OfferAnotherResume(s)
            BY <1>6, <2>3 DEF Launch
        <2> QED BY <1>6, <2>1, <2>2, <2>3 DEF Launch, Goto
    <1>7. ASSUME NEW s \in Sessions, FinishCancel(s) PROVE GateType' BY <1>7 DEF FinishCancel
    <1>8. ASSUME NEW s \in Sessions, FinishSystemQuit(s) PROVE GateType'
        BY <1>8 DEF FinishSystemQuit
    <1>9. ASSUME NEW s \in Sessions, Teardown(s) PROVE GateType' BY <1>9 DEF Teardown
    <1>10. ASSUME NEW s \in Sessions, BeginCleanupTask(s) PROVE GateType'
        BY <1>10 DEF BeginCleanupTask
    <1>11. ASSUME NEW s \in Sessions, Complete(s) PROVE GateType' BY <1>11 DEF Complete
    <1>12. ASSUME NEW s \in Sessions, WakeFromSuspend(s) PROVE GateType'
        BY <1>12 DEF WakeFromSuspend
    <1>13. ASSUME NEW s \in Sessions, UserCancel(s) PROVE GateType' BY <1>13 DEF UserCancel
    <1>14. ASSUME NEW s \in Sessions, UserQuit(s) PROVE GateType' BY <1>14 DEF UserQuit
    <1>15. ASSUME NEW s \in Sessions, CloseWindow(s) PROVE GateType' BY <1>15 DEF CloseWindow
    <1>16. CASE CallbackBegin
        <2>1. CASE "Terminating" \in gate[cb.of]
            <3>1. cb' = NoCall /\ UNCHANGED gate
                BY <1>16, <2>1 DEF CallbackBegin
            <3> QED BY <1>16, <2>1, <3>1 DEF CallbackBegin
        <2>2. CASE "Terminating" \notin gate[cb.of]
            <3>1. /\ gate' = [gate EXCEPT ![cb.of] =
                         BeginTermination(gate[cb.of], Surface = "recovery",
                                                Surface # "nothing")]
                              /\ cb' = [cb EXCEPT !.pc = "report", !.surface = Surface]
                BY <1>16, <2>2 DEF CallbackBegin
            <3> QED BY <1>16, <2>2, <3>1 DEF CallbackBegin
        <2> QED BY <1>16, <2>1, <2>2
    <1>17. CASE ShutdownNotify
        <2>1. CASE registered = NoSession
            <3>1. UNCHANGED <<flag, gate>> /\ spc' = "dispatch"
                BY <1>17, <2>1 DEF ShutdownNotify, Raise
            <3> QED BY <1>17, <2>1, <3>1 DEF ShutdownNotify
        <2>2. CASE registered # NoSession
            <3>1. /\ flag' = [flag EXCEPT ![registered] = flag[registered] \cup ExitMarks]
                  /\ gate' = [gate EXCEPT ![registered] = Cancel(gate[registered])]
                  /\ spc' = "terminate"
                BY <1>17, <2>2 DEF ShutdownNotify, Raise
            <3> QED BY <1>17, <2>2, <3>1 DEF ShutdownNotify
        <2> QED BY <1>17, <2>1, <2>2
    <1>18. CASE ShutdownTerminate BY <1>18 DEF ShutdownTerminate
    <1>19. CASE UNCHANGED <<gate>> BY <1>19
    <1>20. CASE \/ CreateSession
             \/ HandleRecovery
             \/ HandleNotify
             \/ HandleQuit
             \/ Exit
             \/ \E s \in Sessions : AcquireSlot(s) \/ PrepareConnection(s)
                     \/ CheckLaunched(s) \/ StartConnection(s) \/ StartReturns(s)
                     \/ JudgeAttempt(s) \/ Backoff(s) \/ EndAttempts(s)
                     \/ ConnectionStarted(s)
        BY <1>20, <1>19 DEF CreateSession, HandleRecovery, HandleNotify, HandleQuit, Exit,
            AcquireSlot, PrepareConnection, CheckLaunched, StartConnection, StartReturns,
            JudgeAttempt, Backoff, EndAttempts, ConnectionStarted, execVars, objectVars, connVars,
            uiVars, lifeVars
    <1>21. CASE \/ \E s \in Sessions : OpenWindow(s) \/ SeeTermination(s) \/ HandleEvent(s)
                     \/ FinishQuit(s) \/ QuitLoop(s) \/ StopConnection(s) \/ Decide(s)
                     \/ AskHost(s) \/ QuitHostApp(s) \/ Unregister(s) \/ ClearActive(s)
                     \/ ReleaseSlot(s) \/ TakeEvent(s) \/ SystemQuit(s)
        BY <1>21, <1>19 DEF OpenWindow, SeeTermination, HandleEvent, FinishQuit, QuitLoop,
            StopConnection, Decide, AskHost, QuitHostApp, Unregister, ClearActive, ReleaseSlot,
            TakeEvent, SystemQuit, execVars, objectVars, connVars, uiVars, lifeVars
    <1>22. CASE \/ TerminateConnection
             \/ CallbackCheck
             \/ CallbackRecord
             \/ CallbackClassify
             \/ CallbackReport
             \/ RequestShutdown
             \/ ShutdownDispatch
             \/ HostChanges
             \/ \E s \in Sessions : DecoderFails(s)
        BY <1>22, <1>19 DEF DecoderFails, TerminateConnection, CallbackCheck, CallbackRecord,
            CallbackClassify, CallbackReport, RequestShutdown, ShutdownDispatch, HostChanges,
            execVars, objectVars, connVars, uiVars, lifeVars
    <1> QED
        BY <1>1, <1>2, <1>3, <1>4, <1>5, <1>6, <1>7, <1>8, <1>9, <1>10, <1>11, <1>12, <1>13,
            <1>14, <1>15, <1>16, <1>17, <1>18, <1>19, <1>20, <1>21, <1>22
        DEF Next, MainThread, Progress, Stimulus, Callback, Requester, Exited, vars, execVars,
            objectVars, connVars, uiVars, lifeVars

\* A session's flags stay among the atomics it has.
LEMMA FlagTypeStep == IInv /\ [Next]_vars => FlagType'
    <1> SUFFICES ASSUME IInv, [Next]_vars PROVE FlagType'
        OBVIOUS
    <1> USE Domains DEF IInv, FlagType, Flags, Raise, DisconnectMarks, RegistryUnlocked,
        ExitMarks, Goto, Lower, RequestReturned, ProducersStopped, Down, Queued, MustLeave,
        RequestAppExit, NoCall
    <1>1. CASE UserDismiss BY <1>1 DEF UserDismiss
    <1>2. CASE LeaveEventLoop BY <1>2 DEF LeaveEventLoop
    <1>3. ASSUME NEW s \in Sessions, Exec(s) PROVE FlagType'
        <2>1. CASE reason = "None"
            <3>1. UNCHANGED <<flag, gate>>
                BY <1>3, <2>1 DEF Exec, Raise, Goto, RegistryUnlocked, ExitRequestedBefore
            <3> QED BY <1>3, <2>1, <3>1 DEF Exec
        <2>2. CASE reason # "None"
            <3>1. /\ flag' = [flag EXCEPT ![s] = flag[s] \cup ExitMarks]
                  /\ gate' = [gate EXCEPT ![s] =
                         BeginTermination(Cancel(gate[s]), FALSE, FALSE)]
                BY <1>3, <2>2 DEF Exec, Raise, Goto, RegistryUnlocked, ExitRequestedBefore
            <3> QED BY <1>3, <2>2, <3>1 DEF Exec
        <2> QED BY <1>3, <2>1, <2>2
    <1>4. ASSUME NEW s \in Sessions, PrepareConnection(s) PROVE FlagType'
        <2>1. CASE pc' = [pc EXCEPT ![s] = "cleanup"] /\ UNCHANGED flag
            BY <1>4, <2>1 DEF PrepareConnection
        <2>2. CASE pc' = [pc EXCEPT ![s] = "launching"] /\ Raise(s, {"Suppress"})
            BY <1>4, <2>2 DEF PrepareConnection
        <2>3. CASE pc' = [pc EXCEPT ![s] = "launching"] /\ UNCHANGED flag
            BY <1>4, <2>3 DEF PrepareConnection
        <2> QED BY <1>4, <2>1, <2>2, <2>3 DEF PrepareConnection, Goto
    <1>5. ASSUME NEW s \in Sessions, StartConnection(s) PROVE FlagType'
        BY <1>5 DEF StartConnection
    <1>6. ASSUME NEW s \in Sessions, EndAttempts(s) PROVE FlagType' BY <1>6 DEF EndAttempts
    <1>7. ASSUME NEW s \in Sessions, ConnectionStarted(s) PROVE FlagType'
        BY <1>7 DEF ConnectionStarted
    <1>8. ASSUME NEW s \in Sessions, OpenWindow(s) PROVE FlagType'
        <2>1. CASE pc' = [pc EXCEPT ![s] = "streaming"] /\ Lower(s, {"Unexpected"})
            BY <1>8, <2>1 DEF OpenWindow
        <2>2. CASE pc' = [pc EXCEPT ![s] = "cleanup"] /\ UNCHANGED flag
            BY <1>8, <2>2 DEF OpenWindow
        <2> QED BY <1>8, <2>1, <2>2 DEF OpenWindow, Goto
    <1>9. ASSUME NEW s \in Sessions, FinishSystemQuit(s) PROVE FlagType'
        BY <1>9 DEF FinishSystemQuit
    <1>10. ASSUME NEW s \in Sessions, StopConnection(s) PROVE FlagType'
        BY <1>10 DEF StopConnection
    <1>11. ASSUME NEW s \in Sessions, WakeFromSuspend(s) PROVE FlagType'
        BY <1>11 DEF WakeFromSuspend
    <1>12. ASSUME NEW s \in Sessions, UserCancel(s) PROVE FlagType' BY <1>12 DEF UserCancel
    <1>13. ASSUME NEW s \in Sessions, UserQuit(s) PROVE FlagType' BY <1>13 DEF UserQuit
    <1>14. ASSUME NEW s \in Sessions, CloseWindow(s) PROVE FlagType' BY <1>14 DEF CloseWindow
    <1>15. CASE CallbackRecord BY <1>15 DEF CallbackRecord
    <1>16. CASE CallbackReport BY <1>16 DEF CallbackReport
    <1>17. CASE ShutdownNotify
        <2>1. CASE registered = NoSession
            <3>1. UNCHANGED <<flag, gate>> /\ spc' = "dispatch"
                BY <1>17, <2>1 DEF ShutdownNotify, Raise
            <3> QED BY <1>17, <2>1, <3>1 DEF ShutdownNotify
        <2>2. CASE registered # NoSession
            <3>1. /\ flag' = [flag EXCEPT ![registered] = flag[registered] \cup ExitMarks]
                  /\ gate' = [gate EXCEPT ![registered] = Cancel(gate[registered])]
                  /\ spc' = "terminate"
                BY <1>17, <2>2 DEF ShutdownNotify, Raise
            <3> QED BY <1>17, <2>2, <3>1 DEF ShutdownNotify
        <2> QED BY <1>17, <2>1, <2>2
    <1>18. CASE UNCHANGED <<flag>> BY <1>18
    <1>19. CASE \/ CreateSession
             \/ HandleRecovery
             \/ HandleNotify
             \/ HandleQuit
             \/ UserResume
             \/ Exit
             \/ \E s \in Sessions : Initialize(s) \/ AcquireSlot(s) \/ Launch(s)
                     \/ CheckLaunched(s) \/ StartReturns(s) \/ JudgeAttempt(s)
                     \/ Backoff(s) \/ SeeTermination(s)
        BY <1>19, <1>18 DEF CreateSession, HandleRecovery, HandleNotify, HandleQuit, UserResume,
            Exit, Initialize, AcquireSlot, Launch, CheckLaunched, StartReturns, JudgeAttempt,
            Backoff, SeeTermination, execVars, objectVars, connVars, uiVars, lifeVars
    <1>20. CASE \/ \E s \in Sessions : HandleEvent(s) \/ FinishCancel(s) \/ FinishQuit(s)
                     \/ QuitLoop(s) \/ Teardown(s) \/ BeginCleanupTask(s) \/ Decide(s)
                     \/ AskHost(s) \/ QuitHostApp(s) \/ Complete(s) \/ Unregister(s)
                     \/ ClearActive(s) \/ ReleaseSlot(s) \/ TakeEvent(s)
        BY <1>20, <1>18 DEF HandleEvent, FinishCancel, FinishQuit, QuitLoop, Teardown,
            BeginCleanupTask, Decide, AskHost, QuitHostApp, Complete, Unregister, ClearActive,
            ReleaseSlot, TakeEvent, execVars, objectVars, connVars, uiVars, lifeVars
    <1>21. CASE \/ TerminateConnection
             \/ CallbackCheck
             \/ CallbackClassify
             \/ CallbackBegin
             \/ RequestShutdown
             \/ ShutdownTerminate
             \/ ShutdownDispatch
             \/ HostChanges
             \/ \E s \in Sessions : SystemQuit(s) \/ DecoderFails(s)
        BY <1>21, <1>18 DEF SystemQuit, DecoderFails, TerminateConnection, CallbackCheck,
            CallbackClassify, CallbackBegin, RequestShutdown, ShutdownTerminate, ShutdownDispatch,
            HostChanges, execVars, objectVars, connVars, uiVars, lifeVars
    <1> QED
        BY <1>1, <1>2, <1>3, <1>4, <1>5, <1>6, <1>7, <1>8, <1>9, <1>10, <1>11, <1>12, <1>13,
            <1>14, <1>15, <1>16, <1>17, <1>18, <1>19, <1>20, <1>21
        DEF Next, MainThread, Progress, Stimulus, Callback, Requester, Exited, vars, execVars,
            objectVars, connVars, uiVars, lifeVars

\* The user is told of the two kinds of failures only.
LEMMA ToldTypeStep == IInv /\ [Next]_vars => ToldType'
    <1> SUFFICES ASSUME IInv, [Next]_vars PROVE ToldType'
        OBVIOUS
    <1> USE Domains DEF IInv, ToldType, Goto, OfferAnotherResume, Tell, Queued, MustLeave,
        NoCall
    <1>1. ASSUME NEW s \in Sessions, Launch(s) PROVE ToldType'
        <2>1. CASE pc' = [pc EXCEPT ![s] = "launched"] /\ UNCHANGED <<gate, told, inbox>>
            BY <1>1, <2>1 DEF Launch
        <2>2. CASE pc' = [pc EXCEPT ![s] = "giveUp"] /\ UNCHANGED <<gate, told, inbox>>
            BY <1>1, <2>2 DEF Launch
        <2>3. CASE pc' = [pc EXCEPT ![s] = "giveUp"] /\ OfferAnotherResume(s)
            BY <1>1, <2>3 DEF Launch
        <2> QED BY <1>1, <2>1, <2>2, <2>3 DEF Launch, Goto
    <1>2. ASSUME NEW s \in Sessions, WakeFromSuspend(s) PROVE ToldType'
        BY <1>2 DEF WakeFromSuspend
    <1>3. ASSUME NEW s \in Sessions, DecoderFails(s) PROVE ToldType' BY <1>3 DEF DecoderFails
    <1>4. CASE CallbackReport
        <2>1. CASE cb.surface = "recovery"
            <3>1. inbox' = Append(inbox, Queued("recovery", cb.of)) /\ Tell(cb.of, "lost")
                BY <1>4, <2>1 DEF CallbackReport, Tell
            <3> QED BY <1>4, <2>1, <3>1 DEF CallbackReport
        <2>2. CASE cb.surface = "error"
            <3>1. UNCHANGED inbox /\ Tell(cb.of, "lost")
                BY <1>4, <2>2 DEF CallbackReport, Tell
            <3> QED BY <1>4, <2>2, <3>1 DEF CallbackReport
        <2>3. CASE cb.surface = "nothing"
            <3>1. UNCHANGED <<inbox, told>>
                BY <1>4, <2>3 DEF CallbackReport, Tell
            <3> QED BY <1>4, <2>3, <3>1 DEF CallbackReport
        <2> QED BY <1>4, <2>1, <2>2, <2>3
    <1>5. CASE UNCHANGED <<told>> BY <1>5
    <1>6. CASE \/ CreateSession
             \/ HandleRecovery
             \/ HandleNotify
             \/ HandleQuit
             \/ UserResume
             \/ UserDismiss
             \/ LeaveEventLoop
             \/ Exit
             \/ \E s \in Sessions : Exec(s) \/ Initialize(s) \/ AcquireSlot(s)
                     \/ PrepareConnection(s) \/ CheckLaunched(s) \/ StartConnection(s)
        BY <1>6, <1>5 DEF CreateSession, HandleRecovery, HandleNotify, HandleQuit, UserResume,
            UserDismiss, LeaveEventLoop, Exit, Exec, Initialize, AcquireSlot, PrepareConnection,
            CheckLaunched, StartConnection, execVars, objectVars, connVars, uiVars, lifeVars
    <1>7. CASE \/ \E s \in Sessions : StartReturns(s) \/ JudgeAttempt(s) \/ Backoff(s)
                     \/ EndAttempts(s) \/ ConnectionStarted(s) \/ OpenWindow(s)
                     \/ SeeTermination(s) \/ HandleEvent(s) \/ FinishCancel(s)
                     \/ FinishQuit(s) \/ FinishSystemQuit(s) \/ QuitLoop(s)
                     \/ Teardown(s) \/ BeginCleanupTask(s)
        BY <1>7, <1>5 DEF StartReturns, JudgeAttempt, Backoff, EndAttempts, ConnectionStarted,
            OpenWindow, SeeTermination, HandleEvent, FinishCancel, FinishQuit, FinishSystemQuit,
            QuitLoop, Teardown, BeginCleanupTask, execVars, objectVars, connVars, uiVars, lifeVars
    <1>8. CASE \/ TerminateConnection
             \/ \E s \in Sessions : StopConnection(s) \/ Decide(s) \/ AskHost(s)
                     \/ QuitHostApp(s) \/ Complete(s) \/ Unregister(s) \/ ClearActive(s)
                     \/ ReleaseSlot(s) \/ TakeEvent(s) \/ UserCancel(s) \/ UserQuit(s)
                     \/ SystemQuit(s) \/ CloseWindow(s)
        BY <1>8, <1>5 DEF StopConnection, Decide, AskHost, QuitHostApp, Complete, Unregister,
            ClearActive, ReleaseSlot, TakeEvent, UserCancel, UserQuit, SystemQuit, CloseWindow,
            TerminateConnection, execVars, objectVars, connVars, uiVars, lifeVars
    <1>9. CASE \/ CallbackCheck
             \/ CallbackRecord
             \/ CallbackClassify
             \/ CallbackBegin
             \/ RequestShutdown
             \/ ShutdownNotify
             \/ ShutdownTerminate
             \/ ShutdownDispatch
             \/ HostChanges
        BY <1>9, <1>5 DEF CallbackCheck, CallbackRecord, CallbackClassify, CallbackBegin,
            RequestShutdown, ShutdownNotify, ShutdownTerminate, ShutdownDispatch, HostChanges,
            execVars, objectVars, connVars, uiVars, lifeVars
    <1> QED
        BY <1>1, <1>2, <1>3, <1>4, <1>5, <1>6, <1>7, <1>8, <1>9
        DEF Next, MainThread, Progress, Stimulus, Callback, Requester, Exited, vars, execVars,
            objectVars, connVars, uiVars, lifeVars

\* The connection is down or some session's.
LEMMA ConnTypeStep == IInv /\ [Next]_vars => ConnType'
    <1> SUFFICES ASSUME IInv, [Next]_vars PROVE ConnType'
        OBVIOUS
    <1> USE Domains DEF IInv, ConnType, Down, Goto, ProducersStopped, Queued, NoCall
    <1>1. ASSUME NEW s \in Sessions, AcquireSlot(s) PROVE ConnType' BY <1>1 DEF AcquireSlot
    <1>2. ASSUME NEW s \in Sessions, StartConnection(s) PROVE ConnType'
        BY <1>2 DEF StartConnection
    <1>3. ASSUME NEW s \in Sessions, StartReturns(s) PROVE ConnType' BY <1>3 DEF StartReturns
    <1>4. ASSUME NEW s \in Sessions, StopConnection(s) PROVE ConnType'
        BY <1>4 DEF StopConnection
    <1>5. ASSUME NEW s \in Sessions, ClearActive(s) PROVE ConnType' BY <1>5 DEF ClearActive
    <1>6. ASSUME NEW s \in Sessions, ReleaseSlot(s) PROVE ConnType' BY <1>6 DEF ReleaseSlot
    <1>7. CASE TerminateConnection BY <1>7 DEF TerminateConnection
    <1>8. CASE UNCHANGED <<active, conn, slot>> BY <1>8
    <1>9. CASE \/ CreateSession
             \/ HandleRecovery
             \/ HandleNotify
             \/ HandleQuit
             \/ UserResume
             \/ UserDismiss
             \/ LeaveEventLoop
             \/ Exit
             \/ \E s \in Sessions : Exec(s) \/ Initialize(s) \/ PrepareConnection(s)
                     \/ Launch(s) \/ CheckLaunched(s) \/ JudgeAttempt(s)
        BY <1>9, <1>8 DEF CreateSession, HandleRecovery, HandleNotify, HandleQuit, UserResume,
            UserDismiss, LeaveEventLoop, Exit, Exec, Initialize, PrepareConnection, Launch,
            CheckLaunched, JudgeAttempt, execVars, objectVars, connVars, uiVars, lifeVars
    <1>10. CASE \/ \E s \in Sessions : Backoff(s) \/ EndAttempts(s) \/ ConnectionStarted(s)
                     \/ OpenWindow(s) \/ SeeTermination(s) \/ HandleEvent(s)
                     \/ FinishCancel(s) \/ FinishQuit(s) \/ FinishSystemQuit(s)
                     \/ QuitLoop(s) \/ Teardown(s) \/ BeginCleanupTask(s) \/ Decide(s)
                     \/ AskHost(s)
        BY <1>10, <1>8 DEF Backoff, EndAttempts, ConnectionStarted, OpenWindow, SeeTermination,
            HandleEvent, FinishCancel, FinishQuit, FinishSystemQuit, QuitLoop, Teardown,
            BeginCleanupTask, Decide, AskHost, execVars, objectVars, connVars, uiVars, lifeVars
    <1>11. CASE \/ CallbackCheck
             \/ CallbackRecord
             \/ CallbackClassify
             \/ CallbackBegin
             \/ \E s \in Sessions : QuitHostApp(s) \/ Complete(s) \/ Unregister(s)
                     \/ TakeEvent(s) \/ WakeFromSuspend(s) \/ UserCancel(s)
                     \/ UserQuit(s) \/ SystemQuit(s) \/ CloseWindow(s) \/ DecoderFails(s)
        BY <1>11, <1>8 DEF QuitHostApp, Complete, Unregister, TakeEvent, WakeFromSuspend,
            UserCancel, UserQuit, SystemQuit, CloseWindow, DecoderFails, CallbackCheck,
            CallbackRecord, CallbackClassify, CallbackBegin, execVars, objectVars, connVars,
            uiVars, lifeVars
    <1>12. CASE \/ CallbackReport
             \/ RequestShutdown
             \/ ShutdownNotify
             \/ ShutdownTerminate
             \/ ShutdownDispatch
             \/ HostChanges
        BY <1>12, <1>8 DEF CallbackReport, RequestShutdown, ShutdownNotify, ShutdownTerminate,
            ShutdownDispatch, HostChanges, execVars, objectVars, connVars, uiVars, lifeVars
    <1> QED
        BY <1>1, <1>2, <1>3, <1>4, <1>5, <1>6, <1>7, <1>8, <1>9, <1>10, <1>11, <1>12
        DEF Next, MainThread, Progress, Stimulus, Callback, Requester, Exited, vars, execVars,
            objectVars, connVars, uiVars, lifeVars

\* The callback keeps the shape NoCall gives it.
LEMMA CallbackTypeStep == IInv /\ [Next]_vars => CallbackType'
    <1> SUFFICES ASSUME IInv, [Next]_vars PROVE CallbackType'
        OBVIOUS
    <1> USE Domains DEF IInv, CallbackType, NoCall, Surface, Queued
    <1>1. CASE TerminateConnection BY <1>1 DEF TerminateConnection
    <1>2. CASE CallbackCheck BY <1>2 DEF CallbackCheck
    <1>3. CASE CallbackRecord BY <1>3 DEF CallbackRecord
    <1>4. CASE CallbackClassify
        <2> DEFINE b == "Intentional" \in flag[cb.of]
        <2>1. b \in BOOLEAN
            OBVIOUS
        <2>2. cb' = [cb EXCEPT !.pc = "begin", !.intentional = b]
            BY <1>4 DEF CallbackClassify
        <2> HIDE DEF b
        <2> QED BY <2>1, <2>2 DEF IInv, CallbackType
    <1>5. CASE CallbackBegin
        <2>1. CASE "Terminating" \in gate[cb.of]
            <3>1. cb' = NoCall /\ UNCHANGED gate
                BY <1>5, <2>1 DEF CallbackBegin
            <3> QED BY <1>5, <2>1, <3>1 DEF CallbackBegin
        <2>2. CASE "Terminating" \notin gate[cb.of]
            <3>1. /\ gate' = [gate EXCEPT ![cb.of] =
                         BeginTermination(gate[cb.of], Surface = "recovery",
                                                Surface # "nothing")]
                              /\ cb' = [cb EXCEPT !.pc = "report", !.surface = Surface]
                BY <1>5, <2>2 DEF CallbackBegin
            <3> QED BY <1>5, <2>2, <3>1 DEF CallbackBegin
        <2> QED BY <1>5, <2>1, <2>2
    <1>6. CASE CallbackReport BY <1>6 DEF CallbackReport
    <1>7. CASE UNCHANGED <<cb>> BY <1>7
    <1>8. CASE \/ CreateSession
             \/ HandleRecovery
             \/ HandleNotify
             \/ HandleQuit
             \/ UserResume
             \/ UserDismiss
             \/ LeaveEventLoop
             \/ Exit
             \/ \E s \in Sessions : Exec(s) \/ Initialize(s) \/ AcquireSlot(s)
                     \/ PrepareConnection(s) \/ Launch(s) \/ CheckLaunched(s)
        BY <1>8, <1>7 DEF CreateSession, HandleRecovery, HandleNotify, HandleQuit, UserResume,
            UserDismiss, LeaveEventLoop, Exit, Exec, Initialize, AcquireSlot, PrepareConnection,
            Launch, CheckLaunched, execVars, objectVars, connVars, uiVars, lifeVars
    <1>9. CASE \/ \E s \in Sessions : StartConnection(s) \/ StartReturns(s)
                     \/ JudgeAttempt(s) \/ Backoff(s) \/ EndAttempts(s)
                     \/ ConnectionStarted(s) \/ OpenWindow(s) \/ SeeTermination(s)
                     \/ HandleEvent(s) \/ FinishCancel(s) \/ FinishQuit(s)
                     \/ FinishSystemQuit(s) \/ QuitLoop(s) \/ Teardown(s)
        BY <1>9, <1>7 DEF StartConnection, StartReturns, JudgeAttempt, Backoff, EndAttempts,
            ConnectionStarted, OpenWindow, SeeTermination, HandleEvent, FinishCancel, FinishQuit,
            FinishSystemQuit, QuitLoop, Teardown, execVars, objectVars, connVars, uiVars, lifeVars
    <1>10. CASE \/ \E s \in Sessions : BeginCleanupTask(s) \/ StopConnection(s) \/ Decide(s)
                     \/ AskHost(s) \/ QuitHostApp(s) \/ Complete(s) \/ Unregister(s)
                     \/ ClearActive(s) \/ ReleaseSlot(s) \/ TakeEvent(s)
                     \/ WakeFromSuspend(s) \/ UserCancel(s) \/ UserQuit(s) \/ SystemQuit(s)
        BY <1>10, <1>7 DEF BeginCleanupTask, StopConnection, Decide, AskHost, QuitHostApp,
            Complete, Unregister, ClearActive, ReleaseSlot, TakeEvent, WakeFromSuspend,
            UserCancel, UserQuit, SystemQuit, execVars, objectVars, connVars, uiVars, lifeVars
    <1>11. CASE \/ RequestShutdown
             \/ ShutdownNotify
             \/ ShutdownTerminate
             \/ ShutdownDispatch
             \/ HostChanges
             \/ \E s \in Sessions : CloseWindow(s) \/ DecoderFails(s)
        BY <1>11, <1>7 DEF CloseWindow, DecoderFails, RequestShutdown, ShutdownNotify,
            ShutdownTerminate, ShutdownDispatch, HostChanges, execVars, objectVars, connVars,
            uiVars, lifeVars
    <1> QED
        BY <1>1, <1>2, <1>3, <1>4, <1>5, <1>6, <1>7, <1>8, <1>9, <1>10, <1>11
        DEF Next, MainThread, Progress, Stimulus, Callback, Requester, Exited, vars, execVars,
            objectVars, connVars, uiVars, lifeVars

\* A call in the queue names the session whose text is kept.
LEMMA UiTypeStep == IInv /\ [Next]_vars => UiType'
    <1> SUFFICES ASSUME IInv, [Next]_vars PROVE UiType'
        OBVIOUS
    <1> USE Domains DEF IInv, UiType, TypeOK, Goto, RegistryUnlocked
    <1>1. CASE CreateSession BY <1>1 DEF CreateSession
    <1>2. CASE HandleRecovery
        <2>1. Head(inbox) \in Calls(inbox) /\ Calls(inbox) \subseteq QueuedCalls
            BY <1>2, CallDelivered DEF IInv, HandleRecovery
        <2>2. Head(inbox).of \in Sessions
            BY <1>2, <2>1 DEF IInv, InboxInv, HandleRecovery, QueuedCalls
        <2> QED BY <1>2, <2>2 DEF HandleRecovery, IInv, UiType, TypeOK
    <1>3. CASE HandleNotify
        <2> DEFINE n == Head(inbox).of
        <2>1. /\ Head(inbox) \in Calls(inbox) /\ Calls(inbox) \subseteq QueuedCalls
              /\ Calls(inbox) = {Head(inbox)} \cup Calls(inbox')
              /\ \A c \in Calls(inbox') : c.what = "quit"
            BY <1>3, CallDelivered DEF IInv, HandleNotify, InboxInv
        <2>2. n \in Sessions /\ ui = "segue" /\ n = cur /\ pc[n] = "done"
            BY <1>3, <2>1 DEF IInv, InboxInv, HandleNotify, QueuedCalls
        <2> QED BY <1>3, <2>2 DEF HandleNotify, IInv, UiType, TypeOK
    <1>4. CASE UserResume BY <1>4 DEF UserResume, SegueInv
    <1>5. CASE UserDismiss BY <1>5 DEF UserDismiss, SegueInv
    <1>6. CASE UNCHANGED <<cur, deleted, recoveryText, resumeOnly, ui>> BY <1>6
    <1>7. CASE \/ HandleQuit
             \/ LeaveEventLoop
             \/ Exit
             \/ \E s \in Sessions : Exec(s) \/ Initialize(s) \/ AcquireSlot(s)
                     \/ PrepareConnection(s) \/ Launch(s) \/ CheckLaunched(s)
                     \/ StartConnection(s) \/ StartReturns(s) \/ JudgeAttempt(s)
                     \/ Backoff(s) \/ EndAttempts(s)
        BY <1>7, <1>6 DEF HandleQuit, LeaveEventLoop, Exit, Exec, Initialize, AcquireSlot,
            PrepareConnection, Launch, CheckLaunched, StartConnection, StartReturns, JudgeAttempt,
            Backoff, EndAttempts, execVars, objectVars, connVars, uiVars, lifeVars
    <1>8. CASE \/ \E s \in Sessions : ConnectionStarted(s) \/ OpenWindow(s)
                     \/ SeeTermination(s) \/ HandleEvent(s) \/ FinishCancel(s)
                     \/ FinishQuit(s) \/ FinishSystemQuit(s) \/ QuitLoop(s)
                     \/ Teardown(s) \/ BeginCleanupTask(s) \/ StopConnection(s)
                     \/ Decide(s) \/ AskHost(s) \/ QuitHostApp(s)
        BY <1>8, <1>6 DEF ConnectionStarted, OpenWindow, SeeTermination, HandleEvent,
            FinishCancel, FinishQuit, FinishSystemQuit, QuitLoop, Teardown, BeginCleanupTask,
            StopConnection, Decide, AskHost, QuitHostApp, execVars, objectVars, connVars, uiVars,
            lifeVars
    <1>9. CASE \/ TerminateConnection
             \/ CallbackCheck
             \/ CallbackRecord
             \/ \E s \in Sessions : Complete(s) \/ Unregister(s) \/ ClearActive(s)
                     \/ ReleaseSlot(s) \/ TakeEvent(s) \/ WakeFromSuspend(s)
                     \/ UserCancel(s) \/ UserQuit(s) \/ SystemQuit(s) \/ CloseWindow(s)
                     \/ DecoderFails(s)
        BY <1>9, <1>6 DEF Complete, Unregister, ClearActive, ReleaseSlot, TakeEvent,
            WakeFromSuspend, UserCancel, UserQuit, SystemQuit, CloseWindow, DecoderFails,
            TerminateConnection, CallbackCheck, CallbackRecord, execVars, objectVars, connVars,
            uiVars, lifeVars
    <1>10. CASE \/ CallbackClassify
             \/ CallbackBegin
             \/ CallbackReport
             \/ RequestShutdown
             \/ ShutdownNotify
             \/ ShutdownTerminate
             \/ ShutdownDispatch
             \/ HostChanges
        BY <1>10, <1>6 DEF CallbackClassify, CallbackBegin, CallbackReport, RequestShutdown,
            ShutdownNotify, ShutdownTerminate, ShutdownDispatch, HostChanges, execVars,
            objectVars, connVars, uiVars, lifeVars
    <1> QED
        BY <1>1, <1>2, <1>3, <1>4, <1>5, <1>6, <1>7, <1>8, <1>9, <1>10
        DEF Next, MainThread, Progress, Stimulus, Callback, Requester, Exited, vars, execVars,
            objectVars, connVars, uiVars, lifeVars

\* What is queued for the Qt thread is one of the three calls.
LEMMA InboxTypeStep == IInv /\ [Next]_vars => InboxType'
    <1> SUFFICES ASSUME IInv, [Next]_vars PROVE InboxType'
        OBVIOUS
    <1> USE Domains DEF IInv, InboxType, Queued, QueuedCalls, Goto, RegisteredAfterFailure,
        RegistryUnlocked, OfferAnotherResume, MustLeave, NoCall
    <1>1. CASE HandleRecovery
        <2>1. inbox # <<>> /\ inbox' = Tail(inbox)
            BY <1>1 DEF HandleRecovery
        <2>2. /\ Calls(inbox) \subseteq QueuedCalls
              /\ Calls(inbox) = {Head(inbox)} \cup Calls(inbox')
            BY <2>1, CallDelivered DEF IInv, InboxInv
        <2> QED BY <1>1, <2>2 DEF HandleRecovery
    <1>2. CASE HandleNotify
        <2>1. CASE Head(inbox).of \in recoveryText /\ MayResume(gate[Head(inbox).of])
            <3>1. inbox # <<>> /\ inbox' = Tail(inbox)
                BY <1>2, <2>1 DEF HandleNotify
            <3>2. /\ Calls(inbox) \subseteq QueuedCalls
                  /\ Calls(inbox) = {Head(inbox)} \cup Calls(inbox')
                BY <3>1, CallDelivered DEF IInv, InboxInv
            <3>3. ui' = "recovery" /\ UNCHANGED <<cur, deleted>>
                BY <1>2, <2>1 DEF HandleNotify
            <3> QED BY <1>2, <2>1, <3>2, <3>3 DEF HandleNotify
        <2>2. CASE ~(Head(inbox).of \in recoveryText /\ MayResume(gate[Head(inbox).of]))
            <3>1. inbox # <<>> /\ inbox' = Tail(inbox)
                BY <1>2, <2>2 DEF HandleNotify
            <3>2. /\ Calls(inbox) \subseteq QueuedCalls
                  /\ Calls(inbox) = {Head(inbox)} \cup Calls(inbox')
                BY <3>1, CallDelivered DEF IInv, InboxInv
            <3>3. ui' = "list" /\ cur' = NoSession /\ deleted' = deleted \cup {Head(inbox).of}
                BY <1>2, <2>2 DEF HandleNotify
            <3> QED BY <1>2, <2>2, <3>2, <3>3 DEF HandleNotify
        <2> QED BY <1>2, <2>1, <2>2
    <1>3. CASE HandleQuit
        <2>1. inbox # <<>> /\ inbox' = Tail(inbox)
            BY <1>3 DEF HandleQuit
        <2>2. /\ Calls(inbox) \subseteq QueuedCalls
              /\ Calls(inbox) = {Head(inbox)} \cup Calls(inbox')
            BY <2>1, CallDelivered DEF IInv, InboxInv
        <2> QED BY <1>3, <2>2 DEF HandleQuit
    <1>4. ASSUME NEW s \in Sessions, Initialize(s) PROVE InboxType'
        <2>1. CASE pc' = [pc EXCEPT ![s] = "waiting"] /\ UNCHANGED <<gate, registered, inbox>>
            BY <1>4, <2>1 DEF Initialize
        <2>2. CASE /\ pc' = [pc EXCEPT ![s] = "done"]
                  /\ registered' = NoSession /\ spc # "terminate"
                  /\ gate' = [gate EXCEPT ![s] = CompleteCleanup(gate[s])]
                  /\ inbox' = Append(inbox, Queued("notify", s))
            <3>1. /\ Queued("notify", s) \in QueuedCalls
                  /\ inbox' = Append(inbox, Queued("notify", s))
                BY <1>4, <2>2 DEF Initialize, OfferAnotherResume, Queued, QueuedCalls
            <3>2. /\ Calls(inbox) \subseteq QueuedCalls
                  /\ Calls(inbox') = Calls(inbox) \cup {Queued("notify", s)}
                BY <3>1, CallAppended DEF IInv, InboxInv
            <3> QED BY <1>4, <2>2, <3>2 DEF Initialize
        <2> QED BY <1>4, <2>1, <2>2 DEF Initialize, Goto, RegistryUnlocked, RegisteredAfterFailure
    <1>5. ASSUME NEW s \in Sessions, Launch(s) PROVE InboxType'
        <2>1. CASE pc' = [pc EXCEPT ![s] = "launched"] /\ UNCHANGED <<gate, told, inbox>>
            BY <1>5, <2>1 DEF Launch
        <2>2. CASE pc' = [pc EXCEPT ![s] = "giveUp"] /\ UNCHANGED <<gate, told, inbox>>
            BY <1>5, <2>2 DEF Launch
        <2>3. CASE pc' = [pc EXCEPT ![s] = "giveUp"] /\ OfferAnotherResume(s)
            <3>1. /\ Queued("recovery", s) \in QueuedCalls
                  /\ inbox' = Append(inbox, Queued("recovery", s))
                BY <1>5, <2>3 DEF Launch, OfferAnotherResume, Queued, QueuedCalls
            <3>2. /\ Calls(inbox) \subseteq QueuedCalls
                  /\ Calls(inbox') = Calls(inbox) \cup {Queued("recovery", s)}
                BY <3>1, CallAppended DEF IInv, InboxInv
            <3> QED BY <1>5, <2>3, <3>2 DEF Launch
        <2> QED BY <1>5, <2>1, <2>2, <2>3 DEF Launch, Goto
    <1>6. ASSUME NEW s \in Sessions, ReleaseSlot(s) PROVE InboxType'
        <2>1. Queued("notify", s) \in QueuedCalls /\ inbox' = Append(inbox, Queued("notify", s))
            BY <1>6 DEF ReleaseSlot, OfferAnotherResume, Queued, QueuedCalls
        <2>2. /\ Calls(inbox) \subseteq QueuedCalls
              /\ Calls(inbox') = Calls(inbox) \cup {Queued("notify", s)}
            BY <2>1, CallAppended DEF IInv, InboxInv
        <2> QED BY <1>6, <2>2 DEF ReleaseSlot
    <1>7. ASSUME NEW s \in Sessions, WakeFromSuspend(s) PROVE InboxType'
        <2>1. /\ Queued("recovery", s) \in QueuedCalls
              /\ inbox' = Append(inbox, Queued("recovery", s))
            BY <1>7 DEF WakeFromSuspend, OfferAnotherResume, Queued, QueuedCalls
        <2>2. /\ Calls(inbox) \subseteq QueuedCalls
              /\ Calls(inbox') = Calls(inbox) \cup {Queued("recovery", s)}
            BY <2>1, CallAppended DEF IInv, InboxInv
        <2> QED BY <1>7, <2>2 DEF WakeFromSuspend
    <1>8. CASE CallbackReport
        <2>1. CASE cb.surface = "recovery"
            <3>1. /\ Queued("recovery", cb.of) \in QueuedCalls
                  /\ inbox' = Append(inbox, Queued("recovery", cb.of))
                BY <1>8, <2>1, Domains DEF CallbackReport, IInv, ConnInv, Tell, Queued,
                    QueuedCalls, NoSession
            <3>2. /\ Calls(inbox) \subseteq QueuedCalls
                  /\ Calls(inbox') = Calls(inbox) \cup {Queued("recovery", cb.of)}
                BY <3>1, CallAppended DEF IInv, InboxInv
            <3>3. inbox' = Append(inbox, Queued("recovery", cb.of)) /\ Tell(cb.of, "lost")
                BY <1>8, <2>1 DEF CallbackReport, Tell
            <3> QED BY <1>8, <2>1, <3>2, <3>3 DEF CallbackReport
        <2>2. CASE cb.surface = "error"
            <3>1. UNCHANGED inbox /\ Tell(cb.of, "lost")
                BY <1>8, <2>2 DEF CallbackReport, Tell
            <3> QED BY <1>8, <2>2, <3>1 DEF CallbackReport
        <2>3. CASE cb.surface = "nothing"
            <3>1. UNCHANGED <<inbox, told>>
                BY <1>8, <2>3 DEF CallbackReport, Tell
            <3> QED BY <1>8, <2>3, <3>1 DEF CallbackReport
        <2> QED BY <1>8, <2>1, <2>2, <2>3
    <1>9. CASE ShutdownDispatch
        <2>1. /\ Queued("quit", NoSession) \in QueuedCalls
              /\ inbox' = Append(inbox, Queued("quit", NoSession))
            BY <1>9 DEF ShutdownDispatch, OfferAnotherResume, Queued, QueuedCalls
        <2>2. /\ Calls(inbox) \subseteq QueuedCalls
              /\ Calls(inbox') = Calls(inbox) \cup {Queued("quit", NoSession)}
            BY <2>1, CallAppended DEF IInv, InboxInv
        <2> QED BY <1>9, <2>2 DEF ShutdownDispatch
    <1>10. CASE UNCHANGED <<inbox>> BY <1>10
    <1>11. CASE \/ CreateSession
             \/ UserResume
             \/ UserDismiss
             \/ LeaveEventLoop
             \/ Exit
             \/ \E s \in Sessions : Exec(s) \/ AcquireSlot(s) \/ PrepareConnection(s)
                     \/ CheckLaunched(s) \/ StartConnection(s) \/ StartReturns(s)
                     \/ JudgeAttempt(s) \/ Backoff(s) \/ EndAttempts(s)
        BY <1>11, <1>10 DEF CreateSession, UserResume, UserDismiss, LeaveEventLoop, Exit, Exec,
            AcquireSlot, PrepareConnection, CheckLaunched, StartConnection, StartReturns,
            JudgeAttempt, Backoff, EndAttempts, execVars, objectVars, connVars, uiVars, lifeVars
    <1>12. CASE \/ \E s \in Sessions : ConnectionStarted(s) \/ OpenWindow(s)
                     \/ SeeTermination(s) \/ HandleEvent(s) \/ FinishCancel(s)
                     \/ FinishQuit(s) \/ FinishSystemQuit(s) \/ QuitLoop(s)
                     \/ Teardown(s) \/ BeginCleanupTask(s) \/ StopConnection(s)
                     \/ Decide(s) \/ AskHost(s) \/ QuitHostApp(s)
        BY <1>12, <1>10 DEF ConnectionStarted, OpenWindow, SeeTermination, HandleEvent,
            FinishCancel, FinishQuit, FinishSystemQuit, QuitLoop, Teardown, BeginCleanupTask,
            StopConnection, Decide, AskHost, QuitHostApp, execVars, objectVars, connVars, uiVars,
            lifeVars
    <1>13. CASE \/ TerminateConnection
             \/ CallbackCheck
             \/ CallbackRecord
             \/ CallbackClassify
             \/ CallbackBegin
             \/ \E s \in Sessions : Complete(s) \/ Unregister(s) \/ ClearActive(s)
                     \/ TakeEvent(s) \/ UserCancel(s) \/ UserQuit(s) \/ SystemQuit(s)
                     \/ CloseWindow(s) \/ DecoderFails(s)
        BY <1>13, <1>10 DEF Complete, Unregister, ClearActive, TakeEvent, UserCancel, UserQuit,
            SystemQuit, CloseWindow, DecoderFails, TerminateConnection, CallbackCheck,
            CallbackRecord, CallbackClassify, CallbackBegin, execVars, objectVars, connVars,
            uiVars, lifeVars
    <1>14. CASE \/ RequestShutdown
             \/ ShutdownNotify
             \/ ShutdownTerminate
             \/ HostChanges
        BY <1>14, <1>10 DEF RequestShutdown, ShutdownNotify, ShutdownTerminate, HostChanges,
            execVars, objectVars, connVars, uiVars, lifeVars
    <1> QED
        BY <1>1, <1>2, <1>3, <1>4, <1>5, <1>6, <1>7, <1>8, <1>9, <1>10, <1>11, <1>12, <1>13, <1>14
        DEF Next, MainThread, Progress, Stimulus, Callback, Requester, Exited, vars, execVars,
            objectVars, connVars, uiVars, lifeVars

\* The registry, the shutdown request and the host keep their ranges.
LEMMA LifeTypeStep == IInv /\ [Next]_vars => LifeType'
    <1> SUFFICES ASSUME IInv, [Next]_vars PROVE LifeType'
        OBVIOUS
    <1> USE Domains DEF IInv, TypeOK, LifeType, ExitClient, Goto, ClearRecovery,
        RegistryUnlocked, Queued, RegisteredAfterFailure, OfferAnotherResume, RequestReturned,
        MayUnregister, RequestAppExit, lifeVars
    <1>1. CASE HandleNotify
        <2>1. CASE Head(inbox).of \in recoveryText /\ MayResume(gate[Head(inbox).of])
            <3>1. ui' = "recovery" /\ UNCHANGED <<cur, deleted>>
                BY <1>1, <2>1 DEF HandleNotify
            <3> QED BY <1>1, <2>1, <3>1 DEF HandleNotify
        <2>2. CASE ~(Head(inbox).of \in recoveryText /\ MayResume(gate[Head(inbox).of]))
            <3>1. ui' = "list" /\ cur' = NoSession /\ deleted' = deleted \cup {Head(inbox).of}
                BY <1>1, <2>2 DEF HandleNotify
            <3> QED BY <1>1, <2>2, <3>1 DEF HandleNotify
        <2> QED BY <1>1, <2>1, <2>2
    <1>2. CASE HandleQuit BY <1>2 DEF HandleQuit
    <1>3. CASE UserResume BY <1>3 DEF UserResume
    <1>4. CASE UserDismiss BY <1>4 DEF UserDismiss
    <1>5. CASE LeaveEventLoop BY <1>5 DEF LeaveEventLoop
    <1>6. CASE Exit BY <1>6 DEF Exit
    <1>7. ASSUME NEW s \in Sessions, Exec(s) PROVE LifeType' BY <1>7 DEF Exec
    <1>8. ASSUME NEW s \in Sessions, Initialize(s) PROVE LifeType'
        <2>1. CASE pc' = [pc EXCEPT ![s] = "waiting"] /\ UNCHANGED <<gate, registered, inbox>>
            BY <1>8, <2>1 DEF Initialize
        <2>2. CASE /\ pc' = [pc EXCEPT ![s] = "done"]
                  /\ registered' = NoSession /\ spc # "terminate"
                  /\ gate' = [gate EXCEPT ![s] = CompleteCleanup(gate[s])]
                  /\ inbox' = Append(inbox, Queued("notify", s))
            BY <1>8, <2>2 DEF Initialize
        <2> QED BY <1>8, <2>1, <2>2 DEF Initialize, Goto, RegistryUnlocked, RegisteredAfterFailure
    <1>9. ASSUME NEW s \in Sessions, Launch(s) PROVE LifeType'
        <2>1. host' \in {"ours", host} /\ UNCHANGED lifeVars
            BY <1>9 DEF Launch
        <2> QED BY <2>1
    <1>10. ASSUME NEW s \in Sessions, FinishQuit(s) PROVE LifeType' BY <1>10 DEF FinishQuit
    <1>11. ASSUME NEW s \in Sessions, QuitHostApp(s) PROVE LifeType' BY <1>11 DEF QuitHostApp
    <1>12. ASSUME NEW s \in Sessions, Unregister(s) PROVE LifeType' BY <1>12 DEF Unregister
    <1>13. ASSUME NEW s \in Sessions, UserCancel(s) PROVE LifeType' BY <1>13 DEF UserCancel
    <1>14. ASSUME NEW s \in Sessions, UserQuit(s) PROVE LifeType'
        <2>1. CASE reason = "None"
            <3>1. reason' = "Exit" /\ spc' = "notify"
                BY <1>14, <2>1 DEF UserQuit, Raise, Goto, RequestAppExit
            <3> QED BY <1>14, <2>1, <3>1 DEF UserQuit
        <2>2. CASE reason # "None"
            <3>1. UNCHANGED <<reason, spc>>
                BY <1>14, <2>2 DEF UserQuit, Raise, Goto, RequestAppExit
            <3> QED BY <1>14, <2>2, <3>1 DEF UserQuit
        <2> QED BY <1>14, <2>1, <2>2
    <1>15. ASSUME NEW s \in Sessions, SystemQuit(s) PROVE LifeType'
        <2>1. CASE reason = "None"
            <3>1. reason' = "Exit" /\ spc' = "notify"
                BY <1>15, <2>1 DEF SystemQuit, Goto, RequestAppExit
            <3> QED BY <1>15, <2>1, <3>1 DEF SystemQuit
        <2>2. CASE reason # "None"
            <3>1. UNCHANGED <<reason, spc>>
                BY <1>15, <2>2 DEF SystemQuit, Goto, RequestAppExit
            <3> QED BY <1>15, <2>2, <3>1 DEF SystemQuit
        <2> QED BY <1>15, <2>1, <2>2
    <1>16. CASE RequestShutdown BY <1>16 DEF RequestShutdown
    <1>17. CASE ShutdownNotify
        <2>1. CASE registered = NoSession
            <3>1. UNCHANGED <<flag, gate>> /\ spc' = "dispatch"
                BY <1>17, <2>1 DEF ShutdownNotify, Raise
            <3> QED BY <1>17, <2>1, <3>1 DEF ShutdownNotify
        <2>2. CASE registered # NoSession
            <3>1. /\ flag' = [flag EXCEPT ![registered] = flag[registered] \cup ExitMarks]
                  /\ gate' = [gate EXCEPT ![registered] = Cancel(gate[registered])]
                  /\ spc' = "terminate"
                BY <1>17, <2>2 DEF ShutdownNotify, Raise
            <3> QED BY <1>17, <2>2, <3>1 DEF ShutdownNotify
        <2> QED BY <1>17, <2>1, <2>2
    <1>18. CASE ShutdownTerminate BY <1>18 DEF ShutdownTerminate
    <1>19. CASE ShutdownDispatch BY <1>19 DEF ShutdownDispatch
    <1>20. CASE HostChanges BY <1>20 DEF HostChanges
    <1>21. CASE UNCHANGED <<host, mpc, quitting, reason, recoveryContext, registered,
                              requester, spc>>
        BY <1>21
    <1>22. CASE \/ CreateSession
             \/ HandleRecovery
             \/ \E s \in Sessions : AcquireSlot(s) \/ PrepareConnection(s)
                     \/ CheckLaunched(s) \/ StartConnection(s) \/ StartReturns(s)
                     \/ JudgeAttempt(s) \/ Backoff(s) \/ EndAttempts(s)
                     \/ ConnectionStarted(s) \/ OpenWindow(s) \/ SeeTermination(s)
                     \/ HandleEvent(s)
        BY <1>22, <1>21 DEF CreateSession, HandleRecovery, AcquireSlot, PrepareConnection,
            CheckLaunched, StartConnection, StartReturns, JudgeAttempt, Backoff, EndAttempts,
            ConnectionStarted, OpenWindow, SeeTermination, HandleEvent, execVars, objectVars,
            connVars, uiVars, lifeVars
    <1>23. CASE \/ \E s \in Sessions : FinishCancel(s) \/ FinishSystemQuit(s) \/ QuitLoop(s)
                     \/ Teardown(s) \/ BeginCleanupTask(s) \/ StopConnection(s)
                     \/ Decide(s) \/ AskHost(s) \/ Complete(s) \/ ClearActive(s)
                     \/ ReleaseSlot(s) \/ TakeEvent(s) \/ WakeFromSuspend(s)
                     \/ CloseWindow(s)
        BY <1>23, <1>21 DEF FinishCancel, FinishSystemQuit, QuitLoop, Teardown, BeginCleanupTask,
            StopConnection, Decide, AskHost, Complete, ClearActive, ReleaseSlot, TakeEvent,
            WakeFromSuspend, CloseWindow, execVars, objectVars, connVars, uiVars, lifeVars
    <1>24. CASE \/ TerminateConnection
             \/ CallbackCheck
             \/ CallbackRecord
             \/ CallbackClassify
             \/ CallbackBegin
             \/ CallbackReport
             \/ \E s \in Sessions : DecoderFails(s)
        BY <1>24, <1>21 DEF DecoderFails, TerminateConnection, CallbackCheck, CallbackRecord,
            CallbackClassify, CallbackBegin, CallbackReport, execVars, objectVars, connVars,
            uiVars, lifeVars
    <1> QED
        BY <1>1, <1>2, <1>3, <1>4, <1>5, <1>6, <1>7, <1>8, <1>9, <1>10, <1>11, <1>12, <1>13,
            <1>14, <1>15, <1>16, <1>17, <1>18, <1>19, <1>20, <1>21, <1>22, <1>23, <1>24
        DEF Next, MainThread, Progress, Stimulus, Callback, Requester, Exited, vars, execVars,
            objectVars, connVars, uiVars, lifeVars

\* The type invariant is kept, group by group.
LEMMA TypeStep == IInv /\ [Next]_vars => TypeOK'
    <1> SUFFICES ASSUME IInv, [Next]_vars PROVE TypeOK'
        OBVIOUS
    <1>1. ExecType' /\ AttemptType' /\ GateType' /\ FlagType' /\ ToldType'
        BY ExecTypeStep, AttemptTypeStep, GateTypeStep, FlagTypeStep, ToldTypeStep
    <1>2. ConnType' /\ CallbackType' /\ UiType' /\ InboxType' /\ LifeType'
        BY ConnTypeStep, CallbackTypeStep, UiTypeStep, InboxTypeStep, LifeTypeStep
    <1> QED
        BY <1>1, <1>2 DEF TypeOK, ExecType, AttemptType, GateType, FlagType, ToldType,
            ConnType, CallbackType, UiType, InboxType, LifeType

----------------------------------------------------------------------------
(* Every step keeps the parts of the inductive invariant *)

\* AcquireSlot takes the slot when it is free, and no step between it and
\* ReleaseSlot gives it up.
LEMMA SlotStep == IInv /\ [Next]_vars => SlotInv'
    <1> SUFFICES ASSUME IInv, [Next]_vars PROVE SlotInv'
        OBVIOUS
    <1> USE Domains, NoSessionIsNone DEF IInv, SlotInv, HoldingSteps, ActiveSteps, Windowed,
        TaskSteps, Connecting, Goto, RegistryUnlocked, Queued, RegisteredAfterFailure,
        OfferAnotherResume, Down, Attempts, AttemptSucceeded, MustLeave, RequestReturned,
        ProducersStopped, EndedUnexpectedly, QuitHost, MayUnregister, RequestAppExit, connVars
    <1>1. CASE CreateSession BY <1>1 DEF CreateSession
    <1>2. CASE UserResume BY <1>2 DEF UserResume
    <1>3. ASSUME NEW s \in Sessions, Exec(s) PROVE SlotInv' BY <1>3 DEF Exec
    <1>4. ASSUME NEW s \in Sessions, Initialize(s) PROVE SlotInv'
        <2>1. CASE pc' = [pc EXCEPT ![s] = "waiting"] /\ UNCHANGED <<gate, registered, inbox>>
            BY <1>4, <2>1 DEF Initialize
        <2>2. CASE /\ pc' = [pc EXCEPT ![s] = "done"]
                  /\ registered' = NoSession /\ spc # "terminate"
                  /\ gate' = [gate EXCEPT ![s] = CompleteCleanup(gate[s])]
                  /\ inbox' = Append(inbox, Queued("notify", s))
            BY <1>4, <2>2 DEF Initialize
        <2> QED BY <1>4, <2>1, <2>2 DEF Initialize, Goto, RegistryUnlocked, RegisteredAfterFailure
    <1>5. ASSUME NEW s \in Sessions, AcquireSlot(s) PROVE SlotInv' BY <1>5 DEF AcquireSlot
    <1>6. ASSUME NEW s \in Sessions, PrepareConnection(s) PROVE SlotInv'
        <2>1. CASE pc' = [pc EXCEPT ![s] = "cleanup"] /\ UNCHANGED flag
            BY <1>6, <2>1 DEF PrepareConnection
        <2>2. CASE pc' = [pc EXCEPT ![s] = "launching"] /\ Raise(s, {"Suppress"})
            BY <1>6, <2>2 DEF PrepareConnection
        <2>3. CASE pc' = [pc EXCEPT ![s] = "launching"] /\ UNCHANGED flag
            BY <1>6, <2>3 DEF PrepareConnection
        <2> QED BY <1>6, <2>1, <2>2, <2>3 DEF PrepareConnection, Goto
    <1>7. ASSUME NEW s \in Sessions, Launch(s) PROVE SlotInv'
        <2>1. CASE pc' = [pc EXCEPT ![s] = "launched"] /\ UNCHANGED <<gate, told, inbox>>
            BY <1>7, <2>1 DEF Launch
        <2>2. CASE pc' = [pc EXCEPT ![s] = "giveUp"] /\ UNCHANGED <<gate, told, inbox>>
            BY <1>7, <2>2 DEF Launch
        <2>3. CASE pc' = [pc EXCEPT ![s] = "giveUp"] /\ OfferAnotherResume(s)
            BY <1>7, <2>3 DEF Launch
        <2> QED BY <1>7, <2>1, <2>2, <2>3 DEF Launch, Goto
    <1>8. ASSUME NEW s \in Sessions, CheckLaunched(s) PROVE SlotInv' BY <1>8 DEF CheckLaunched
    <1>9. ASSUME NEW s \in Sessions, StartConnection(s) PROVE SlotInv'
        BY <1>9 DEF StartConnection
    <1>10. ASSUME NEW s \in Sessions, StartReturns(s) PROVE SlotInv' BY <1>10 DEF StartReturns
    <1>11. ASSUME NEW s \in Sessions, JudgeAttempt(s) PROVE SlotInv' BY <1>11 DEF JudgeAttempt
    <1>12. ASSUME NEW s \in Sessions, Backoff(s) PROVE SlotInv' BY <1>12 DEF Backoff
    <1>13. ASSUME NEW s \in Sessions, EndAttempts(s) PROVE SlotInv' BY <1>13 DEF EndAttempts
    <1>14. ASSUME NEW s \in Sessions, ConnectionStarted(s) PROVE SlotInv'
        BY <1>14 DEF ConnectionStarted
    <1>15. ASSUME NEW s \in Sessions, OpenWindow(s) PROVE SlotInv'
        <2>1. CASE pc' = [pc EXCEPT ![s] = "streaming"] /\ Lower(s, {"Unexpected"})
            BY <1>15, <2>1 DEF OpenWindow
        <2>2. CASE pc' = [pc EXCEPT ![s] = "cleanup"] /\ UNCHANGED flag
            BY <1>15, <2>2 DEF OpenWindow
        <2> QED BY <1>15, <2>1, <2>2 DEF OpenWindow, Goto
    <1>16. ASSUME NEW s \in Sessions, SeeTermination(s) PROVE SlotInv'
        BY <1>16 DEF SeeTermination
    <1>17. ASSUME NEW s \in Sessions, HandleEvent(s) PROVE SlotInv' BY <1>17 DEF HandleEvent
    <1>18. ASSUME NEW s \in Sessions, FinishCancel(s) PROVE SlotInv' BY <1>18 DEF FinishCancel
    <1>19. ASSUME NEW s \in Sessions, FinishQuit(s) PROVE SlotInv' BY <1>19 DEF FinishQuit
    <1>20. ASSUME NEW s \in Sessions, FinishSystemQuit(s) PROVE SlotInv'
        BY <1>20 DEF FinishSystemQuit
    <1>21. ASSUME NEW s \in Sessions, QuitLoop(s) PROVE SlotInv' BY <1>21 DEF QuitLoop
    <1>22. ASSUME NEW s \in Sessions, Teardown(s) PROVE SlotInv' BY <1>22 DEF Teardown
    <1>23. ASSUME NEW s \in Sessions, BeginCleanupTask(s) PROVE SlotInv'
        BY <1>23 DEF BeginCleanupTask
    <1>24. ASSUME NEW s \in Sessions, StopConnection(s) PROVE SlotInv'
        BY <1>24 DEF StopConnection
    <1>25. ASSUME NEW s \in Sessions, Decide(s) PROVE SlotInv' BY <1>25 DEF Decide
    <1>26. ASSUME NEW s \in Sessions, AskHost(s) PROVE SlotInv'
        <2>1. CASE pc' = [pc EXCEPT ![s] = "sendingQuit"]
            BY <1>26, <2>1 DEF AskHost
        <2>2. CASE pc' = [pc EXCEPT ![s] = "completing"]
            BY <1>26, <2>2 DEF AskHost
        <2> QED BY <1>26, <2>1, <2>2 DEF AskHost, Goto
    <1>27. ASSUME NEW s \in Sessions, QuitHostApp(s) PROVE SlotInv' BY <1>27 DEF QuitHostApp
    <1>28. ASSUME NEW s \in Sessions, Complete(s) PROVE SlotInv' BY <1>28 DEF Complete
    <1>29. ASSUME NEW s \in Sessions, Unregister(s) PROVE SlotInv' BY <1>29 DEF Unregister
    <1>30. ASSUME NEW s \in Sessions, ClearActive(s) PROVE SlotInv' BY <1>30 DEF ClearActive
    <1>31. ASSUME NEW s \in Sessions, ReleaseSlot(s) PROVE SlotInv' BY <1>31 DEF ReleaseSlot
    <1>32. ASSUME NEW s \in Sessions, TakeEvent(s) PROVE SlotInv' BY <1>32 DEF TakeEvent
    <1>33. ASSUME NEW s \in Sessions, WakeFromSuspend(s) PROVE SlotInv'
        BY <1>33 DEF WakeFromSuspend
    <1>34. ASSUME NEW s \in Sessions, UserCancel(s) PROVE SlotInv' BY <1>34 DEF UserCancel
    <1>35. ASSUME NEW s \in Sessions, UserQuit(s) PROVE SlotInv' BY <1>35 DEF UserQuit
    <1>36. ASSUME NEW s \in Sessions, SystemQuit(s) PROVE SlotInv' BY <1>36 DEF SystemQuit
    <1>37. ASSUME NEW s \in Sessions, CloseWindow(s) PROVE SlotInv' BY <1>37 DEF CloseWindow
    <1>38. ASSUME NEW s \in Sessions, DecoderFails(s) PROVE SlotInv' BY <1>38 DEF DecoderFails
    <1>39. CASE UNCHANGED <<active, pc, slot>> BY <1>39
    <1>40. CASE HandleRecovery \/ HandleNotify \/ HandleQuit \/ UserDismiss \/ LeaveEventLoop
        \/ Exit \/ TerminateConnection \/ CallbackCheck \/ CallbackRecord \/ CallbackClassify
        \/ CallbackBegin \/ CallbackReport \/ RequestShutdown \/ ShutdownNotify
        \/ ShutdownTerminate \/ ShutdownDispatch \/ HostChanges
        BY <1>40, <1>39 DEF HandleRecovery, HandleNotify, HandleQuit, UserDismiss,
            LeaveEventLoop, Exit, TerminateConnection, CallbackCheck, CallbackRecord,
            CallbackClassify, CallbackBegin, CallbackReport, RequestShutdown, ShutdownNotify,
            ShutdownTerminate, ShutdownDispatch, HostChanges, execVars, objectVars, connVars,
            uiVars, lifeVars
    <1> HIDE Domains, NoSessionIsNone DEF IInv, SlotInv, HoldingSteps, ActiveSteps, Windowed,
        TaskSteps, Connecting, Goto, RegistryUnlocked, Queued, RegisteredAfterFailure,
        OfferAnotherResume, Down, Attempts, AttemptSucceeded, MustLeave, RequestReturned,
        ProducersStopped, EndedUnexpectedly, QuitHost, MayUnregister, RequestAppExit, connVars
    <1>41. CASE MainThread
        BY <1>41, <1>1, <1>2, <1>40 DEF MainThread
    <1>42. ASSUME NEW s \in Sessions, Progress(s) PROVE SlotInv'
        BY <1>42, <1>3, <1>4, <1>5, <1>6, <1>7, <1>8, <1>9, <1>10, <1>11, <1>12, <1>13, <1>14,
            <1>15, <1>16, <1>17, <1>18, <1>19, <1>20, <1>21, <1>22, <1>23, <1>24, <1>25, <1>26,
            <1>27, <1>28, <1>29, <1>30, <1>31 DEF Progress
    <1>43. ASSUME NEW s \in Sessions, Stimulus(s) PROVE SlotInv'
        BY <1>43, <1>32, <1>33, <1>34, <1>35, <1>36, <1>37, <1>38 DEF Stimulus
    <1>44. CASE Callback
        BY <1>44, <1>40 DEF Callback
    <1>45. CASE Requester
        BY <1>45, <1>40 DEF Requester
    <1> QED
        BY <1>39, <1>40, <1>41, <1>42, <1>43, <1>44, <1>45
        DEF Next, Exited, vars, execVars, objectVars, connVars, uiVars, lifeVars

\* A termination starts a callback only while there is a connection, and
\* StopConnection waits for it.
LEMMA ConnStep == IInv /\ [Next]_vars => ConnInv'
    <1> SUFFICES ASSUME IInv, [Next]_vars PROVE ConnInv'
        OBVIOUS
    <1> USE Domains, NoSessionIsNone DEF IInv, ConnInv, ConnectedSteps, Down, NoCall, Windowed,
        TaskSteps, Connecting, Goto, RegistryUnlocked, Queued, RegisteredAfterFailure,
        OfferAnotherResume, Attempts, AttemptSucceeded, MustLeave, RequestReturned,
        ProducersStopped, EndedUnexpectedly, QuitHost, MayUnregister, RequestAppExit, Surface,
        connVars, execVars
    <1>1. CASE CreateSession BY <1>1 DEF CreateSession
    <1>2. CASE UserResume BY <1>2 DEF UserResume
    <1>3. ASSUME NEW s \in Sessions, Exec(s) PROVE ConnInv' BY <1>3 DEF Exec
    <1>4. ASSUME NEW s \in Sessions, Initialize(s) PROVE ConnInv'
        <2>1. CASE pc' = [pc EXCEPT ![s] = "waiting"] /\ UNCHANGED <<gate, registered, inbox>>
            BY <1>4, <2>1 DEF Initialize
        <2>2. CASE /\ pc' = [pc EXCEPT ![s] = "done"]
                  /\ registered' = NoSession /\ spc # "terminate"
                  /\ gate' = [gate EXCEPT ![s] = CompleteCleanup(gate[s])]
                  /\ inbox' = Append(inbox, Queued("notify", s))
            BY <1>4, <2>2 DEF Initialize
        <2> QED BY <1>4, <2>1, <2>2 DEF Initialize, Goto, RegistryUnlocked, RegisteredAfterFailure
    <1>5. ASSUME NEW s \in Sessions, AcquireSlot(s) PROVE ConnInv' BY <1>5 DEF AcquireSlot
    <1>6. ASSUME NEW s \in Sessions, PrepareConnection(s) PROVE ConnInv'
        <2>1. CASE pc' = [pc EXCEPT ![s] = "cleanup"] /\ UNCHANGED flag
            BY <1>6, <2>1 DEF PrepareConnection
        <2>2. CASE pc' = [pc EXCEPT ![s] = "launching"] /\ Raise(s, {"Suppress"})
            BY <1>6, <2>2 DEF PrepareConnection
        <2>3. CASE pc' = [pc EXCEPT ![s] = "launching"] /\ UNCHANGED flag
            BY <1>6, <2>3 DEF PrepareConnection
        <2> QED BY <1>6, <2>1, <2>2, <2>3 DEF PrepareConnection, Goto
    <1>7. ASSUME NEW s \in Sessions, Launch(s) PROVE ConnInv'
        <2>1. CASE pc' = [pc EXCEPT ![s] = "launched"] /\ UNCHANGED <<gate, told, inbox>>
            BY <1>7, <2>1 DEF Launch
        <2>2. CASE pc' = [pc EXCEPT ![s] = "giveUp"] /\ UNCHANGED <<gate, told, inbox>>
            BY <1>7, <2>2 DEF Launch
        <2>3. CASE pc' = [pc EXCEPT ![s] = "giveUp"] /\ OfferAnotherResume(s)
            BY <1>7, <2>3 DEF Launch
        <2> QED BY <1>7, <2>1, <2>2, <2>3 DEF Launch, Goto
    <1>8. ASSUME NEW s \in Sessions, CheckLaunched(s) PROVE ConnInv' BY <1>8 DEF CheckLaunched
    <1>9. ASSUME NEW s \in Sessions, StartConnection(s) PROVE ConnInv'
        BY <1>9 DEF StartConnection
    <1>10. ASSUME NEW s \in Sessions, StartReturns(s) PROVE ConnInv' BY <1>10 DEF StartReturns
    <1>11. ASSUME NEW s \in Sessions, JudgeAttempt(s) PROVE ConnInv' BY <1>11 DEF JudgeAttempt
    <1>12. ASSUME NEW s \in Sessions, Backoff(s) PROVE ConnInv' BY <1>12 DEF Backoff
    <1>13. ASSUME NEW s \in Sessions, EndAttempts(s) PROVE ConnInv' BY <1>13 DEF EndAttempts
    <1>14. ASSUME NEW s \in Sessions, ConnectionStarted(s) PROVE ConnInv'
        BY <1>14 DEF ConnectionStarted
    <1>15. ASSUME NEW s \in Sessions, OpenWindow(s) PROVE ConnInv'
        <2>1. CASE pc' = [pc EXCEPT ![s] = "streaming"] /\ Lower(s, {"Unexpected"})
            BY <1>15, <2>1 DEF OpenWindow
        <2>2. CASE pc' = [pc EXCEPT ![s] = "cleanup"] /\ UNCHANGED flag
            BY <1>15, <2>2 DEF OpenWindow
        <2> QED BY <1>15, <2>1, <2>2 DEF OpenWindow, Goto
    <1>16. ASSUME NEW s \in Sessions, SeeTermination(s) PROVE ConnInv'
        BY <1>16 DEF SeeTermination
    <1>17. ASSUME NEW s \in Sessions, HandleEvent(s) PROVE ConnInv' BY <1>17 DEF HandleEvent
    <1>18. ASSUME NEW s \in Sessions, FinishCancel(s) PROVE ConnInv' BY <1>18 DEF FinishCancel
    <1>19. ASSUME NEW s \in Sessions, FinishQuit(s) PROVE ConnInv' BY <1>19 DEF FinishQuit
    <1>20. ASSUME NEW s \in Sessions, FinishSystemQuit(s) PROVE ConnInv'
        BY <1>20 DEF FinishSystemQuit
    <1>21. ASSUME NEW s \in Sessions, QuitLoop(s) PROVE ConnInv' BY <1>21 DEF QuitLoop
    <1>22. ASSUME NEW s \in Sessions, Teardown(s) PROVE ConnInv' BY <1>22 DEF Teardown
    <1>23. ASSUME NEW s \in Sessions, BeginCleanupTask(s) PROVE ConnInv'
        BY <1>23 DEF BeginCleanupTask
    <1>24. ASSUME NEW s \in Sessions, StopConnection(s) PROVE ConnInv'
        BY <1>24 DEF StopConnection
    <1>25. ASSUME NEW s \in Sessions, Decide(s) PROVE ConnInv' BY <1>25 DEF Decide
    <1>26. ASSUME NEW s \in Sessions, AskHost(s) PROVE ConnInv'
        <2>1. CASE pc' = [pc EXCEPT ![s] = "sendingQuit"]
            BY <1>26, <2>1 DEF AskHost
        <2>2. CASE pc' = [pc EXCEPT ![s] = "completing"]
            BY <1>26, <2>2 DEF AskHost
        <2> QED BY <1>26, <2>1, <2>2 DEF AskHost, Goto
    <1>27. ASSUME NEW s \in Sessions, QuitHostApp(s) PROVE ConnInv' BY <1>27 DEF QuitHostApp
    <1>28. ASSUME NEW s \in Sessions, Complete(s) PROVE ConnInv' BY <1>28 DEF Complete
    <1>29. ASSUME NEW s \in Sessions, Unregister(s) PROVE ConnInv' BY <1>29 DEF Unregister
    <1>30. ASSUME NEW s \in Sessions, ClearActive(s) PROVE ConnInv' BY <1>30 DEF ClearActive
    <1>31. ASSUME NEW s \in Sessions, ReleaseSlot(s) PROVE ConnInv' BY <1>31 DEF ReleaseSlot
    <1>32. ASSUME NEW s \in Sessions, TakeEvent(s) PROVE ConnInv' BY <1>32 DEF TakeEvent
    <1>33. ASSUME NEW s \in Sessions, WakeFromSuspend(s) PROVE ConnInv'
        BY <1>33 DEF WakeFromSuspend
    <1>34. ASSUME NEW s \in Sessions, UserCancel(s) PROVE ConnInv' BY <1>34 DEF UserCancel
    <1>35. ASSUME NEW s \in Sessions, UserQuit(s) PROVE ConnInv' BY <1>35 DEF UserQuit
    <1>36. ASSUME NEW s \in Sessions, SystemQuit(s) PROVE ConnInv' BY <1>36 DEF SystemQuit
    <1>37. ASSUME NEW s \in Sessions, CloseWindow(s) PROVE ConnInv' BY <1>37 DEF CloseWindow
    <1>38. ASSUME NEW s \in Sessions, DecoderFails(s) PROVE ConnInv' BY <1>38 DEF DecoderFails
    <1>39. CASE TerminateConnection BY <1>39 DEF TerminateConnection
    <1>40. CASE CallbackCheck BY <1>40 DEF CallbackCheck
    <1>41. CASE CallbackRecord BY <1>41 DEF CallbackRecord
    <1>42. CASE CallbackClassify BY <1>42 DEF CallbackClassify
    <1>43. CASE CallbackBegin
        <2>1. CASE "Terminating" \in gate[cb.of]
            <3>1. cb' = NoCall /\ UNCHANGED gate
                BY <1>43, <2>1 DEF CallbackBegin
            <3> QED BY <1>43, <2>1, <3>1 DEF CallbackBegin
        <2>2. CASE "Terminating" \notin gate[cb.of]
            <3>1. /\ gate' = [gate EXCEPT ![cb.of] =
                         BeginTermination(gate[cb.of], Surface = "recovery",
                                                Surface # "nothing")]
                              /\ cb' = [cb EXCEPT !.pc = "report", !.surface = Surface]
                BY <1>43, <2>2 DEF CallbackBegin
            <3> QED BY <1>43, <2>2, <3>1 DEF CallbackBegin
        <2> QED BY <1>43, <2>1, <2>2
    <1>44. CASE CallbackReport BY <1>44 DEF CallbackReport
    <1>45. CASE UNCHANGED <<cb, conn, pc>> BY <1>45
    <1>46. CASE HandleRecovery \/ HandleNotify \/ HandleQuit \/ UserDismiss \/ LeaveEventLoop
        \/ Exit \/ RequestShutdown \/ ShutdownNotify \/ ShutdownTerminate \/ ShutdownDispatch
        \/ HostChanges
        BY <1>46, <1>45 DEF HandleRecovery, HandleNotify, HandleQuit, UserDismiss,
            LeaveEventLoop, Exit, RequestShutdown, ShutdownNotify, ShutdownTerminate,
            ShutdownDispatch, HostChanges, execVars, objectVars, connVars, uiVars, lifeVars
    <1> HIDE Domains, NoSessionIsNone DEF IInv, ConnInv, ConnectedSteps, Down, NoCall, Windowed,
        TaskSteps, Connecting, Goto, RegistryUnlocked, Queued, RegisteredAfterFailure,
        OfferAnotherResume, Attempts, AttemptSucceeded, MustLeave, RequestReturned,
        ProducersStopped, EndedUnexpectedly, QuitHost, MayUnregister, RequestAppExit, Surface,
        connVars, execVars
    <1>47. CASE MainThread
        BY <1>47, <1>1, <1>2, <1>46 DEF MainThread
    <1>48. ASSUME NEW s \in Sessions, Progress(s) PROVE ConnInv'
        BY <1>48, <1>3, <1>4, <1>5, <1>6, <1>7, <1>8, <1>9, <1>10, <1>11, <1>12, <1>13, <1>14,
            <1>15, <1>16, <1>17, <1>18, <1>19, <1>20, <1>21, <1>22, <1>23, <1>24, <1>25, <1>26,
            <1>27, <1>28, <1>29, <1>30, <1>31 DEF Progress
    <1>49. ASSUME NEW s \in Sessions, Stimulus(s) PROVE ConnInv'
        BY <1>49, <1>32, <1>33, <1>34, <1>35, <1>36, <1>37, <1>38 DEF Stimulus
    <1>50. CASE Callback
        BY <1>50, <1>40, <1>41, <1>42, <1>43, <1>44 DEF Callback
    <1>51. CASE Requester
        BY <1>51, <1>46 DEF Requester
    <1> QED
        BY <1>45, <1>39, <1>46, <1>47, <1>48, <1>49, <1>50, <1>51
        DEF Next, Exited, vars, execVars, objectVars, connVars, uiVars, lifeVars

\* A session is created when no other is live, and goes from the segue after
\* its completion was delivered.
LEMMA SegueStep == IInv /\ [Next]_vars => SegueInv'
    <1> SUFFICES ASSUME IInv, [Next]_vars PROVE SegueInv'
        OBVIOUS
    <1> USE Domains, NoSessionIsNone DEF IInv, SegueInv, Live, Goto, RegistryUnlocked, Queued,
        RegisteredAfterFailure, OfferAnotherResume, Down, Attempts, AttemptSucceeded, MustLeave,
        RequestReturned, ProducersStopped, EndedUnexpectedly, QuitHost, MayUnregister,
        RequestAppExit, execVars, uiVars
    <1>1. CASE CreateSession BY <1>1 DEF CreateSession
    <1>2. CASE HandleNotify
        <2> DEFINE n == Head(inbox).of
        <2>1. Head(inbox) \in Calls(inbox) /\ Calls(inbox) \subseteq QueuedCalls
            BY <1>2, CallDelivered DEF IInv, HandleNotify
        <2>2. n \in Sessions /\ ui = "segue" /\ n = cur /\ pc[n] = "done"
            BY <1>2, <2>1 DEF IInv, InboxInv, HandleNotify, QueuedCalls
        <2>3. \/ ui' = "recovery" /\ UNCHANGED <<cur, deleted>>
              \/ ui' = "list" /\ cur' = NoSession /\ deleted' = deleted \cup {n}
            BY <1>2 DEF HandleNotify
        <2> QED BY <1>2, <2>2, <2>3 DEF HandleNotify, execVars, IInv, SegueInv, Live
    <1>3. CASE UserResume BY <1>3 DEF UserResume
    <1>4. CASE UserDismiss BY <1>4 DEF UserDismiss
    <1>5. ASSUME NEW s \in Sessions, Exec(s) PROVE SegueInv' BY <1>5 DEF Exec
    <1>6. ASSUME NEW s \in Sessions, Initialize(s) PROVE SegueInv'
        <2>1. CASE pc' = [pc EXCEPT ![s] = "waiting"] /\ UNCHANGED <<gate, registered, inbox>>
            BY <1>6, <2>1 DEF Initialize
        <2>2. CASE /\ pc' = [pc EXCEPT ![s] = "done"]
                  /\ registered' = NoSession /\ spc # "terminate"
                  /\ gate' = [gate EXCEPT ![s] = CompleteCleanup(gate[s])]
                  /\ inbox' = Append(inbox, Queued("notify", s))
            BY <1>6, <2>2 DEF Initialize
        <2> QED BY <1>6, <2>1, <2>2 DEF Initialize, Goto, RegistryUnlocked, RegisteredAfterFailure
    <1>7. ASSUME NEW s \in Sessions, AcquireSlot(s) PROVE SegueInv' BY <1>7 DEF AcquireSlot
    <1>8. ASSUME NEW s \in Sessions, PrepareConnection(s) PROVE SegueInv'
        <2>1. CASE pc' = [pc EXCEPT ![s] = "cleanup"] /\ UNCHANGED flag
            BY <1>8, <2>1 DEF PrepareConnection
        <2>2. CASE pc' = [pc EXCEPT ![s] = "launching"] /\ Raise(s, {"Suppress"})
            BY <1>8, <2>2 DEF PrepareConnection
        <2>3. CASE pc' = [pc EXCEPT ![s] = "launching"] /\ UNCHANGED flag
            BY <1>8, <2>3 DEF PrepareConnection
        <2> QED BY <1>8, <2>1, <2>2, <2>3 DEF PrepareConnection, Goto
    <1>9. ASSUME NEW s \in Sessions, Launch(s) PROVE SegueInv'
        <2>1. CASE pc' = [pc EXCEPT ![s] = "launched"] /\ UNCHANGED <<gate, told, inbox>>
            BY <1>9, <2>1 DEF Launch
        <2>2. CASE pc' = [pc EXCEPT ![s] = "giveUp"] /\ UNCHANGED <<gate, told, inbox>>
            BY <1>9, <2>2 DEF Launch
        <2>3. CASE pc' = [pc EXCEPT ![s] = "giveUp"] /\ OfferAnotherResume(s)
            BY <1>9, <2>3 DEF Launch
        <2> QED BY <1>9, <2>1, <2>2, <2>3 DEF Launch, Goto
    <1>10. ASSUME NEW s \in Sessions, CheckLaunched(s) PROVE SegueInv'
        BY <1>10 DEF CheckLaunched
    <1>11. ASSUME NEW s \in Sessions, StartConnection(s) PROVE SegueInv'
        BY <1>11 DEF StartConnection
    <1>12. ASSUME NEW s \in Sessions, StartReturns(s) PROVE SegueInv' BY <1>12 DEF StartReturns
    <1>13. ASSUME NEW s \in Sessions, JudgeAttempt(s) PROVE SegueInv' BY <1>13 DEF JudgeAttempt
    <1>14. ASSUME NEW s \in Sessions, Backoff(s) PROVE SegueInv' BY <1>14 DEF Backoff
    <1>15. ASSUME NEW s \in Sessions, EndAttempts(s) PROVE SegueInv' BY <1>15 DEF EndAttempts
    <1>16. ASSUME NEW s \in Sessions, ConnectionStarted(s) PROVE SegueInv'
        BY <1>16 DEF ConnectionStarted
    <1>17. ASSUME NEW s \in Sessions, OpenWindow(s) PROVE SegueInv'
        <2>1. CASE pc' = [pc EXCEPT ![s] = "streaming"] /\ Lower(s, {"Unexpected"})
            BY <1>17, <2>1 DEF OpenWindow
        <2>2. CASE pc' = [pc EXCEPT ![s] = "cleanup"] /\ UNCHANGED flag
            BY <1>17, <2>2 DEF OpenWindow
        <2> QED BY <1>17, <2>1, <2>2 DEF OpenWindow, Goto
    <1>18. ASSUME NEW s \in Sessions, SeeTermination(s) PROVE SegueInv'
        BY <1>18 DEF SeeTermination
    <1>19. ASSUME NEW s \in Sessions, HandleEvent(s) PROVE SegueInv' BY <1>19 DEF HandleEvent
    <1>20. ASSUME NEW s \in Sessions, FinishCancel(s) PROVE SegueInv' BY <1>20 DEF FinishCancel
    <1>21. ASSUME NEW s \in Sessions, FinishQuit(s) PROVE SegueInv' BY <1>21 DEF FinishQuit
    <1>22. ASSUME NEW s \in Sessions, FinishSystemQuit(s) PROVE SegueInv'
        BY <1>22 DEF FinishSystemQuit
    <1>23. ASSUME NEW s \in Sessions, QuitLoop(s) PROVE SegueInv' BY <1>23 DEF QuitLoop
    <1>24. ASSUME NEW s \in Sessions, Teardown(s) PROVE SegueInv' BY <1>24 DEF Teardown
    <1>25. ASSUME NEW s \in Sessions, BeginCleanupTask(s) PROVE SegueInv'
        BY <1>25 DEF BeginCleanupTask
    <1>26. ASSUME NEW s \in Sessions, StopConnection(s) PROVE SegueInv'
        BY <1>26 DEF StopConnection
    <1>27. ASSUME NEW s \in Sessions, Decide(s) PROVE SegueInv' BY <1>27 DEF Decide
    <1>28. ASSUME NEW s \in Sessions, AskHost(s) PROVE SegueInv'
        <2>1. CASE pc' = [pc EXCEPT ![s] = "sendingQuit"]
            BY <1>28, <2>1 DEF AskHost
        <2>2. CASE pc' = [pc EXCEPT ![s] = "completing"]
            BY <1>28, <2>2 DEF AskHost
        <2> QED BY <1>28, <2>1, <2>2 DEF AskHost, Goto
    <1>29. ASSUME NEW s \in Sessions, QuitHostApp(s) PROVE SegueInv' BY <1>29 DEF QuitHostApp
    <1>30. ASSUME NEW s \in Sessions, Complete(s) PROVE SegueInv' BY <1>30 DEF Complete
    <1>31. ASSUME NEW s \in Sessions, Unregister(s) PROVE SegueInv' BY <1>31 DEF Unregister
    <1>32. ASSUME NEW s \in Sessions, ClearActive(s) PROVE SegueInv' BY <1>32 DEF ClearActive
    <1>33. ASSUME NEW s \in Sessions, ReleaseSlot(s) PROVE SegueInv' BY <1>33 DEF ReleaseSlot
    <1>34. ASSUME NEW s \in Sessions, TakeEvent(s) PROVE SegueInv' BY <1>34 DEF TakeEvent
    <1>35. ASSUME NEW s \in Sessions, WakeFromSuspend(s) PROVE SegueInv'
        BY <1>35 DEF WakeFromSuspend
    <1>36. ASSUME NEW s \in Sessions, UserCancel(s) PROVE SegueInv' BY <1>36 DEF UserCancel
    <1>37. ASSUME NEW s \in Sessions, UserQuit(s) PROVE SegueInv' BY <1>37 DEF UserQuit
    <1>38. ASSUME NEW s \in Sessions, SystemQuit(s) PROVE SegueInv' BY <1>38 DEF SystemQuit
    <1>39. ASSUME NEW s \in Sessions, CloseWindow(s) PROVE SegueInv' BY <1>39 DEF CloseWindow
    <1>40. ASSUME NEW s \in Sessions, DecoderFails(s) PROVE SegueInv' BY <1>40 DEF DecoderFails
    <1>41. CASE UNCHANGED <<cur, deleted, pc, ui>> BY <1>41
    <1>42. CASE HandleRecovery \/ HandleQuit \/ LeaveEventLoop \/ Exit \/ TerminateConnection
        \/ CallbackCheck \/ CallbackRecord \/ CallbackClassify \/ CallbackBegin
        \/ CallbackReport \/ RequestShutdown \/ ShutdownNotify \/ ShutdownTerminate
        \/ ShutdownDispatch \/ HostChanges
        BY <1>42, <1>41 DEF HandleRecovery, HandleQuit, LeaveEventLoop, Exit,
            TerminateConnection, CallbackCheck, CallbackRecord, CallbackClassify, CallbackBegin,
            CallbackReport, RequestShutdown, ShutdownNotify, ShutdownTerminate,
            ShutdownDispatch, HostChanges, execVars, objectVars, connVars, uiVars, lifeVars
    <1> HIDE Domains, NoSessionIsNone DEF IInv, SegueInv, Live, Goto, RegistryUnlocked, Queued,
        RegisteredAfterFailure, OfferAnotherResume, Down, Attempts, AttemptSucceeded, MustLeave,
        RequestReturned, ProducersStopped, EndedUnexpectedly, QuitHost, MayUnregister,
        RequestAppExit, execVars, uiVars
    <1>43. CASE MainThread
        BY <1>43, <1>1, <1>2, <1>3, <1>4, <1>42 DEF MainThread
    <1>44. ASSUME NEW s \in Sessions, Progress(s) PROVE SegueInv'
        BY <1>44, <1>5, <1>6, <1>7, <1>8, <1>9, <1>10, <1>11, <1>12, <1>13, <1>14, <1>15, <1>16,
            <1>17, <1>18, <1>19, <1>20, <1>21, <1>22, <1>23, <1>24, <1>25, <1>26, <1>27, <1>28,
            <1>29, <1>30, <1>31, <1>32, <1>33 DEF Progress
    <1>45. ASSUME NEW s \in Sessions, Stimulus(s) PROVE SegueInv'
        BY <1>45, <1>34, <1>35, <1>36, <1>37, <1>38, <1>39, <1>40 DEF Stimulus
    <1>46. CASE Callback
        BY <1>46, <1>42 DEF Callback
    <1>47. CASE Requester
        BY <1>47, <1>42 DEF Requester
    <1> QED
        BY <1>41, <1>42, <1>43, <1>44, <1>45, <1>46, <1>47
        DEF Next, Exited, vars, execVars, objectVars, connVars, uiVars, lifeVars

\* Only live sessions queue their calls, so the completion is their last.
LEMMA InboxStep == IInv /\ [Next]_vars => InboxInv'
    <1> SUFFICES ASSUME IInv, [Next]_vars PROVE InboxInv'
        OBVIOUS
    <1> USE Domains, NoSessionIsNone DEF IInv, InboxInv, Queued, QueuedCalls, SegueInv, Live,
        ConnInv, ConnectedSteps, Goto, RegistryUnlocked, RegisteredAfterFailure,
        OfferAnotherResume, Down, Attempts, AttemptSucceeded, MustLeave, RequestReturned,
        ProducersStopped, EndedUnexpectedly, QuitHost, MayUnregister, RequestAppExit, NoCall,
        execVars, uiVars
    <1>1. CASE CreateSession BY <1>1 DEF CreateSession
    <1>2. CASE HandleRecovery
        <2>1. inbox # <<>> /\ inbox' = Tail(inbox)
            BY <1>2 DEF HandleRecovery
        <2>2. /\ Calls(inbox) \subseteq QueuedCalls
              /\ Calls(inbox) = {Head(inbox)} \cup Calls(inbox')
              /\ NotifyLast(inbox')
              /\ Head(inbox).what = "notify" => \A c \in Calls(inbox') : c.what = "quit"
            BY <2>1, CallDelivered DEF IInv, InboxInv
        <2> QED BY <1>2, <2>2 DEF HandleRecovery
    <1>3. CASE HandleNotify
        <2>1. CASE Head(inbox).of \in recoveryText /\ MayResume(gate[Head(inbox).of])
            <3>1. inbox # <<>> /\ inbox' = Tail(inbox)
                BY <1>3, <2>1 DEF HandleNotify
            <3>2. /\ Calls(inbox) \subseteq QueuedCalls
                  /\ Calls(inbox) = {Head(inbox)} \cup Calls(inbox')
                  /\ NotifyLast(inbox')
                  /\ Head(inbox).what = "notify" => \A c \in Calls(inbox') : c.what = "quit"
                BY <3>1, CallDelivered DEF IInv, InboxInv
            <3>5. ui' = "recovery" /\ UNCHANGED <<cur, deleted>>
                BY <1>3, <2>1 DEF HandleNotify
            <3> QED BY <1>3, <2>1, <3>2, <3>5 DEF HandleNotify
        <2>2. CASE ~(Head(inbox).of \in recoveryText /\ MayResume(gate[Head(inbox).of]))
            <3>1. inbox # <<>> /\ inbox' = Tail(inbox)
                BY <1>3, <2>2 DEF HandleNotify
            <3>2. /\ Calls(inbox) \subseteq QueuedCalls
                  /\ Calls(inbox) = {Head(inbox)} \cup Calls(inbox')
                  /\ NotifyLast(inbox')
                  /\ Head(inbox).what = "notify" => \A c \in Calls(inbox') : c.what = "quit"
                BY <3>1, CallDelivered DEF IInv, InboxInv
            <3>5. ui' = "list" /\ cur' = NoSession /\ deleted' = deleted \cup {Head(inbox).of}
                BY <1>3, <2>2 DEF HandleNotify
            <3> QED BY <1>3, <2>2, <3>2, <3>5 DEF HandleNotify
        <2> QED BY <1>3, <2>1, <2>2
    <1>4. CASE HandleQuit
        <2>1. inbox # <<>> /\ inbox' = Tail(inbox)
            BY <1>4 DEF HandleQuit
        <2>2. /\ Calls(inbox) \subseteq QueuedCalls
              /\ Calls(inbox) = {Head(inbox)} \cup Calls(inbox')
              /\ NotifyLast(inbox')
              /\ Head(inbox).what = "notify" => \A c \in Calls(inbox') : c.what = "quit"
            BY <2>1, CallDelivered DEF IInv, InboxInv
        <2> QED BY <1>4, <2>2 DEF HandleQuit
    <1>5. CASE UserResume BY <1>5 DEF UserResume
    <1>6. CASE UserDismiss BY <1>6 DEF UserDismiss
    <1>7. ASSUME NEW s \in Sessions, Exec(s) PROVE InboxInv' BY <1>7 DEF Exec
    <1>8. ASSUME NEW s \in Sessions, Initialize(s) PROVE InboxInv'
        <2>1. CASE pc' = [pc EXCEPT ![s] = "waiting"] /\ UNCHANGED <<gate, registered, inbox>>
            BY <1>8, <2>1 DEF Initialize
        <2>2. CASE /\ pc' = [pc EXCEPT ![s] = "done"]
                  /\ registered' = NoSession /\ spc # "terminate"
                  /\ gate' = [gate EXCEPT ![s] = CompleteCleanup(gate[s])]
                  /\ inbox' = Append(inbox, Queued("notify", s))
            <3>1. /\ Queued("notify", s) \in QueuedCalls
                  /\ inbox' = Append(inbox, Queued("notify", s))
                BY <1>8, <2>2 DEF Initialize, OfferAnotherResume, Queued, QueuedCalls
            <3>2. ui = "segue" /\ cur = s /\ pc[s] # "done" /\ s \in Sessions
                BY <1>8, <2>2 DEF Initialize, IInv, SegueInv, Live, ConnInv, ConnectedSteps,
                    Windowed
            <3>3. Calls(inbox) \subseteq QueuedCalls /\ \A d \in Calls(inbox) : d.what # "notify"
                BY <3>1, <3>2, CallAppended DEF IInv, InboxInv, QueuedCalls
            <3>4. Calls(inbox') = Calls(inbox) \cup {Queued("notify", s)} /\ NotifyLast(inbox')
                BY <3>1, <3>3, CallAppended DEF IInv, InboxInv
            <3> QED BY <1>8, <2>2, <3>2, <3>3, <3>4 DEF Initialize
        <2> QED BY <1>8, <2>1, <2>2 DEF Initialize, Goto, RegistryUnlocked, RegisteredAfterFailure
    <1>9. ASSUME NEW s \in Sessions, AcquireSlot(s) PROVE InboxInv' BY <1>9 DEF AcquireSlot
    <1>10. ASSUME NEW s \in Sessions, PrepareConnection(s) PROVE InboxInv'
        <2>1. CASE pc' = [pc EXCEPT ![s] = "cleanup"] /\ UNCHANGED flag
            BY <1>10, <2>1 DEF PrepareConnection
        <2>2. CASE pc' = [pc EXCEPT ![s] = "launching"] /\ Raise(s, {"Suppress"})
            BY <1>10, <2>2 DEF PrepareConnection
        <2>3. CASE pc' = [pc EXCEPT ![s] = "launching"] /\ UNCHANGED flag
            BY <1>10, <2>3 DEF PrepareConnection
        <2> QED BY <1>10, <2>1, <2>2, <2>3 DEF PrepareConnection, Goto
    <1>11. ASSUME NEW s \in Sessions, Launch(s) PROVE InboxInv'
        <2>1. CASE pc' = [pc EXCEPT ![s] = "launched"] /\ UNCHANGED <<gate, told, inbox>>
            BY <1>11, <2>1 DEF Launch
        <2>2. CASE pc' = [pc EXCEPT ![s] = "giveUp"] /\ UNCHANGED <<gate, told, inbox>>
            BY <1>11, <2>2 DEF Launch
        <2>3. CASE pc' = [pc EXCEPT ![s] = "giveUp"] /\ OfferAnotherResume(s)
            <3>1. /\ Queued("recovery", s) \in QueuedCalls
                  /\ inbox' = Append(inbox, Queued("recovery", s))
                BY <1>11, <2>3 DEF Launch, OfferAnotherResume, Queued, QueuedCalls
            <3>2. ui = "segue" /\ cur = s /\ pc[s] # "done" /\ s \in Sessions
                BY <1>11, <2>3 DEF Launch, IInv, SegueInv, Live, ConnInv, ConnectedSteps, Windowed
            <3>3. Calls(inbox) \subseteq QueuedCalls /\ \A d \in Calls(inbox) : d.what # "notify"
                BY <3>1, <3>2, CallAppended DEF IInv, InboxInv, QueuedCalls
            <3>4. Calls(inbox') = Calls(inbox) \cup {Queued("recovery", s)} /\ NotifyLast(inbox')
                BY <3>1, <3>3, CallAppended DEF IInv, InboxInv
            <3> QED BY <1>11, <2>3, <3>2, <3>3, <3>4 DEF Launch
        <2> QED BY <1>11, <2>1, <2>2, <2>3 DEF Launch, Goto
    <1>12. ASSUME NEW s \in Sessions, CheckLaunched(s) PROVE InboxInv'
        BY <1>12 DEF CheckLaunched
    <1>13. ASSUME NEW s \in Sessions, StartConnection(s) PROVE InboxInv'
        BY <1>13 DEF StartConnection
    <1>14. ASSUME NEW s \in Sessions, StartReturns(s) PROVE InboxInv' BY <1>14 DEF StartReturns
    <1>15. ASSUME NEW s \in Sessions, JudgeAttempt(s) PROVE InboxInv' BY <1>15 DEF JudgeAttempt
    <1>16. ASSUME NEW s \in Sessions, Backoff(s) PROVE InboxInv' BY <1>16 DEF Backoff
    <1>17. ASSUME NEW s \in Sessions, EndAttempts(s) PROVE InboxInv' BY <1>17 DEF EndAttempts
    <1>18. ASSUME NEW s \in Sessions, ConnectionStarted(s) PROVE InboxInv'
        BY <1>18 DEF ConnectionStarted
    <1>19. ASSUME NEW s \in Sessions, OpenWindow(s) PROVE InboxInv'
        <2>1. CASE pc' = [pc EXCEPT ![s] = "streaming"] /\ Lower(s, {"Unexpected"})
            BY <1>19, <2>1 DEF OpenWindow
        <2>2. CASE pc' = [pc EXCEPT ![s] = "cleanup"] /\ UNCHANGED flag
            BY <1>19, <2>2 DEF OpenWindow
        <2> QED BY <1>19, <2>1, <2>2 DEF OpenWindow, Goto
    <1>20. ASSUME NEW s \in Sessions, SeeTermination(s) PROVE InboxInv'
        BY <1>20 DEF SeeTermination
    <1>21. ASSUME NEW s \in Sessions, HandleEvent(s) PROVE InboxInv' BY <1>21 DEF HandleEvent
    <1>22. ASSUME NEW s \in Sessions, FinishCancel(s) PROVE InboxInv' BY <1>22 DEF FinishCancel
    <1>23. ASSUME NEW s \in Sessions, FinishQuit(s) PROVE InboxInv' BY <1>23 DEF FinishQuit
    <1>24. ASSUME NEW s \in Sessions, FinishSystemQuit(s) PROVE InboxInv'
        BY <1>24 DEF FinishSystemQuit
    <1>25. ASSUME NEW s \in Sessions, QuitLoop(s) PROVE InboxInv' BY <1>25 DEF QuitLoop
    <1>26. ASSUME NEW s \in Sessions, Teardown(s) PROVE InboxInv' BY <1>26 DEF Teardown
    <1>27. ASSUME NEW s \in Sessions, BeginCleanupTask(s) PROVE InboxInv'
        BY <1>27 DEF BeginCleanupTask
    <1>28. ASSUME NEW s \in Sessions, StopConnection(s) PROVE InboxInv'
        BY <1>28 DEF StopConnection
    <1>29. ASSUME NEW s \in Sessions, Decide(s) PROVE InboxInv' BY <1>29 DEF Decide
    <1>30. ASSUME NEW s \in Sessions, AskHost(s) PROVE InboxInv'
        <2>1. CASE pc' = [pc EXCEPT ![s] = "sendingQuit"]
            BY <1>30, <2>1 DEF AskHost
        <2>2. CASE pc' = [pc EXCEPT ![s] = "completing"]
            BY <1>30, <2>2 DEF AskHost
        <2> QED BY <1>30, <2>1, <2>2 DEF AskHost, Goto
    <1>31. ASSUME NEW s \in Sessions, QuitHostApp(s) PROVE InboxInv' BY <1>31 DEF QuitHostApp
    <1>32. ASSUME NEW s \in Sessions, Complete(s) PROVE InboxInv' BY <1>32 DEF Complete
    <1>33. ASSUME NEW s \in Sessions, Unregister(s) PROVE InboxInv' BY <1>33 DEF Unregister
    <1>34. ASSUME NEW s \in Sessions, ClearActive(s) PROVE InboxInv' BY <1>34 DEF ClearActive
    <1>35. ASSUME NEW s \in Sessions, ReleaseSlot(s) PROVE InboxInv'
        <2>1. Queued("notify", s) \in QueuedCalls /\ inbox' = Append(inbox, Queued("notify", s))
            BY <1>35 DEF ReleaseSlot, OfferAnotherResume, Queued, QueuedCalls
        <2>2. ui = "segue" /\ cur = s /\ pc[s] # "done" /\ s \in Sessions
            BY <1>35 DEF ReleaseSlot, IInv, SegueInv, Live, ConnInv, ConnectedSteps, Windowed
        <2>3. Calls(inbox) \subseteq QueuedCalls /\ \A d \in Calls(inbox) : d.what # "notify"
            BY <2>1, <2>2, CallAppended DEF IInv, InboxInv, QueuedCalls
        <2>4. Calls(inbox') = Calls(inbox) \cup {Queued("notify", s)} /\ NotifyLast(inbox')
            BY <2>1, <2>3, CallAppended DEF IInv, InboxInv
        <2> QED BY <1>35, <2>2, <2>3, <2>4 DEF ReleaseSlot
    <1>36. ASSUME NEW s \in Sessions, TakeEvent(s) PROVE InboxInv' BY <1>36 DEF TakeEvent
    <1>37. ASSUME NEW s \in Sessions, WakeFromSuspend(s) PROVE InboxInv'
        <2>1. /\ Queued("recovery", s) \in QueuedCalls
              /\ inbox' = Append(inbox, Queued("recovery", s))
            BY <1>37 DEF WakeFromSuspend, OfferAnotherResume, Queued, QueuedCalls
        <2>2. ui = "segue" /\ cur = s /\ pc[s] # "done" /\ s \in Sessions
            BY <1>37 DEF WakeFromSuspend, IInv, SegueInv, Live, ConnInv, ConnectedSteps, Windowed
        <2>3. Calls(inbox) \subseteq QueuedCalls /\ \A d \in Calls(inbox) : d.what # "notify"
            BY <2>1, <2>2, CallAppended DEF IInv, InboxInv, QueuedCalls
        <2>4. Calls(inbox') = Calls(inbox) \cup {Queued("recovery", s)} /\ NotifyLast(inbox')
            BY <2>1, <2>3, CallAppended DEF IInv, InboxInv
        <2> QED BY <1>37, <2>2, <2>3, <2>4 DEF WakeFromSuspend
    <1>38. ASSUME NEW s \in Sessions, UserCancel(s) PROVE InboxInv' BY <1>38 DEF UserCancel
    <1>39. ASSUME NEW s \in Sessions, UserQuit(s) PROVE InboxInv' BY <1>39 DEF UserQuit
    <1>40. ASSUME NEW s \in Sessions, SystemQuit(s) PROVE InboxInv' BY <1>40 DEF SystemQuit
    <1>41. ASSUME NEW s \in Sessions, CloseWindow(s) PROVE InboxInv' BY <1>41 DEF CloseWindow
    <1>42. ASSUME NEW s \in Sessions, DecoderFails(s) PROVE InboxInv' BY <1>42 DEF DecoderFails
    <1>43. CASE CallbackReport
        <2>1. CASE cb.surface = "recovery"
            <3>1. /\ Queued("recovery", cb.of) \in QueuedCalls
                  /\ inbox' = Append(inbox, Queued("recovery", cb.of))
                BY <1>43, <2>1, Domains DEF CallbackReport, IInv, ConnInv, Tell, Queued,
                    QueuedCalls, NoSession
            <3>2. ui = "segue" /\ cur = cb.of /\ pc[cb.of] # "done" /\ cb.of \in Sessions
                BY <1>43, <2>1 DEF CallbackReport, IInv, SegueInv, Live, ConnInv, ConnectedSteps,
                    Windowed
            <3>3. Calls(inbox) \subseteq QueuedCalls /\ \A d \in Calls(inbox) : d.what # "notify"
                BY <3>1, <3>2, CallAppended DEF IInv, InboxInv, QueuedCalls
            <3>4. /\ Calls(inbox') = Calls(inbox) \cup {Queued("recovery", cb.of)}
                  /\ NotifyLast(inbox')
                BY <3>1, <3>3, CallAppended DEF IInv, InboxInv
            <3>5. inbox' = Append(inbox, Queued("recovery", cb.of)) /\ Tell(cb.of, "lost")
                BY <1>43, <2>1 DEF CallbackReport, Tell
            <3> QED BY <1>43, <2>1, <3>2, <3>3, <3>4, <3>5 DEF CallbackReport
        <2>2. CASE cb.surface = "error"
            <3>1. UNCHANGED inbox /\ Tell(cb.of, "lost")
                BY <1>43, <2>2 DEF CallbackReport, Tell
            <3> QED BY <1>43, <2>2, <3>1 DEF CallbackReport
        <2>3. CASE cb.surface = "nothing"
            <3>1. UNCHANGED <<inbox, told>>
                BY <1>43, <2>3 DEF CallbackReport, Tell
            <3> QED BY <1>43, <2>3, <3>1 DEF CallbackReport
        <2> QED BY <1>43, <2>1, <2>2, <2>3
    <1>44. CASE ShutdownDispatch
        <2>1. /\ Queued("quit", NoSession) \in QueuedCalls
              /\ inbox' = Append(inbox, Queued("quit", NoSession))
            BY <1>44 DEF ShutdownDispatch, OfferAnotherResume, Queued, QueuedCalls
        <2>3. Queued("quit", NoSession).what = "quit"
            BY DEF Queued
        <2>4. Calls(inbox') = Calls(inbox) \cup {Queued("quit", NoSession)} /\ NotifyLast(inbox')
            BY <2>1, <2>3, CallAppended DEF IInv, InboxInv
        <2> QED BY <1>44, <2>3, <2>4 DEF ShutdownDispatch
    <1>45. CASE UNCHANGED <<cur, inbox, pc, ui>> BY <1>45
    <1>46. CASE LeaveEventLoop \/ Exit \/ TerminateConnection \/ CallbackCheck \/ CallbackRecord
        \/ CallbackClassify \/ CallbackBegin \/ RequestShutdown \/ ShutdownNotify
        \/ ShutdownTerminate \/ HostChanges
        BY <1>46, <1>45 DEF LeaveEventLoop, Exit, TerminateConnection, CallbackCheck,
            CallbackRecord, CallbackClassify, CallbackBegin, RequestShutdown, ShutdownNotify,
            ShutdownTerminate, HostChanges, execVars, objectVars, connVars, uiVars, lifeVars
    <1> HIDE Domains, NoSessionIsNone DEF IInv, InboxInv, Queued, QueuedCalls, SegueInv, Live,
        ConnInv, ConnectedSteps, Goto, RegistryUnlocked, RegisteredAfterFailure,
        OfferAnotherResume, Down, Attempts, AttemptSucceeded, MustLeave, RequestReturned,
        ProducersStopped, EndedUnexpectedly, QuitHost, MayUnregister, RequestAppExit, NoCall,
        execVars, uiVars
    <1>47. CASE MainThread
        BY <1>47, <1>1, <1>2, <1>3, <1>4, <1>5, <1>6, <1>46 DEF MainThread
    <1>48. ASSUME NEW s \in Sessions, Progress(s) PROVE InboxInv'
        BY <1>48, <1>7, <1>8, <1>9, <1>10, <1>11, <1>12, <1>13, <1>14, <1>15, <1>16, <1>17,
            <1>18, <1>19, <1>20, <1>21, <1>22, <1>23, <1>24, <1>25, <1>26, <1>27, <1>28, <1>29,
            <1>30, <1>31, <1>32, <1>33, <1>34, <1>35 DEF Progress
    <1>49. ASSUME NEW s \in Sessions, Stimulus(s) PROVE InboxInv'
        BY <1>49, <1>36, <1>37, <1>38, <1>39, <1>40, <1>41, <1>42 DEF Stimulus
    <1>50. CASE Callback
        BY <1>50, <1>43, <1>46 DEF Callback
    <1>51. CASE Requester
        BY <1>51, <1>44, <1>46 DEF Requester
    <1> QED
        BY <1>45, <1>46, <1>47, <1>48, <1>49, <1>50, <1>51
        DEF Next, Exited, vars, execVars, objectVars, connVars, uiVars, lifeVars

\* The registry changes only while it is not locked.
LEMMA RegistryStep == IInv /\ [Next]_vars => RegistryInv'
    <1> SUFFICES ASSUME IInv, [Next]_vars PROVE RegistryInv'
        OBVIOUS
    <1> USE Domains, NoSessionIsNone DEF IInv, RegistryInv, RegisteredSteps, Windowed,
        TaskSteps, Connecting, Goto, RegistryUnlocked, Queued, RegisteredAfterFailure,
        OfferAnotherResume, Down, Attempts, AttemptSucceeded, MustLeave, RequestReturned,
        ProducersStopped, EndedUnexpectedly, QuitHost, MayUnregister, RequestAppExit, lifeVars,
        execVars
    <1>1. CASE CreateSession BY SMTT(30), <1>1 DEF CreateSession
    <1>2. CASE UserResume BY <1>2 DEF UserResume
    <1>3. ASSUME NEW s \in Sessions, Exec(s) PROVE RegistryInv'
        <2>1. pc[s] = "created" /\ pc' = [pc EXCEPT ![s] = "starting"] /\ registered' = s
              /\ spc # "terminate" /\ spc' = spc
            BY <1>3 DEF Exec, Goto, RegistryUnlocked
        <2>2. \A t \in Sessions : t # s => pc[t] \notin RegisteredSteps
            BY <2>1, OnlyLiveRegistered DEF IInv, Live
        <2>3. "starting" \in RegisteredSteps
            BY DEF RegisteredSteps, Connecting
        <2> QED BY <2>1, <2>2, <2>3 DEF IInv, RegistryInv
    <1>4. ASSUME NEW s \in Sessions, Initialize(s) PROVE RegistryInv'
        <2>1. CASE pc' = [pc EXCEPT ![s] = "waiting"] /\ UNCHANGED <<gate, registered, inbox>>
            BY <1>4, <2>1 DEF Initialize
        <2>2. CASE /\ pc' = [pc EXCEPT ![s] = "done"]
                  /\ registered' = NoSession /\ spc # "terminate"
                  /\ gate' = [gate EXCEPT ![s] = CompleteCleanup(gate[s])]
                  /\ inbox' = Append(inbox, Queued("notify", s))
            BY <1>4, <2>2 DEF Initialize
        <2> QED BY <1>4, <2>1, <2>2 DEF Initialize, Goto, RegistryUnlocked, RegisteredAfterFailure
    <1>5. ASSUME NEW s \in Sessions, AcquireSlot(s) PROVE RegistryInv' BY <1>5 DEF AcquireSlot
    <1>6. ASSUME NEW s \in Sessions, PrepareConnection(s) PROVE RegistryInv'
        <2>1. CASE pc' = [pc EXCEPT ![s] = "cleanup"] /\ UNCHANGED flag
            BY <1>6, <2>1 DEF PrepareConnection
        <2>2. CASE pc' = [pc EXCEPT ![s] = "launching"] /\ Raise(s, {"Suppress"})
            BY <1>6, <2>2 DEF PrepareConnection
        <2>3. CASE pc' = [pc EXCEPT ![s] = "launching"] /\ UNCHANGED flag
            BY <1>6, <2>3 DEF PrepareConnection
        <2> QED BY <1>6, <2>1, <2>2, <2>3 DEF PrepareConnection, Goto
    <1>7. ASSUME NEW s \in Sessions, Launch(s) PROVE RegistryInv'
        <2>1. CASE pc' = [pc EXCEPT ![s] = "launched"] /\ UNCHANGED <<gate, told, inbox>>
            BY <1>7, <2>1 DEF Launch
        <2>2. CASE pc' = [pc EXCEPT ![s] = "giveUp"] /\ UNCHANGED <<gate, told, inbox>>
            BY <1>7, <2>2 DEF Launch
        <2>3. CASE pc' = [pc EXCEPT ![s] = "giveUp"] /\ OfferAnotherResume(s)
            BY <1>7, <2>3 DEF Launch
        <2> QED BY <1>7, <2>1, <2>2, <2>3 DEF Launch, Goto
    <1>8. ASSUME NEW s \in Sessions, CheckLaunched(s) PROVE RegistryInv'
        BY <1>8 DEF CheckLaunched
    <1>9. ASSUME NEW s \in Sessions, StartConnection(s) PROVE RegistryInv'
        BY <1>9 DEF StartConnection
    <1>10. ASSUME NEW s \in Sessions, StartReturns(s) PROVE RegistryInv'
        BY <1>10 DEF StartReturns
    <1>11. ASSUME NEW s \in Sessions, JudgeAttempt(s) PROVE RegistryInv'
        BY <1>11 DEF JudgeAttempt
    <1>12. ASSUME NEW s \in Sessions, Backoff(s) PROVE RegistryInv' BY <1>12 DEF Backoff
    <1>13. ASSUME NEW s \in Sessions, EndAttempts(s) PROVE RegistryInv' BY <1>13 DEF EndAttempts
    <1>14. ASSUME NEW s \in Sessions, ConnectionStarted(s) PROVE RegistryInv'
        BY <1>14 DEF ConnectionStarted
    <1>15. ASSUME NEW s \in Sessions, OpenWindow(s) PROVE RegistryInv'
        <2>1. CASE pc' = [pc EXCEPT ![s] = "streaming"] /\ Lower(s, {"Unexpected"})
            BY <1>15, <2>1 DEF OpenWindow
        <2>2. CASE pc' = [pc EXCEPT ![s] = "cleanup"] /\ UNCHANGED flag
            BY <1>15, <2>2 DEF OpenWindow
        <2> QED BY <1>15, <2>1, <2>2 DEF OpenWindow, Goto
    <1>16. ASSUME NEW s \in Sessions, SeeTermination(s) PROVE RegistryInv'
        BY <1>16 DEF SeeTermination
    <1>17. ASSUME NEW s \in Sessions, HandleEvent(s) PROVE RegistryInv' BY <1>17 DEF HandleEvent
    <1>18. ASSUME NEW s \in Sessions, FinishCancel(s) PROVE RegistryInv'
        BY <1>18 DEF FinishCancel
    <1>19. ASSUME NEW s \in Sessions, FinishQuit(s) PROVE RegistryInv' BY <1>19 DEF FinishQuit
    <1>20. ASSUME NEW s \in Sessions, FinishSystemQuit(s) PROVE RegistryInv'
        BY <1>20 DEF FinishSystemQuit
    <1>21. ASSUME NEW s \in Sessions, QuitLoop(s) PROVE RegistryInv' BY <1>21 DEF QuitLoop
    <1>22. ASSUME NEW s \in Sessions, Teardown(s) PROVE RegistryInv' BY <1>22 DEF Teardown
    <1>23. ASSUME NEW s \in Sessions, BeginCleanupTask(s) PROVE RegistryInv'
        BY <1>23 DEF BeginCleanupTask
    <1>24. ASSUME NEW s \in Sessions, StopConnection(s) PROVE RegistryInv'
        BY <1>24 DEF StopConnection
    <1>25. ASSUME NEW s \in Sessions, Decide(s) PROVE RegistryInv' BY <1>25 DEF Decide
    <1>26. ASSUME NEW s \in Sessions, AskHost(s) PROVE RegistryInv'
        <2>1. CASE pc' = [pc EXCEPT ![s] = "sendingQuit"]
            BY <1>26, <2>1 DEF AskHost
        <2>2. CASE pc' = [pc EXCEPT ![s] = "completing"]
            BY <1>26, <2>2 DEF AskHost
        <2> QED BY <1>26, <2>1, <2>2 DEF AskHost, Goto
    <1>27. ASSUME NEW s \in Sessions, QuitHostApp(s) PROVE RegistryInv' BY <1>27 DEF QuitHostApp
    <1>28. ASSUME NEW s \in Sessions, Complete(s) PROVE RegistryInv' BY <1>28 DEF Complete
    <1>29. ASSUME NEW s \in Sessions, Unregister(s) PROVE RegistryInv' BY <1>29 DEF Unregister
    <1>30. ASSUME NEW s \in Sessions, ClearActive(s) PROVE RegistryInv' BY <1>30 DEF ClearActive
    <1>31. ASSUME NEW s \in Sessions, ReleaseSlot(s) PROVE RegistryInv'
        BY SMTT(30), <1>31 DEF ReleaseSlot
    <1>32. ASSUME NEW s \in Sessions, TakeEvent(s) PROVE RegistryInv' BY <1>32 DEF TakeEvent
    <1>33. ASSUME NEW s \in Sessions, WakeFromSuspend(s) PROVE RegistryInv'
        BY <1>33 DEF WakeFromSuspend
    <1>34. ASSUME NEW s \in Sessions, UserCancel(s) PROVE RegistryInv' BY <1>34 DEF UserCancel
    <1>35. ASSUME NEW s \in Sessions, UserQuit(s) PROVE RegistryInv'
        <2>1. CASE reason = "None"
            <3>1. reason' = "Exit" /\ spc' = "notify"
                BY <1>35, <2>1 DEF UserQuit, Raise, Goto, RequestAppExit
            <3> QED BY <1>35, <2>1, <3>1 DEF UserQuit
        <2>2. CASE reason # "None"
            <3>1. UNCHANGED <<reason, spc>>
                BY <1>35, <2>2 DEF UserQuit, Raise, Goto, RequestAppExit
            <3> QED BY <1>35, <2>2, <3>1 DEF UserQuit
        <2> QED BY <1>35, <2>1, <2>2
    <1>36. ASSUME NEW s \in Sessions, SystemQuit(s) PROVE RegistryInv'
        <2>1. CASE reason = "None"
            <3>1. reason' = "Exit" /\ spc' = "notify"
                BY <1>36, <2>1 DEF SystemQuit, Goto, RequestAppExit
            <3> QED BY <1>36, <2>1, <3>1 DEF SystemQuit
        <2>2. CASE reason # "None"
            <3>1. UNCHANGED <<reason, spc>>
                BY <1>36, <2>2 DEF SystemQuit, Goto, RequestAppExit
            <3> QED BY <1>36, <2>2, <3>1 DEF SystemQuit
        <2> QED BY <1>36, <2>1, <2>2
    <1>37. ASSUME NEW s \in Sessions, CloseWindow(s) PROVE RegistryInv' BY <1>37 DEF CloseWindow
    <1>38. ASSUME NEW s \in Sessions, DecoderFails(s) PROVE RegistryInv'
        BY <1>38 DEF DecoderFails
    <1>39. CASE RequestShutdown BY <1>39 DEF RequestShutdown
    <1>40. CASE ShutdownNotify
        <2>1. CASE registered = NoSession
            <3>1. UNCHANGED <<flag, gate>> /\ spc' = "dispatch"
                BY <1>40, <2>1 DEF ShutdownNotify, Raise
            <3> QED BY <1>40, <2>1, <3>1 DEF ShutdownNotify
        <2>2. CASE registered # NoSession
            <3>1. /\ flag' = [flag EXCEPT ![registered] = flag[registered] \cup ExitMarks]
                  /\ gate' = [gate EXCEPT ![registered] = Cancel(gate[registered])]
                  /\ spc' = "terminate"
                BY <1>40, <2>2 DEF ShutdownNotify, Raise
            <3> QED BY <1>40, <2>2, <3>1 DEF ShutdownNotify
        <2> QED BY <1>40, <2>1, <2>2
    <1>41. CASE ShutdownTerminate BY <1>41 DEF ShutdownTerminate
    <1>42. CASE ShutdownDispatch BY <1>42 DEF ShutdownDispatch
    <1>43. CASE UNCHANGED <<pc, registered, spc>> BY <1>43
    <1>44. CASE HandleRecovery \/ HandleNotify \/ HandleQuit \/ UserDismiss \/ LeaveEventLoop
        \/ Exit \/ TerminateConnection \/ CallbackCheck \/ CallbackRecord \/ CallbackClassify
        \/ CallbackBegin \/ CallbackReport \/ HostChanges
        BY <1>44, <1>43 DEF HandleRecovery, HandleNotify, HandleQuit, UserDismiss,
            LeaveEventLoop, Exit, TerminateConnection, CallbackCheck, CallbackRecord,
            CallbackClassify, CallbackBegin, CallbackReport, HostChanges, execVars, objectVars,
            connVars, uiVars, lifeVars
    <1> HIDE Domains, NoSessionIsNone DEF IInv, RegistryInv, RegisteredSteps, Windowed,
        TaskSteps, Connecting, Goto, RegistryUnlocked, Queued, RegisteredAfterFailure,
        OfferAnotherResume, Down, Attempts, AttemptSucceeded, MustLeave, RequestReturned,
        ProducersStopped, EndedUnexpectedly, QuitHost, MayUnregister, RequestAppExit, lifeVars,
        execVars
    <1>45. CASE MainThread
        BY <1>45, <1>1, <1>2, <1>44 DEF MainThread
    <1>46. ASSUME NEW s \in Sessions, Progress(s) PROVE RegistryInv'
        BY <1>46, <1>3, <1>4, <1>5, <1>6, <1>7, <1>8, <1>9, <1>10, <1>11, <1>12, <1>13, <1>14,
            <1>15, <1>16, <1>17, <1>18, <1>19, <1>20, <1>21, <1>22, <1>23, <1>24, <1>25, <1>26,
            <1>27, <1>28, <1>29, <1>30, <1>31 DEF Progress
    <1>47. ASSUME NEW s \in Sessions, Stimulus(s) PROVE RegistryInv'
        BY <1>47, <1>32, <1>33, <1>34, <1>35, <1>36, <1>37, <1>38 DEF Stimulus
    <1>48. CASE Callback
        BY <1>48, <1>44 DEF Callback
    <1>49. CASE Requester
        BY <1>49, <1>40, <1>41, <1>42 DEF Requester
    <1> QED
        BY <1>43, <1>39, <1>44, <1>45, <1>46, <1>47, <1>48, <1>49
        DEF Next, Exited, vars, execVars, objectVars, connVars, uiVars, lifeVars

\* Only the end of the cleanup task, or a failed initialize(), sets Cleaned.
LEMMA CleanedStep == IInv /\ [Next]_vars => CleanedInv'
    <1> SUFFICES ASSUME IInv, [Next]_vars PROVE CleanedInv'
        OBVIOUS
    <1> USE Domains, NoSessionIsNone DEF IInv, CleanedInv, TaskSteps, Goto, TakeResume,
        RegistryUnlocked, Cancel, BeginTermination, Queued, CompleteCleanup, RegisteredAfterFailure,
        OfferAnotherResume, Down, Attempts, AttemptSucceeded, MustLeave, RequestReturned,
        BeginCleanup, ProducersStopped, EndedUnexpectedly, QuitHost, MayUnregister,
        RequestAppExit, Surface, NoCall, objectVars, execVars
    <1>1. CASE CreateSession BY <1>1 DEF CreateSession
    <1>2. CASE UserResume BY <1>2 DEF UserResume
    <1>3. CASE UserDismiss BY <1>3 DEF UserDismiss
    <1>4. CASE LeaveEventLoop BY <1>4 DEF LeaveEventLoop
    <1>5. ASSUME NEW s \in Sessions, Exec(s) PROVE CleanedInv'
        <2>1. CASE reason = "None"
            <3>1. UNCHANGED <<flag, gate>>
                BY <1>5, <2>1 DEF Exec, Raise, Goto, RegistryUnlocked, ExitRequestedBefore
            <3> QED BY <1>5, <2>1, <3>1 DEF Exec
        <2>2. CASE reason # "None"
            <3>1. /\ flag' = [flag EXCEPT ![s] = flag[s] \cup ExitMarks]
                  /\ gate' = [gate EXCEPT ![s] =
                         BeginTermination(Cancel(gate[s]), FALSE, FALSE)]
                BY <1>5, <2>2 DEF Exec, Raise, Goto, RegistryUnlocked, ExitRequestedBefore
            <3> QED BY <1>5, <2>2, <3>1 DEF Exec
        <2> QED BY <1>5, <2>1, <2>2
    <1>6. ASSUME NEW s \in Sessions, Initialize(s) PROVE CleanedInv'
        <2>1. CASE pc' = [pc EXCEPT ![s] = "waiting"] /\ UNCHANGED <<gate, registered, inbox>>
            BY <1>6, <2>1 DEF Initialize
        <2>2. CASE /\ pc' = [pc EXCEPT ![s] = "done"]
                  /\ registered' = NoSession /\ spc # "terminate"
                  /\ gate' = [gate EXCEPT ![s] = CompleteCleanup(gate[s])]
                  /\ inbox' = Append(inbox, Queued("notify", s))
            BY <1>6, <2>2 DEF Initialize
        <2> QED BY <1>6, <2>1, <2>2 DEF Initialize, Goto, RegistryUnlocked, RegisteredAfterFailure
    <1>7. ASSUME NEW s \in Sessions, AcquireSlot(s) PROVE CleanedInv' BY <1>7 DEF AcquireSlot
    <1>8. ASSUME NEW s \in Sessions, PrepareConnection(s) PROVE CleanedInv'
        <2>1. CASE pc' = [pc EXCEPT ![s] = "cleanup"] /\ UNCHANGED flag
            BY <1>8, <2>1 DEF PrepareConnection
        <2>2. CASE pc' = [pc EXCEPT ![s] = "launching"] /\ Raise(s, {"Suppress"})
            BY <1>8, <2>2 DEF PrepareConnection
        <2>3. CASE pc' = [pc EXCEPT ![s] = "launching"] /\ UNCHANGED flag
            BY <1>8, <2>3 DEF PrepareConnection
        <2> QED BY <1>8, <2>1, <2>2, <2>3 DEF PrepareConnection, Goto
    <1>9. ASSUME NEW s \in Sessions, Launch(s) PROVE CleanedInv'
        <2>1. CASE pc' = [pc EXCEPT ![s] = "launched"] /\ UNCHANGED <<gate, told, inbox>>
            BY <1>9, <2>1 DEF Launch
        <2>2. CASE pc' = [pc EXCEPT ![s] = "giveUp"] /\ UNCHANGED <<gate, told, inbox>>
            BY <1>9, <2>2 DEF Launch
        <2>3. CASE pc' = [pc EXCEPT ![s] = "giveUp"] /\ OfferAnotherResume(s)
            BY <1>9, <2>3 DEF Launch
        <2> QED BY <1>9, <2>1, <2>2, <2>3 DEF Launch, Goto
    <1>10. ASSUME NEW s \in Sessions, CheckLaunched(s) PROVE CleanedInv'
        BY <1>10 DEF CheckLaunched
    <1>11. ASSUME NEW s \in Sessions, StartConnection(s) PROVE CleanedInv'
        BY <1>11 DEF StartConnection
    <1>12. ASSUME NEW s \in Sessions, StartReturns(s) PROVE CleanedInv'
        BY <1>12 DEF StartReturns
    <1>13. ASSUME NEW s \in Sessions, JudgeAttempt(s) PROVE CleanedInv'
        BY <1>13 DEF JudgeAttempt
    <1>14. ASSUME NEW s \in Sessions, Backoff(s) PROVE CleanedInv' BY <1>14 DEF Backoff
    <1>15. ASSUME NEW s \in Sessions, EndAttempts(s) PROVE CleanedInv' BY <1>15 DEF EndAttempts
    <1>16. ASSUME NEW s \in Sessions, ConnectionStarted(s) PROVE CleanedInv'
        BY <1>16 DEF ConnectionStarted
    <1>17. ASSUME NEW s \in Sessions, OpenWindow(s) PROVE CleanedInv'
        <2>1. CASE pc' = [pc EXCEPT ![s] = "streaming"] /\ Lower(s, {"Unexpected"})
            BY <1>17, <2>1 DEF OpenWindow
        <2>2. CASE pc' = [pc EXCEPT ![s] = "cleanup"] /\ UNCHANGED flag
            BY <1>17, <2>2 DEF OpenWindow
        <2> QED BY <1>17, <2>1, <2>2 DEF OpenWindow, Goto
    <1>18. ASSUME NEW s \in Sessions, SeeTermination(s) PROVE CleanedInv'
        BY <1>18 DEF SeeTermination
    <1>19. ASSUME NEW s \in Sessions, HandleEvent(s) PROVE CleanedInv' BY <1>19 DEF HandleEvent
    <1>20. ASSUME NEW s \in Sessions, FinishCancel(s) PROVE CleanedInv'
        BY <1>20 DEF FinishCancel
    <1>21. ASSUME NEW s \in Sessions, FinishQuit(s) PROVE CleanedInv' BY <1>21 DEF FinishQuit
    <1>22. ASSUME NEW s \in Sessions, FinishSystemQuit(s) PROVE CleanedInv'
        BY <1>22 DEF FinishSystemQuit
    <1>23. ASSUME NEW s \in Sessions, QuitLoop(s) PROVE CleanedInv' BY <1>23 DEF QuitLoop
    <1>24. ASSUME NEW s \in Sessions, Teardown(s) PROVE CleanedInv' BY <1>24 DEF Teardown
    <1>25. ASSUME NEW s \in Sessions, BeginCleanupTask(s) PROVE CleanedInv'
        BY <1>25 DEF BeginCleanupTask
    <1>26. ASSUME NEW s \in Sessions, StopConnection(s) PROVE CleanedInv'
        BY <1>26 DEF StopConnection
    <1>27. ASSUME NEW s \in Sessions, Decide(s) PROVE CleanedInv' BY <1>27 DEF Decide
    <1>28. ASSUME NEW s \in Sessions, AskHost(s) PROVE CleanedInv'
        <2>1. CASE pc' = [pc EXCEPT ![s] = "sendingQuit"]
            BY <1>28, <2>1 DEF AskHost
        <2>2. CASE pc' = [pc EXCEPT ![s] = "completing"]
            BY <1>28, <2>2 DEF AskHost
        <2> QED BY <1>28, <2>1, <2>2 DEF AskHost, Goto
    <1>29. ASSUME NEW s \in Sessions, QuitHostApp(s) PROVE CleanedInv' BY <1>29 DEF QuitHostApp
    <1>30. ASSUME NEW s \in Sessions, Complete(s) PROVE CleanedInv' BY <1>30 DEF Complete
    <1>31. ASSUME NEW s \in Sessions, Unregister(s) PROVE CleanedInv' BY <1>31 DEF Unregister
    <1>32. ASSUME NEW s \in Sessions, ClearActive(s) PROVE CleanedInv' BY <1>32 DEF ClearActive
    <1>33. ASSUME NEW s \in Sessions, ReleaseSlot(s) PROVE CleanedInv' BY <1>33 DEF ReleaseSlot
    <1>34. ASSUME NEW s \in Sessions, TakeEvent(s) PROVE CleanedInv' BY <1>34 DEF TakeEvent
    <1>35. ASSUME NEW s \in Sessions, WakeFromSuspend(s) PROVE CleanedInv'
        BY <1>35 DEF WakeFromSuspend
    <1>36. ASSUME NEW s \in Sessions, UserCancel(s) PROVE CleanedInv' BY <1>36 DEF UserCancel
    <1>37. ASSUME NEW s \in Sessions, UserQuit(s) PROVE CleanedInv' BY <1>37 DEF UserQuit
    <1>38. ASSUME NEW s \in Sessions, SystemQuit(s) PROVE CleanedInv' BY <1>38 DEF SystemQuit
    <1>39. ASSUME NEW s \in Sessions, CloseWindow(s) PROVE CleanedInv' BY <1>39 DEF CloseWindow
    <1>40. ASSUME NEW s \in Sessions, DecoderFails(s) PROVE CleanedInv'
        BY <1>40 DEF DecoderFails
    <1>41. CASE CallbackBegin
        <2>1. CASE "Terminating" \in gate[cb.of]
            <3>1. cb' = NoCall /\ UNCHANGED gate
                BY <1>41, <2>1 DEF CallbackBegin
            <3> QED BY <1>41, <2>1, <3>1 DEF CallbackBegin
        <2>2. CASE "Terminating" \notin gate[cb.of]
            <3>1. /\ gate' = [gate EXCEPT ![cb.of] =
                         BeginTermination(gate[cb.of], Surface = "recovery",
                                                Surface # "nothing")]
                              /\ cb' = [cb EXCEPT !.pc = "report", !.surface = Surface]
                BY <1>41, <2>2 DEF CallbackBegin
            <3> QED BY <1>41, <2>2, <3>1 DEF CallbackBegin
        <2> QED BY <1>41, <2>1, <2>2
    <1>42. CASE ShutdownNotify
        <2>1. CASE registered = NoSession
            <3>1. UNCHANGED <<flag, gate>> /\ spc' = "dispatch"
                BY <1>42, <2>1 DEF ShutdownNotify, Raise
            <3> QED BY <1>42, <2>1, <3>1 DEF ShutdownNotify
        <2>2. CASE registered # NoSession
            <3>1. /\ flag' = [flag EXCEPT ![registered] = flag[registered] \cup ExitMarks]
                  /\ gate' = [gate EXCEPT ![registered] = Cancel(gate[registered])]
                  /\ spc' = "terminate"
                BY <1>42, <2>2 DEF ShutdownNotify, Raise
            <3> QED BY <1>42, <2>2, <3>1 DEF ShutdownNotify
        <2> QED BY <1>42, <2>1, <2>2
    <1>43. CASE ShutdownTerminate BY <1>43 DEF ShutdownTerminate
    <1>44. CASE UNCHANGED <<gate, pc>> BY <1>44
    <1>45. CASE HandleRecovery \/ HandleNotify \/ HandleQuit \/ Exit \/ TerminateConnection
        \/ CallbackCheck \/ CallbackRecord \/ CallbackClassify \/ CallbackReport
        \/ RequestShutdown \/ ShutdownDispatch \/ HostChanges
        BY <1>45, <1>44 DEF HandleRecovery, HandleNotify, HandleQuit, Exit, TerminateConnection,
            CallbackCheck, CallbackRecord, CallbackClassify, CallbackReport, RequestShutdown,
            ShutdownDispatch, HostChanges, execVars, objectVars, connVars, uiVars, lifeVars
    <1> HIDE Domains, NoSessionIsNone DEF IInv, CleanedInv, TaskSteps, Goto, TakeResume,
        RegistryUnlocked, Cancel, BeginTermination, Queued, CompleteCleanup, RegisteredAfterFailure,
        OfferAnotherResume, Down, Attempts, AttemptSucceeded, MustLeave, RequestReturned,
        BeginCleanup, ProducersStopped, EndedUnexpectedly, QuitHost, MayUnregister,
        RequestAppExit, Surface, NoCall, objectVars, execVars
    <1>46. CASE MainThread
        BY <1>46, <1>1, <1>2, <1>3, <1>4, <1>45 DEF MainThread
    <1>47. ASSUME NEW s \in Sessions, Progress(s) PROVE CleanedInv'
        BY <1>47, <1>5, <1>6, <1>7, <1>8, <1>9, <1>10, <1>11, <1>12, <1>13, <1>14, <1>15, <1>16,
            <1>17, <1>18, <1>19, <1>20, <1>21, <1>22, <1>23, <1>24, <1>25, <1>26, <1>27, <1>28,
            <1>29, <1>30, <1>31, <1>32, <1>33 DEF Progress
    <1>48. ASSUME NEW s \in Sessions, Stimulus(s) PROVE CleanedInv'
        BY <1>48, <1>34, <1>35, <1>36, <1>37, <1>38, <1>39, <1>40 DEF Stimulus
    <1>49. CASE Callback
        BY <1>49, <1>41, <1>45 DEF Callback
    <1>50. CASE Requester
        BY <1>50, <1>42, <1>43, <1>45 DEF Requester
    <1> QED
        BY <1>44, <1>45, <1>46, <1>47, <1>48, <1>49, <1>50
        DEF Next, Exited, vars, execVars, objectVars, connVars, uiVars, lifeVars

\* An attempt begins only while fewer than the allowed ones were made.
LEMMA AttemptsStep == IInv /\ [Next]_vars => AttemptsInv'
    <1> SUFFICES ASSUME IInv, [Next]_vars PROVE AttemptsInv'
        OBVIOUS
    <1> USE Domains, NoSessionIsNone, SessionAssumption DEF IInv, AttemptsInv, Attempts, Goto,
        RegistryUnlocked, Queued, RegisteredAfterFailure, OfferAnotherResume, Down,
        AttemptSucceeded, MustLeave, RequestReturned, ProducersStopped, EndedUnexpectedly,
        QuitHost, MayUnregister, RequestAppExit
    <1>1. CASE CreateSession BY <1>1 DEF CreateSession
    <1>2. CASE UserResume BY <1>2 DEF UserResume
    <1>3. ASSUME NEW s \in Sessions, Exec(s) PROVE AttemptsInv' BY <1>3 DEF Exec
    <1>4. ASSUME NEW s \in Sessions, Initialize(s) PROVE AttemptsInv'
        <2>1. CASE pc' = [pc EXCEPT ![s] = "waiting"] /\ UNCHANGED <<gate, registered, inbox>>
            BY <1>4, <2>1 DEF Initialize
        <2>2. CASE /\ pc' = [pc EXCEPT ![s] = "done"]
                  /\ registered' = NoSession /\ spc # "terminate"
                  /\ gate' = [gate EXCEPT ![s] = CompleteCleanup(gate[s])]
                  /\ inbox' = Append(inbox, Queued("notify", s))
            BY <1>4, <2>2 DEF Initialize
        <2> QED BY <1>4, <2>1, <2>2 DEF Initialize, Goto, RegistryUnlocked, RegisteredAfterFailure
    <1>5. ASSUME NEW s \in Sessions, AcquireSlot(s) PROVE AttemptsInv' BY <1>5 DEF AcquireSlot
    <1>6. ASSUME NEW s \in Sessions, PrepareConnection(s) PROVE AttemptsInv'
        <2>1. CASE pc' = [pc EXCEPT ![s] = "cleanup"] /\ UNCHANGED flag
            BY <1>6, <2>1 DEF PrepareConnection
        <2>2. CASE pc' = [pc EXCEPT ![s] = "launching"] /\ Raise(s, {"Suppress"})
            BY <1>6, <2>2 DEF PrepareConnection
        <2>3. CASE pc' = [pc EXCEPT ![s] = "launching"] /\ UNCHANGED flag
            BY <1>6, <2>3 DEF PrepareConnection
        <2> QED BY <1>6, <2>1, <2>2, <2>3 DEF PrepareConnection, Goto
    <1>7. ASSUME NEW s \in Sessions, Launch(s) PROVE AttemptsInv'
        <2>1. CASE pc' = [pc EXCEPT ![s] = "launched"] /\ UNCHANGED <<gate, told, inbox>>
            BY <1>7, <2>1 DEF Launch
        <2>2. CASE pc' = [pc EXCEPT ![s] = "giveUp"] /\ UNCHANGED <<gate, told, inbox>>
            BY <1>7, <2>2 DEF Launch
        <2>3. CASE pc' = [pc EXCEPT ![s] = "giveUp"] /\ OfferAnotherResume(s)
            BY <1>7, <2>3 DEF Launch
        <2> QED BY <1>7, <2>1, <2>2, <2>3 DEF Launch, Goto
    <1>8. ASSUME NEW s \in Sessions, CheckLaunched(s) PROVE AttemptsInv'
        BY <1>8 DEF CheckLaunched
    <1>9. ASSUME NEW s \in Sessions, StartConnection(s) PROVE AttemptsInv'
        BY <1>9 DEF StartConnection
    <1>10. ASSUME NEW s \in Sessions, StartReturns(s) PROVE AttemptsInv'
        BY <1>10 DEF StartReturns
    <1>11. ASSUME NEW s \in Sessions, JudgeAttempt(s) PROVE AttemptsInv'
        BY <1>11 DEF JudgeAttempt
    <1>12. ASSUME NEW s \in Sessions, Backoff(s) PROVE AttemptsInv' BY <1>12 DEF Backoff
    <1>13. ASSUME NEW s \in Sessions, EndAttempts(s) PROVE AttemptsInv' BY <1>13 DEF EndAttempts
    <1>14. ASSUME NEW s \in Sessions, ConnectionStarted(s) PROVE AttemptsInv'
        BY <1>14 DEF ConnectionStarted
    <1>15. ASSUME NEW s \in Sessions, OpenWindow(s) PROVE AttemptsInv'
        <2>1. CASE pc' = [pc EXCEPT ![s] = "streaming"] /\ Lower(s, {"Unexpected"})
            BY <1>15, <2>1 DEF OpenWindow
        <2>2. CASE pc' = [pc EXCEPT ![s] = "cleanup"] /\ UNCHANGED flag
            BY <1>15, <2>2 DEF OpenWindow
        <2> QED BY <1>15, <2>1, <2>2 DEF OpenWindow, Goto
    <1>16. ASSUME NEW s \in Sessions, SeeTermination(s) PROVE AttemptsInv'
        BY <1>16 DEF SeeTermination
    <1>17. ASSUME NEW s \in Sessions, HandleEvent(s) PROVE AttemptsInv' BY <1>17 DEF HandleEvent
    <1>18. ASSUME NEW s \in Sessions, FinishCancel(s) PROVE AttemptsInv'
        BY <1>18 DEF FinishCancel
    <1>19. ASSUME NEW s \in Sessions, FinishQuit(s) PROVE AttemptsInv' BY <1>19 DEF FinishQuit
    <1>20. ASSUME NEW s \in Sessions, FinishSystemQuit(s) PROVE AttemptsInv'
        BY <1>20 DEF FinishSystemQuit
    <1>21. ASSUME NEW s \in Sessions, QuitLoop(s) PROVE AttemptsInv' BY <1>21 DEF QuitLoop
    <1>22. ASSUME NEW s \in Sessions, Teardown(s) PROVE AttemptsInv' BY <1>22 DEF Teardown
    <1>23. ASSUME NEW s \in Sessions, BeginCleanupTask(s) PROVE AttemptsInv'
        BY <1>23 DEF BeginCleanupTask
    <1>24. ASSUME NEW s \in Sessions, StopConnection(s) PROVE AttemptsInv'
        BY <1>24 DEF StopConnection
    <1>25. ASSUME NEW s \in Sessions, Decide(s) PROVE AttemptsInv' BY <1>25 DEF Decide
    <1>26. ASSUME NEW s \in Sessions, AskHost(s) PROVE AttemptsInv'
        <2>1. CASE pc' = [pc EXCEPT ![s] = "sendingQuit"]
            BY <1>26, <2>1 DEF AskHost
        <2>2. CASE pc' = [pc EXCEPT ![s] = "completing"]
            BY <1>26, <2>2 DEF AskHost
        <2> QED BY <1>26, <2>1, <2>2 DEF AskHost, Goto
    <1>27. ASSUME NEW s \in Sessions, QuitHostApp(s) PROVE AttemptsInv' BY <1>27 DEF QuitHostApp
    <1>28. ASSUME NEW s \in Sessions, Complete(s) PROVE AttemptsInv' BY <1>28 DEF Complete
    <1>29. ASSUME NEW s \in Sessions, Unregister(s) PROVE AttemptsInv' BY <1>29 DEF Unregister
    <1>30. ASSUME NEW s \in Sessions, ClearActive(s) PROVE AttemptsInv' BY <1>30 DEF ClearActive
    <1>31. ASSUME NEW s \in Sessions, ReleaseSlot(s) PROVE AttemptsInv' BY <1>31 DEF ReleaseSlot
    <1>32. ASSUME NEW s \in Sessions, TakeEvent(s) PROVE AttemptsInv' BY <1>32 DEF TakeEvent
    <1>33. ASSUME NEW s \in Sessions, WakeFromSuspend(s) PROVE AttemptsInv'
        BY <1>33 DEF WakeFromSuspend
    <1>34. ASSUME NEW s \in Sessions, UserCancel(s) PROVE AttemptsInv' BY <1>34 DEF UserCancel
    <1>35. ASSUME NEW s \in Sessions, UserQuit(s) PROVE AttemptsInv' BY <1>35 DEF UserQuit
    <1>36. ASSUME NEW s \in Sessions, SystemQuit(s) PROVE AttemptsInv' BY <1>36 DEF SystemQuit
    <1>37. ASSUME NEW s \in Sessions, CloseWindow(s) PROVE AttemptsInv' BY <1>37 DEF CloseWindow
    <1>38. ASSUME NEW s \in Sessions, DecoderFails(s) PROVE AttemptsInv'
        BY <1>38 DEF DecoderFails
    <1>39. CASE UNCHANGED <<attempt, config, pc>> BY <1>39
    <1>40. CASE HandleRecovery \/ HandleNotify \/ HandleQuit \/ UserDismiss \/ LeaveEventLoop
        \/ Exit \/ TerminateConnection \/ CallbackCheck \/ CallbackRecord \/ CallbackClassify
        \/ CallbackBegin \/ CallbackReport \/ RequestShutdown \/ ShutdownNotify
        \/ ShutdownTerminate \/ ShutdownDispatch \/ HostChanges
        BY <1>40, <1>39 DEF HandleRecovery, HandleNotify, HandleQuit, UserDismiss,
            LeaveEventLoop, Exit, TerminateConnection, CallbackCheck, CallbackRecord,
            CallbackClassify, CallbackBegin, CallbackReport, RequestShutdown, ShutdownNotify,
            ShutdownTerminate, ShutdownDispatch, HostChanges, execVars, objectVars, connVars,
            uiVars, lifeVars
    <1> HIDE Domains, NoSessionIsNone, SessionAssumption DEF IInv, AttemptsInv, Attempts, Goto,
        RegistryUnlocked, Queued, RegisteredAfterFailure, OfferAnotherResume, Down,
        AttemptSucceeded, MustLeave, RequestReturned, ProducersStopped, EndedUnexpectedly,
        QuitHost, MayUnregister, RequestAppExit
    <1>41. CASE MainThread
        BY <1>41, <1>1, <1>2, <1>40 DEF MainThread
    <1>42. ASSUME NEW s \in Sessions, Progress(s) PROVE AttemptsInv'
        BY <1>42, <1>3, <1>4, <1>5, <1>6, <1>7, <1>8, <1>9, <1>10, <1>11, <1>12, <1>13, <1>14,
            <1>15, <1>16, <1>17, <1>18, <1>19, <1>20, <1>21, <1>22, <1>23, <1>24, <1>25, <1>26,
            <1>27, <1>28, <1>29, <1>30, <1>31 DEF Progress
    <1>43. ASSUME NEW s \in Sessions, Stimulus(s) PROVE AttemptsInv'
        BY <1>43, <1>32, <1>33, <1>34, <1>35, <1>36, <1>37, <1>38 DEF Stimulus
    <1>44. CASE Callback
        BY <1>44, <1>40 DEF Callback
    <1>45. CASE Requester
        BY <1>45, <1>40 DEF Requester
    <1> QED
        BY <1>39, <1>40, <1>41, <1>42, <1>43, <1>44, <1>45
        DEF Next, Exited, vars, execVars, objectVars, connVars, uiVars, lifeVars

\* A request is made once, and what ends a session by it follows it.
LEMMA ReasonStep == IInv /\ [Next]_vars => ReasonInv'
    <1> SUFFICES ASSUME IInv, [Next]_vars PROVE ReasonInv'
        OBVIOUS
    <1> USE Domains, NoSessionIsNone DEF IInv, ReasonInv, Goto, RegistryUnlocked, Raise,
        DisconnectMarks, ExitMarks, Queued, RegisteredAfterFailure, OfferAnotherResume, Lower,
        Down, Attempts, AttemptSucceeded, MustLeave, RequestReturned, ProducersStopped,
        EndedUnexpectedly, QuitHost, MayUnregister, RequestAppExit, NoCall, objectVars,
        lifeVars, execVars
    <1>1. CASE CreateSession BY <1>1 DEF CreateSession
    <1>2. CASE HandleRecovery
        <2>1. inbox # <<>> /\ inbox' = Tail(inbox)
            BY <1>2 DEF HandleRecovery
        <2>2. /\ Calls(inbox) \subseteq QueuedCalls
              /\ Calls(inbox) = {Head(inbox)} \cup Calls(inbox')
            BY <2>1, CallDelivered DEF IInv, InboxInv
        <2> QED BY <1>2, <2>2 DEF HandleRecovery, Queued, QueuedCalls
    <1>3. CASE HandleNotify
        <2> DEFINE n == Head(inbox).of
        <2>1. /\ Head(inbox) \in Calls(inbox) /\ Calls(inbox) \subseteq QueuedCalls
              /\ Calls(inbox) = {Head(inbox)} \cup Calls(inbox')
              /\ \A c \in Calls(inbox') : c.what = "quit"
            BY <1>3, CallDelivered DEF IInv, HandleNotify, InboxInv
        <2>2. n \in Sessions /\ ui = "segue" /\ n = cur /\ pc[n] = "done"
            BY <1>3, <2>1 DEF IInv, InboxInv, HandleNotify, QueuedCalls
        <2> QED BY <1>3, <2>1, <2>2 DEF HandleNotify, execVars, objectVars, lifeVars, ExitClient,
            Queued, QueuedCalls
    <1>4. CASE HandleQuit
        <2>1. inbox # <<>> /\ inbox' = Tail(inbox)
            BY <1>4 DEF HandleQuit
        <2>2. /\ Calls(inbox) \subseteq QueuedCalls
              /\ Calls(inbox) = {Head(inbox)} \cup Calls(inbox')
            BY <2>1, CallDelivered DEF IInv, InboxInv
        <2> QED BY <1>4, <2>2 DEF HandleQuit, Queued, QueuedCalls
    <1>5. CASE UserResume BY <1>5 DEF UserResume
    <1>6. CASE UserDismiss BY <1>6 DEF UserDismiss
    <1>7. CASE LeaveEventLoop BY <1>7 DEF LeaveEventLoop
    <1>8. CASE Exit BY <1>8 DEF Exit
    <1>9. ASSUME NEW s \in Sessions, Exec(s) PROVE ReasonInv'
        <2>1. CASE reason = "None"
            <3>1. UNCHANGED <<flag, gate>>
                BY <1>9, <2>1 DEF Exec, Raise, Goto, RegistryUnlocked, ExitRequestedBefore
            <3> QED BY <1>9, <2>1, <3>1 DEF Exec
        <2>2. CASE reason # "None"
            <3>1. /\ flag' = [flag EXCEPT ![s] = flag[s] \cup ExitMarks]
                  /\ gate' = [gate EXCEPT ![s] =
                         BeginTermination(Cancel(gate[s]), FALSE, FALSE)]
                BY <1>9, <2>2 DEF Exec, Raise, Goto, RegistryUnlocked, ExitRequestedBefore
            <3> QED BY <1>9, <2>2, <3>1 DEF Exec
        <2> QED BY <1>9, <2>1, <2>2
    <1>10. ASSUME NEW s \in Sessions, Initialize(s) PROVE ReasonInv'
        <2>1. CASE pc' = [pc EXCEPT ![s] = "waiting"] /\ UNCHANGED <<gate, registered, inbox>>
            BY <1>10, <2>1 DEF Initialize, Queued, QueuedCalls
        <2>2. CASE /\ pc' = [pc EXCEPT ![s] = "done"]
                  /\ registered' = NoSession /\ spc # "terminate"
                  /\ gate' = [gate EXCEPT ![s] = CompleteCleanup(gate[s])]
                  /\ inbox' = Append(inbox, Queued("notify", s))
            <3>1. /\ Queued("notify", s) \in QueuedCalls
                  /\ inbox' = Append(inbox, Queued("notify", s))
                BY <1>10, <2>2 DEF Initialize, OfferAnotherResume, Queued, QueuedCalls
            <3>2. /\ Calls(inbox) \subseteq QueuedCalls
                  /\ Calls(inbox') = Calls(inbox) \cup {Queued("notify", s)}
                BY <3>1, CallAppended DEF IInv, InboxInv
            <3> QED BY <1>10, <2>2, <3>2 DEF Initialize, Queued, QueuedCalls
        <2> QED BY <1>10, <2>1, <2>2 DEF Initialize, Goto, RegistryUnlocked,
            RegisteredAfterFailure
    <1>11. ASSUME NEW s \in Sessions, AcquireSlot(s) PROVE ReasonInv' BY <1>11 DEF AcquireSlot
    <1>12. ASSUME NEW s \in Sessions, PrepareConnection(s) PROVE ReasonInv'
        <2>1. CASE pc' = [pc EXCEPT ![s] = "cleanup"] /\ UNCHANGED flag
            BY <1>12, <2>1 DEF PrepareConnection
        <2>2. CASE pc' = [pc EXCEPT ![s] = "launching"] /\ Raise(s, {"Suppress"})
            BY <1>12, <2>2 DEF PrepareConnection
        <2>3. CASE pc' = [pc EXCEPT ![s] = "launching"] /\ UNCHANGED flag
            BY <1>12, <2>3 DEF PrepareConnection
        <2> QED BY <1>12, <2>1, <2>2, <2>3 DEF PrepareConnection, Goto
    <1>13. ASSUME NEW s \in Sessions, Launch(s) PROVE ReasonInv'
        <2>1. CASE pc' = [pc EXCEPT ![s] = "launched"] /\ UNCHANGED <<gate, told, inbox>>
            BY <1>13, <2>1 DEF Launch, Queued, QueuedCalls
        <2>2. CASE pc' = [pc EXCEPT ![s] = "giveUp"] /\ UNCHANGED <<gate, told, inbox>>
            BY <1>13, <2>2 DEF Launch, Queued, QueuedCalls
        <2>3. CASE pc' = [pc EXCEPT ![s] = "giveUp"] /\ OfferAnotherResume(s)
            <3>1. /\ Queued("recovery", s) \in QueuedCalls
                  /\ inbox' = Append(inbox, Queued("recovery", s))
                BY <1>13, <2>3 DEF Launch, OfferAnotherResume, Queued, QueuedCalls
            <3>2. /\ Calls(inbox) \subseteq QueuedCalls
                  /\ Calls(inbox') = Calls(inbox) \cup {Queued("recovery", s)}
                BY <3>1, CallAppended DEF IInv, InboxInv
            <3> QED BY <1>13, <2>3, <3>2 DEF Launch, Queued, QueuedCalls
        <2> QED BY <1>13, <2>1, <2>2, <2>3 DEF Launch, Goto
    <1>14. ASSUME NEW s \in Sessions, CheckLaunched(s) PROVE ReasonInv'
        BY <1>14 DEF CheckLaunched
    <1>15. ASSUME NEW s \in Sessions, StartConnection(s) PROVE ReasonInv'
        BY <1>15 DEF StartConnection
    <1>16. ASSUME NEW s \in Sessions, StartReturns(s) PROVE ReasonInv' BY <1>16 DEF StartReturns
    <1>17. ASSUME NEW s \in Sessions, JudgeAttempt(s) PROVE ReasonInv' BY <1>17 DEF JudgeAttempt
    <1>18. ASSUME NEW s \in Sessions, Backoff(s) PROVE ReasonInv' BY <1>18 DEF Backoff
    <1>19. ASSUME NEW s \in Sessions, EndAttempts(s) PROVE ReasonInv' BY <1>19 DEF EndAttempts
    <1>20. ASSUME NEW s \in Sessions, ConnectionStarted(s) PROVE ReasonInv'
        BY <1>20 DEF ConnectionStarted
    <1>21. ASSUME NEW s \in Sessions, OpenWindow(s) PROVE ReasonInv'
        <2>1. CASE pc' = [pc EXCEPT ![s] = "streaming"] /\ Lower(s, {"Unexpected"})
            BY <1>21, <2>1 DEF OpenWindow
        <2>2. CASE pc' = [pc EXCEPT ![s] = "cleanup"] /\ UNCHANGED flag
            BY <1>21, <2>2 DEF OpenWindow
        <2> QED BY <1>21, <2>1, <2>2 DEF OpenWindow, Goto
    <1>22. ASSUME NEW s \in Sessions, SeeTermination(s) PROVE ReasonInv'
        BY <1>22 DEF SeeTermination
    <1>23. ASSUME NEW s \in Sessions, HandleEvent(s) PROVE ReasonInv' BY <1>23 DEF HandleEvent
    <1>24. ASSUME NEW s \in Sessions, FinishCancel(s) PROVE ReasonInv' BY <1>24 DEF FinishCancel
    <1>25. ASSUME NEW s \in Sessions, FinishQuit(s) PROVE ReasonInv' BY <1>25 DEF FinishQuit
    <1>26. ASSUME NEW s \in Sessions, FinishSystemQuit(s) PROVE ReasonInv'
        BY <1>26 DEF FinishSystemQuit
    <1>27. ASSUME NEW s \in Sessions, QuitLoop(s) PROVE ReasonInv' BY <1>27 DEF QuitLoop
    <1>28. ASSUME NEW s \in Sessions, Teardown(s) PROVE ReasonInv' BY <1>28 DEF Teardown
    <1>29. ASSUME NEW s \in Sessions, BeginCleanupTask(s) PROVE ReasonInv'
        BY <1>29 DEF BeginCleanupTask
    <1>30. ASSUME NEW s \in Sessions, StopConnection(s) PROVE ReasonInv'
        BY <1>30 DEF StopConnection
    <1>31. ASSUME NEW s \in Sessions, Decide(s) PROVE ReasonInv' BY <1>31 DEF Decide
    <1>32. ASSUME NEW s \in Sessions, AskHost(s) PROVE ReasonInv'
        <2>1. CASE pc' = [pc EXCEPT ![s] = "sendingQuit"]
            BY <1>32, <2>1 DEF AskHost
        <2>2. CASE pc' = [pc EXCEPT ![s] = "completing"]
            BY <1>32, <2>2 DEF AskHost
        <2> QED BY <1>32, <2>1, <2>2 DEF AskHost, Goto
    <1>33. ASSUME NEW s \in Sessions, QuitHostApp(s) PROVE ReasonInv' BY <1>33 DEF QuitHostApp
    <1>34. ASSUME NEW s \in Sessions, Complete(s) PROVE ReasonInv' BY <1>34 DEF Complete
    <1>35. ASSUME NEW s \in Sessions, Unregister(s) PROVE ReasonInv' BY <1>35 DEF Unregister
    <1>36. ASSUME NEW s \in Sessions, ClearActive(s) PROVE ReasonInv' BY <1>36 DEF ClearActive
    <1>37. ASSUME NEW s \in Sessions, ReleaseSlot(s) PROVE ReasonInv'
        <2>1. Queued("notify", s) \in QueuedCalls /\ inbox' = Append(inbox, Queued("notify", s))
            BY <1>37 DEF ReleaseSlot, OfferAnotherResume, Queued, QueuedCalls
        <2>2. /\ Calls(inbox) \subseteq QueuedCalls
              /\ Calls(inbox') = Calls(inbox) \cup {Queued("notify", s)}
            BY <2>1, CallAppended DEF IInv, InboxInv
        <2> QED BY <1>37, <2>2 DEF ReleaseSlot, Queued, QueuedCalls
    <1>38. ASSUME NEW s \in Sessions, TakeEvent(s) PROVE ReasonInv' BY <1>38 DEF TakeEvent
    <1>39. ASSUME NEW s \in Sessions, WakeFromSuspend(s) PROVE ReasonInv'
        <2>1. /\ Queued("recovery", s) \in QueuedCalls
              /\ inbox' = Append(inbox, Queued("recovery", s))
            BY <1>39 DEF WakeFromSuspend, OfferAnotherResume, Queued, QueuedCalls
        <2>2. /\ Calls(inbox) \subseteq QueuedCalls
              /\ Calls(inbox') = Calls(inbox) \cup {Queued("recovery", s)}
            BY <2>1, CallAppended DEF IInv, InboxInv
        <2> QED BY <1>39, <2>2 DEF WakeFromSuspend, Queued, QueuedCalls
    <1>40. ASSUME NEW s \in Sessions, UserCancel(s) PROVE ReasonInv' BY <1>40 DEF UserCancel
    <1>41. ASSUME NEW s \in Sessions, UserQuit(s) PROVE ReasonInv'
        <2>1. CASE reason = "None"
            <3>1. reason' = "Exit" /\ spc' = "notify"
                BY <1>41, <2>1 DEF UserQuit, Raise, Goto, RequestAppExit
            <3> QED BY <1>41, <2>1, <3>1 DEF UserQuit
        <2>2. CASE reason # "None"
            <3>1. UNCHANGED <<reason, spc>>
                BY <1>41, <2>2 DEF UserQuit, Raise, Goto, RequestAppExit
            <3> QED BY <1>41, <2>2, <3>1 DEF UserQuit
        <2> QED BY <1>41, <2>1, <2>2
    <1>42. ASSUME NEW s \in Sessions, SystemQuit(s) PROVE ReasonInv'
        <2>1. CASE reason = "None"
            <3>1. reason' = "Exit" /\ spc' = "notify"
                BY <1>42, <2>1 DEF SystemQuit, Goto, RequestAppExit
            <3> QED BY <1>42, <2>1, <3>1 DEF SystemQuit
        <2>2. CASE reason # "None"
            <3>1. UNCHANGED <<reason, spc>>
                BY <1>42, <2>2 DEF SystemQuit, Goto, RequestAppExit
            <3> QED BY <1>42, <2>2, <3>1 DEF SystemQuit
        <2> QED BY <1>42, <2>1, <2>2
    <1>43. ASSUME NEW s \in Sessions, CloseWindow(s) PROVE ReasonInv' BY <1>43 DEF CloseWindow
    <1>44. ASSUME NEW s \in Sessions, DecoderFails(s) PROVE ReasonInv' BY <1>44 DEF DecoderFails
    <1>45. CASE CallbackRecord BY <1>45 DEF CallbackRecord
    <1>46. CASE CallbackReport
        <2>1. CASE cb.surface = "recovery"
            <3>1. /\ Queued("recovery", cb.of) \in QueuedCalls
                  /\ inbox' = Append(inbox, Queued("recovery", cb.of))
                BY <1>46, <2>1, Domains DEF CallbackReport, IInv, ConnInv, Tell, Queued,
                    QueuedCalls, NoSession
            <3>2. /\ Calls(inbox) \subseteq QueuedCalls
                  /\ Calls(inbox') = Calls(inbox) \cup {Queued("recovery", cb.of)}
                BY <3>1, CallAppended DEF IInv, InboxInv
            <3>3. inbox' = Append(inbox, Queued("recovery", cb.of)) /\ Tell(cb.of, "lost")
                BY <1>46, <2>1 DEF CallbackReport, Tell
            <3> QED BY <1>46, <2>1, <3>2, <3>3 DEF CallbackReport, Queued, QueuedCalls
        <2>2. CASE cb.surface = "error"
            <3>1. UNCHANGED inbox /\ Tell(cb.of, "lost")
                BY <1>46, <2>2 DEF CallbackReport, Tell
            <3> QED BY <1>46, <2>2, <3>1 DEF CallbackReport, Queued, QueuedCalls
        <2>3. CASE cb.surface = "nothing"
            <3>1. UNCHANGED <<inbox, told>>
                BY <1>46, <2>3 DEF CallbackReport, Tell
            <3> QED BY <1>46, <2>3, <3>1 DEF CallbackReport, Queued, QueuedCalls
        <2> QED BY <1>46, <2>1, <2>2, <2>3
    <1>47. CASE RequestShutdown BY <1>47 DEF RequestShutdown
    <1>48. CASE ShutdownNotify
        <2>1. CASE registered = NoSession
            <3>1. UNCHANGED <<flag, gate>> /\ spc' = "dispatch"
                BY <1>48, <2>1 DEF ShutdownNotify, Raise
            <3> QED BY <1>48, <2>1, <3>1 DEF ShutdownNotify
        <2>2. CASE registered # NoSession
            <3>1. /\ flag' = [flag EXCEPT ![registered] = flag[registered] \cup ExitMarks]
                  /\ gate' = [gate EXCEPT ![registered] = Cancel(gate[registered])]
                  /\ spc' = "terminate"
                BY <1>48, <2>2 DEF ShutdownNotify, Raise
            <3> QED BY <1>48, <2>2, <3>1 DEF ShutdownNotify
        <2> QED BY <1>48, <2>1, <2>2
    <1>49. CASE ShutdownTerminate BY <1>49 DEF ShutdownTerminate
    <1>50. CASE ShutdownDispatch
        <2>1. /\ Queued("quit", NoSession) \in QueuedCalls
              /\ inbox' = Append(inbox, Queued("quit", NoSession))
            BY <1>50 DEF ShutdownDispatch, OfferAnotherResume, Queued, QueuedCalls
        <2>2. /\ Calls(inbox) \subseteq QueuedCalls
              /\ Calls(inbox') = Calls(inbox) \cup {Queued("quit", NoSession)}
            BY <2>1, CallAppended DEF IInv, InboxInv
        <2> QED BY <1>50, <2>2 DEF ShutdownDispatch, Queued, QueuedCalls
    <1>51. CASE UNCHANGED <<flag, inbox, mpc, pc, quitting, reason, spc>> BY <1>51
    <1>52. CASE TerminateConnection \/ CallbackCheck \/ CallbackClassify \/ CallbackBegin
        \/ HostChanges
        BY <1>52, <1>51 DEF TerminateConnection, CallbackCheck, CallbackClassify, CallbackBegin,
            HostChanges, execVars, objectVars, connVars, uiVars, lifeVars
    <1> HIDE Domains, NoSessionIsNone DEF IInv, ReasonInv, Goto, RegistryUnlocked, Raise,
        DisconnectMarks, ExitMarks, Queued, RegisteredAfterFailure, OfferAnotherResume, Lower,
        Down, Attempts, AttemptSucceeded, MustLeave, RequestReturned, ProducersStopped,
        EndedUnexpectedly, QuitHost, MayUnregister, RequestAppExit, NoCall, objectVars,
        lifeVars, execVars
    <1>53. CASE MainThread
        BY <1>53, <1>1, <1>2, <1>3, <1>4, <1>5, <1>6, <1>7, <1>8 DEF MainThread
    <1>54. ASSUME NEW s \in Sessions, Progress(s) PROVE ReasonInv'
        BY <1>54, <1>9, <1>10, <1>11, <1>12, <1>13, <1>14, <1>15, <1>16, <1>17, <1>18, <1>19,
            <1>20, <1>21, <1>22, <1>23, <1>24, <1>25, <1>26, <1>27, <1>28, <1>29, <1>30, <1>31,
            <1>32, <1>33, <1>34, <1>35, <1>36, <1>37 DEF Progress
    <1>55. ASSUME NEW s \in Sessions, Stimulus(s) PROVE ReasonInv'
        BY <1>55, <1>38, <1>39, <1>40, <1>41, <1>42, <1>43, <1>44 DEF Stimulus
    <1>56. CASE Callback
        BY <1>56, <1>45, <1>46, <1>52 DEF Callback
    <1>57. CASE Requester
        BY <1>57, <1>48, <1>49, <1>50 DEF Requester
    <1> QED
        BY <1>51, <1>47, <1>52, <1>53, <1>54, <1>55, <1>56, <1>57
        DEF Next, Exited, vars, execVars, objectVars, connVars, uiVars, lifeVars

\* Whoever marks a session recoverable queues its text, or is about to.
LEMMA TextStep == IInv /\ [Next]_vars => TextInv'
    <1> SUFFICES ASSUME IInv, [Next]_vars PROVE TextInv'
        OBVIOUS
    <1> USE Domains, NoSessionIsNone DEF IInv, TextInv, Queued, QueuedCalls, ConnInv,
        ConnectedSteps, Goto, TakeResume, RegistryUnlocked, Cancel, BeginTermination,
        CompleteCleanup, RegisteredAfterFailure, OfferAnotherResume, RequestReturned,
        BeginCleanup, MustLeave, RequestAppExit, NoCall, Surface, objectVars, connVars, uiVars
    <1>1. CASE HandleRecovery
        <2>1. inbox # <<>> /\ inbox' = Tail(inbox)
            BY <1>1 DEF HandleRecovery
        <2>2. /\ Calls(inbox) \subseteq QueuedCalls
              /\ Calls(inbox) = {Head(inbox)} \cup Calls(inbox')
            BY <2>1, CallDelivered DEF IInv, InboxInv
        <2> QED BY <1>1, <2>2 DEF HandleRecovery
    <1>2. CASE HandleNotify
        <2>1. CASE Head(inbox).of \in recoveryText /\ MayResume(gate[Head(inbox).of])
            <3>1. inbox # <<>> /\ inbox' = Tail(inbox)
                BY <1>2, <2>1 DEF HandleNotify
            <3>2. /\ Calls(inbox) \subseteq QueuedCalls
                  /\ Calls(inbox) = {Head(inbox)} \cup Calls(inbox')
                BY <3>1, CallDelivered DEF IInv, InboxInv
            <3>3. ui' = "recovery" /\ UNCHANGED <<cur, deleted>>
                BY <1>2, <2>1 DEF HandleNotify
            <3> QED BY <1>2, <2>1, <3>2, <3>3 DEF HandleNotify
        <2>2. CASE ~(Head(inbox).of \in recoveryText /\ MayResume(gate[Head(inbox).of]))
            <3>1. inbox # <<>> /\ inbox' = Tail(inbox)
                BY <1>2, <2>2 DEF HandleNotify
            <3>2. /\ Calls(inbox) \subseteq QueuedCalls
                  /\ Calls(inbox) = {Head(inbox)} \cup Calls(inbox')
                BY <3>1, CallDelivered DEF IInv, InboxInv
            <3>3. ui' = "list" /\ cur' = NoSession /\ deleted' = deleted \cup {Head(inbox).of}
                BY <1>2, <2>2 DEF HandleNotify
            <3> QED BY <1>2, <2>2, <3>2, <3>3 DEF HandleNotify
        <2> QED BY <1>2, <2>1, <2>2
    <1>3. CASE HandleQuit
        <2>1. inbox # <<>> /\ inbox' = Tail(inbox)
            BY <1>3 DEF HandleQuit
        <2>2. /\ Calls(inbox) \subseteq QueuedCalls
              /\ Calls(inbox) = {Head(inbox)} \cup Calls(inbox')
            BY <2>1, CallDelivered DEF IInv, InboxInv
        <2> QED BY <1>3, <2>2 DEF HandleQuit
    <1>4. CASE UserResume BY <1>4 DEF UserResume
    <1>5. CASE UserDismiss BY <1>5 DEF UserDismiss
    <1>6. CASE LeaveEventLoop BY <1>6 DEF LeaveEventLoop
    <1>7. ASSUME NEW s \in Sessions, Exec(s) PROVE TextInv'
        <2>1. CASE reason = "None"
            <3>1. UNCHANGED <<flag, gate>>
                BY <1>7, <2>1 DEF Exec, Raise, Goto, RegistryUnlocked, ExitRequestedBefore
            <3> QED BY <1>7, <2>1, <3>1 DEF Exec
        <2>2. CASE reason # "None"
            <3>1. /\ flag' = [flag EXCEPT ![s] = flag[s] \cup ExitMarks]
                  /\ gate' = [gate EXCEPT ![s] =
                         BeginTermination(Cancel(gate[s]), FALSE, FALSE)]
                BY <1>7, <2>2 DEF Exec, Raise, Goto, RegistryUnlocked, ExitRequestedBefore
            <3> QED BY <1>7, <2>2, <3>1 DEF Exec
        <2> QED BY <1>7, <2>1, <2>2
    <1>8. ASSUME NEW s \in Sessions, Initialize(s) PROVE TextInv'
        <2>1. CASE pc' = [pc EXCEPT ![s] = "waiting"] /\ UNCHANGED <<gate, registered, inbox>>
            BY <1>8, <2>1 DEF Initialize
        <2>2. CASE /\ pc' = [pc EXCEPT ![s] = "done"]
                  /\ registered' = NoSession /\ spc # "terminate"
                  /\ gate' = [gate EXCEPT ![s] = CompleteCleanup(gate[s])]
                  /\ inbox' = Append(inbox, Queued("notify", s))
            <3>1. /\ Queued("notify", s) \in QueuedCalls
                  /\ inbox' = Append(inbox, Queued("notify", s))
                BY <1>8, <2>2 DEF Initialize, OfferAnotherResume, Queued, QueuedCalls
            <3>2. /\ Calls(inbox) \subseteq QueuedCalls
                  /\ Calls(inbox') = Calls(inbox) \cup {Queued("notify", s)}
                BY <3>1, CallAppended DEF IInv, InboxInv
            <3> QED BY <1>8, <2>2, <3>2 DEF Initialize
        <2> QED BY <1>8, <2>1, <2>2 DEF Initialize, Goto, RegistryUnlocked, RegisteredAfterFailure
    <1>9. ASSUME NEW s \in Sessions, Launch(s) PROVE TextInv'
        <2>1. CASE pc' = [pc EXCEPT ![s] = "launched"] /\ UNCHANGED <<gate, told, inbox>>
            BY <1>9, <2>1 DEF Launch
        <2>2. CASE pc' = [pc EXCEPT ![s] = "giveUp"] /\ UNCHANGED <<gate, told, inbox>>
            BY <1>9, <2>2 DEF Launch
        <2>3. CASE pc' = [pc EXCEPT ![s] = "giveUp"] /\ OfferAnotherResume(s)
            <3>1. /\ Queued("recovery", s) \in QueuedCalls
                  /\ inbox' = Append(inbox, Queued("recovery", s))
                BY <1>9, <2>3 DEF Launch, OfferAnotherResume, Queued, QueuedCalls
            <3>2. /\ Calls(inbox) \subseteq QueuedCalls
                  /\ Calls(inbox') = Calls(inbox) \cup {Queued("recovery", s)}
                BY <3>1, CallAppended DEF IInv, InboxInv
            <3> QED BY <1>9, <2>3, <3>2 DEF Launch
        <2> QED BY <1>9, <2>1, <2>2, <2>3 DEF Launch, Goto
    <1>10. ASSUME NEW s \in Sessions, FinishCancel(s) PROVE TextInv' BY <1>10 DEF FinishCancel
    <1>11. ASSUME NEW s \in Sessions, FinishSystemQuit(s) PROVE TextInv'
        BY <1>11 DEF FinishSystemQuit
    <1>12. ASSUME NEW s \in Sessions, Teardown(s) PROVE TextInv' BY <1>12 DEF Teardown
    <1>13. ASSUME NEW s \in Sessions, BeginCleanupTask(s) PROVE TextInv'
        BY <1>13 DEF BeginCleanupTask
    <1>14. ASSUME NEW s \in Sessions, Complete(s) PROVE TextInv' BY <1>14 DEF Complete
    <1>15. ASSUME NEW s \in Sessions, ReleaseSlot(s) PROVE TextInv'
        <2>1. Queued("notify", s) \in QueuedCalls /\ inbox' = Append(inbox, Queued("notify", s))
            BY <1>15 DEF ReleaseSlot, OfferAnotherResume, Queued, QueuedCalls
        <2>2. /\ Calls(inbox) \subseteq QueuedCalls
              /\ Calls(inbox') = Calls(inbox) \cup {Queued("notify", s)}
            BY <2>1, CallAppended DEF IInv, InboxInv
        <2> QED BY <1>15, <2>2 DEF ReleaseSlot
    <1>16. ASSUME NEW s \in Sessions, WakeFromSuspend(s) PROVE TextInv'
        <2>1. /\ Queued("recovery", s) \in QueuedCalls
              /\ inbox' = Append(inbox, Queued("recovery", s))
            BY <1>16 DEF WakeFromSuspend, OfferAnotherResume, Queued, QueuedCalls
        <2>2. /\ Calls(inbox) \subseteq QueuedCalls
              /\ Calls(inbox') = Calls(inbox) \cup {Queued("recovery", s)}
            BY <2>1, CallAppended DEF IInv, InboxInv
        <2> QED BY <1>16, <2>2 DEF WakeFromSuspend
    <1>17. ASSUME NEW s \in Sessions, UserCancel(s) PROVE TextInv' BY <1>17 DEF UserCancel
    <1>18. ASSUME NEW s \in Sessions, UserQuit(s) PROVE TextInv' BY <1>18 DEF UserQuit
    <1>19. ASSUME NEW s \in Sessions, CloseWindow(s) PROVE TextInv' BY <1>19 DEF CloseWindow
    <1>20. CASE TerminateConnection BY <1>20 DEF TerminateConnection
    <1>21. CASE CallbackCheck BY <1>21 DEF CallbackCheck
    <1>22. CASE CallbackRecord BY <1>22 DEF CallbackRecord
    <1>23. CASE CallbackClassify BY <1>23 DEF CallbackClassify
    <1>24. CASE CallbackBegin
        <2>1. CASE "Terminating" \in gate[cb.of]
            <3>1. cb' = NoCall /\ UNCHANGED gate
                BY <1>24, <2>1 DEF CallbackBegin
            <3> QED BY <1>24, <2>1, <3>1 DEF CallbackBegin
        <2>2. CASE "Terminating" \notin gate[cb.of]
            <3>1. /\ gate' = [gate EXCEPT ![cb.of] =
                         BeginTermination(gate[cb.of], Surface = "recovery",
                                                Surface # "nothing")]
                              /\ cb' = [cb EXCEPT !.pc = "report", !.surface = Surface]
                BY <1>24, <2>2 DEF CallbackBegin
            <3> QED BY <1>24, <2>2, <3>1 DEF CallbackBegin
        <2> QED BY <1>24, <2>1, <2>2
    <1>25. CASE CallbackReport
        <2>1. CASE cb.surface = "recovery"
            <3>1. /\ Queued("recovery", cb.of) \in QueuedCalls
                  /\ inbox' = Append(inbox, Queued("recovery", cb.of))
                BY <1>25, <2>1, Domains DEF CallbackReport, IInv, ConnInv, Tell, Queued,
                    QueuedCalls, NoSession
            <3>2. /\ Calls(inbox) \subseteq QueuedCalls
                  /\ Calls(inbox') = Calls(inbox) \cup {Queued("recovery", cb.of)}
                BY <3>1, CallAppended DEF IInv, InboxInv
            <3>3. inbox' = Append(inbox, Queued("recovery", cb.of)) /\ Tell(cb.of, "lost")
                BY <1>25, <2>1 DEF CallbackReport, Tell
            <3> QED BY <1>25, <2>1, <3>2, <3>3 DEF CallbackReport
        <2>2. CASE cb.surface = "error"
            <3>1. UNCHANGED inbox /\ Tell(cb.of, "lost")
                BY <1>25, <2>2 DEF CallbackReport, Tell
            <3> QED BY <1>25, <2>2, <3>1 DEF CallbackReport
        <2>3. CASE cb.surface = "nothing"
            <3>1. UNCHANGED <<inbox, told>>
                BY <1>25, <2>3 DEF CallbackReport, Tell
            <3> QED BY <1>25, <2>3, <3>1 DEF CallbackReport
        <2> QED BY <1>25, <2>1, <2>2, <2>3
    <1>26. CASE ShutdownNotify
        <2>1. CASE registered = NoSession
            <3>1. UNCHANGED <<flag, gate>> /\ spc' = "dispatch"
                BY <1>26, <2>1 DEF ShutdownNotify, Raise
            <3> QED BY <1>26, <2>1, <3>1 DEF ShutdownNotify
        <2>2. CASE registered # NoSession
            <3>1. /\ flag' = [flag EXCEPT ![registered] = flag[registered] \cup ExitMarks]
                  /\ gate' = [gate EXCEPT ![registered] = Cancel(gate[registered])]
                  /\ spc' = "terminate"
                BY <1>26, <2>2 DEF ShutdownNotify, Raise
            <3> QED BY <1>26, <2>2, <3>1 DEF ShutdownNotify
        <2> QED BY <1>26, <2>1, <2>2
    <1>27. CASE ShutdownTerminate BY <1>27 DEF ShutdownTerminate
    <1>28. CASE ShutdownDispatch
        <2>1. /\ Queued("quit", NoSession) \in QueuedCalls
              /\ inbox' = Append(inbox, Queued("quit", NoSession))
            BY <1>28 DEF ShutdownDispatch, OfferAnotherResume, Queued, QueuedCalls
        <2>2. /\ Calls(inbox) \subseteq QueuedCalls
              /\ Calls(inbox') = Calls(inbox) \cup {Queued("quit", NoSession)}
            BY <2>1, CallAppended DEF IInv, InboxInv
        <2>3. UNCHANGED <<cb, gate, recoveryText>>
            BY <1>28 DEF ShutdownDispatch
        <2> QED BY <2>2, <2>3
    <1>29. CASE UNCHANGED <<cb, gate, inbox, recoveryText>> BY <1>29
    <1>30. CASE CreateSession \/ Exit \/ RequestShutdown \/ HostChanges
        BY <1>30, <1>29 DEF CreateSession, Exit, RequestShutdown, HostChanges, execVars,
            objectVars, connVars, uiVars, lifeVars
    <1>31. ASSUME NEW s \in Sessions, AcquireSlot(s) \/ PrepareConnection(s) \/ CheckLaunched(s)
        \/ StartConnection(s) \/ StartReturns(s) \/ JudgeAttempt(s) \/ Backoff(s)
        \/ EndAttempts(s) \/ ConnectionStarted(s) \/ OpenWindow(s) \/ SeeTermination(s)
        \/ HandleEvent(s) \/ FinishQuit(s) \/ QuitLoop(s) \/ StopConnection(s) \/ Decide(s)
        \/ AskHost(s) \/ QuitHostApp(s) \/ Unregister(s) \/ ClearActive(s) \/ TakeEvent(s)
        \/ SystemQuit(s) \/ DecoderFails(s)
           PROVE TextInv'
        BY <1>31, <1>29 DEF AcquireSlot, PrepareConnection, CheckLaunched, StartConnection,
            StartReturns, JudgeAttempt, Backoff, EndAttempts, ConnectionStarted, OpenWindow,
            SeeTermination, HandleEvent, FinishQuit, QuitLoop, StopConnection, Decide, AskHost,
            QuitHostApp, Unregister, ClearActive, TakeEvent, SystemQuit, DecoderFails, execVars,
            objectVars, connVars, uiVars, lifeVars
    <1> HIDE Domains, NoSessionIsNone DEF IInv, TextInv, Queued, QueuedCalls, ConnInv,
        ConnectedSteps, Goto, TakeResume, RegistryUnlocked, Cancel, BeginTermination,
        CompleteCleanup, RegisteredAfterFailure, OfferAnotherResume, RequestReturned,
        BeginCleanup, MustLeave, RequestAppExit, NoCall, Surface, objectVars, connVars, uiVars
    <1>32. CASE MainThread
        BY <1>32, <1>1, <1>2, <1>3, <1>4, <1>5, <1>6, <1>30 DEF MainThread
    <1>33. ASSUME NEW s \in Sessions, Progress(s) PROVE TextInv'
        BY <1>33, <1>7, <1>8, <1>9, <1>10, <1>11, <1>12, <1>13, <1>14, <1>15, <1>31 DEF Progress
    <1>34. ASSUME NEW s \in Sessions, Stimulus(s) PROVE TextInv'
        BY <1>34, <1>16, <1>17, <1>18, <1>19, <1>31 DEF Stimulus
    <1>35. CASE Callback
        BY <1>35, <1>21, <1>22, <1>23, <1>24, <1>25 DEF Callback
    <1>36. CASE Requester
        BY <1>36, <1>26, <1>27, <1>28 DEF Requester
    <1> QED
        BY <1>29, <1>20, <1>30, <1>32, <1>33, <1>34, <1>35, <1>36
        DEF Next, Exited, vars, execVars, objectVars, connVars, uiVars, lifeVars

\* The end of the cleanup keeps what can be resumed, and nothing else.
LEMMA OfferComplete ==
    ASSUME IInv, NEW s \in Sessions, Complete(s)
    PROVE  OfferInv'
    <1>1. /\ pc[s] = "completing" /\ gate' = [gate EXCEPT ![s] = CompleteCleanup(gate[s])]
          /\ UNCHANGED <<ui, cur, mpc, reason, recoveryContext, deleted>>
          /\ pc' = [pc EXCEPT ![s] = IF MayResume(CompleteCleanup(gate[s])) THEN "keep"
                                     ELSE "forget"]
        BY DEF Complete, Goto, uiVars, lifeVars
    <1>2. pc \in [Sessions -> Steps] /\ gate \in [Sessions -> SUBSET Bits]
          /\ cur \in Sessions \cup {NoSession} /\ recoveryContext \in Sessions \cup {NoSession}
        BY Domains DEF IInv
    <1>3. pc'[s] = "keep" => Offered(s)'
        BY <1>1, <1>2 DEF MayResume, Offered, Ended
    <1>4. \A t \in Sessions : t # s => gate'[t] = gate[t] /\ pc'[t] = pc[t]
        BY <1>1, <1>2
    <1>5. ui = "segue" /\ recoveryContext # s
        BY <1>1 DEF IInv, SegueInv, Live, OfferInv, NoSession
    <1>6. \A t \in Sessions : pc'[t] = "keep" /\ reason' = "None" => Offered(t)'
        BY <1>1, <1>3, <1>4 DEF IInv, OfferInv, Offered
    <1>7. recoveryContext' # NoSession =>
              /\ pc'[recoveryContext'] \in {"clearing", "releasing", "done"}
              /\ reason' = "None" => Offered(recoveryContext)' /\ recoveryContext' \notin deleted'
        BY <1>1, <1>2, <1>4, <1>5 DEF IInv, OfferInv, Offered
    <1> QED BY <1>1, <1>5, <1>6, <1>7 DEF OfferInv

\* A session that may be resumed has queued its text before its completion,
\* so the dialog opens and the registry's offer is never of a deleted session.
LEMMA OfferStep == IInv /\ [Next]_vars => OfferInv'
    <1> SUFFICES ASSUME IInv, [Next]_vars PROVE OfferInv'
        OBVIOUS
    <1> USE Domains, NoSessionIsNone DEF IInv, MayResume, OfferInv, Offered, Ended, SegueInv,
        InboxInv, TextInv, RegistryInv, RegisteredSteps, ConnInv, ConnectedSteps, ReasonInv,
        Live, Windowed, TaskSteps, Connecting, Goto, TakeResume, ClearRecovery,
        RegistryUnlocked, Cancel, BeginTermination, Queued, CompleteCleanup,
        RegisteredAfterFailure, OfferAnotherResume, Down, Attempts, AttemptSucceeded, MustLeave,
        RequestReturned, BeginCleanup, ProducersStopped, EndedUnexpectedly, QuitHost,
        MayUnregister, RequestAppExit, Surface, NoCall, objectVars, lifeVars, execVars, uiVars
    <1>1. CASE CreateSession BY <1>1 DEF CreateSession
    <1>2. CASE HandleNotify
        <2> DEFINE n == Head(inbox).of
        <2>1. /\ Head(inbox) \in Calls(inbox) /\ Calls(inbox) \subseteq QueuedCalls
              /\ Calls(inbox) = {Head(inbox)} \cup Calls(inbox')
              /\ \A c \in Calls(inbox') : c.what = "quit"
            BY <1>2, CallDelivered DEF IInv, HandleNotify, InboxInv
        <2>2. n \in Sessions /\ ui = "segue" /\ n = cur /\ pc[n] = "done"
            BY <1>2, <2>1 DEF IInv, InboxInv, HandleNotify, QueuedCalls
        <2>3. CASE n \in recoveryText /\ MayResume(gate[n])
            <3>1. ui' = "recovery" /\ UNCHANGED <<cur, deleted>>
                BY <1>2, <2>3 DEF HandleNotify
            <3>2. Offered(n)
                BY <2>2, <2>3, ResumeMeansOffered
            <3> QED BY <1>2, <2>2, <3>1, <3>2 DEF HandleNotify, execVars, objectVars, IInv,
                OfferInv, Offered
        <2>4. CASE ~(n \in recoveryText /\ MayResume(gate[n]))
            <3>1. ui' = "list" /\ deleted' = deleted \cup {n}
                BY <1>2, <2>4 DEF HandleNotify
            <3>2. ~Offered(n)
                <4>1. ASSUME Offered(n) PROVE n \in recoveryText
                    <5>1. Queued("recovery", n) \notin Calls(inbox)
                        BY <1>2, <2>1 DEF HandleNotify, Queued
                    <5>2. ~(cb.pc = "report" /\ cb.of = n)
                        BY <2>2 DEF IInv, ConnInv, ConnectedSteps, Windowed
                    <5> QED BY <4>1, <5>1, <5>2, <2>2 DEF IInv, TextInv, Offered
                <4>2. ASSUME Offered(n) PROVE MayResume(gate[n])
                    BY <4>2, <2>2, ResumeMeansOffered
                <4> QED BY <4>1, <4>2, <2>4
            <3> QED BY <1>2, <3>1, <3>2 DEF HandleNotify, execVars, objectVars, IInv, OfferInv,
                Offered
        <2> QED BY <2>3, <2>4
    <1>3. CASE UserResume BY <1>3 DEF UserResume
    <1>4. CASE UserDismiss BY <1>4 DEF UserDismiss
    <1>5. CASE LeaveEventLoop BY <1>5 DEF LeaveEventLoop
    <1>6. CASE Exit BY <1>6 DEF Exit
    <1>7. ASSUME NEW s \in Sessions, Exec(s) PROVE OfferInv'
        <2>1. CASE reason = "None"
            <3>1. UNCHANGED <<flag, gate>>
                BY <1>7, <2>1 DEF Exec, Raise, Goto, RegistryUnlocked, ExitRequestedBefore
            <3> QED BY <1>7, <2>1, <3>1 DEF Exec
        <2>2. CASE reason # "None"
            <3>1. /\ flag' = [flag EXCEPT ![s] = flag[s] \cup ExitMarks]
                  /\ gate' = [gate EXCEPT ![s] =
                         BeginTermination(Cancel(gate[s]), FALSE, FALSE)]
                BY <1>7, <2>2 DEF Exec, Raise, Goto, RegistryUnlocked, ExitRequestedBefore
            <3> QED BY <1>7, <2>2, <3>1 DEF Exec
        <2> QED BY <1>7, <2>1, <2>2
    <1>8. ASSUME NEW s \in Sessions, Initialize(s) PROVE OfferInv'
        <2>1. CASE pc' = [pc EXCEPT ![s] = "waiting"] /\ UNCHANGED <<gate, registered, inbox>>
            BY <1>8, <2>1 DEF Initialize
        <2>2. CASE /\ pc' = [pc EXCEPT ![s] = "done"]
                  /\ registered' = NoSession /\ spc # "terminate"
                  /\ gate' = [gate EXCEPT ![s] = CompleteCleanup(gate[s])]
                  /\ inbox' = Append(inbox, Queued("notify", s))
            BY <1>8, <2>2 DEF Initialize
        <2> QED BY <1>8, <2>1, <2>2 DEF Initialize, Goto, RegistryUnlocked, RegisteredAfterFailure
    <1>9. ASSUME NEW s \in Sessions, AcquireSlot(s) PROVE OfferInv' BY <1>9 DEF AcquireSlot
    <1>10. ASSUME NEW s \in Sessions, PrepareConnection(s) PROVE OfferInv'
        <2>1. CASE pc' = [pc EXCEPT ![s] = "cleanup"] /\ UNCHANGED flag
            BY <1>10, <2>1 DEF PrepareConnection
        <2>2. CASE pc' = [pc EXCEPT ![s] = "launching"] /\ Raise(s, {"Suppress"})
            BY <1>10, <2>2 DEF PrepareConnection
        <2>3. CASE pc' = [pc EXCEPT ![s] = "launching"] /\ UNCHANGED flag
            BY <1>10, <2>3 DEF PrepareConnection
        <2> QED BY <1>10, <2>1, <2>2, <2>3 DEF PrepareConnection, Goto
    <1>11. ASSUME NEW s \in Sessions, Launch(s) PROVE OfferInv'
        <2>1. CASE pc' = [pc EXCEPT ![s] = "launched"] /\ UNCHANGED <<gate, told, inbox>>
            BY <1>11, <2>1 DEF Launch
        <2>2. CASE pc' = [pc EXCEPT ![s] = "giveUp"] /\ UNCHANGED <<gate, told, inbox>>
            BY <1>11, <2>2 DEF Launch
        <2>3. CASE pc' = [pc EXCEPT ![s] = "giveUp"] /\ OfferAnotherResume(s)
            BY <1>11, <2>3 DEF Launch
        <2> QED BY <1>11, <2>1, <2>2, <2>3 DEF Launch, Goto
    <1>12. ASSUME NEW s \in Sessions, CheckLaunched(s) PROVE OfferInv'
        BY <1>12 DEF CheckLaunched
    <1>13. ASSUME NEW s \in Sessions, StartConnection(s) PROVE OfferInv'
        BY <1>13 DEF StartConnection
    <1>14. ASSUME NEW s \in Sessions, StartReturns(s) PROVE OfferInv' BY <1>14 DEF StartReturns
    <1>15. ASSUME NEW s \in Sessions, JudgeAttempt(s) PROVE OfferInv' BY <1>15 DEF JudgeAttempt
    <1>16. ASSUME NEW s \in Sessions, Backoff(s) PROVE OfferInv' BY <1>16 DEF Backoff
    <1>17. ASSUME NEW s \in Sessions, EndAttempts(s) PROVE OfferInv' BY <1>17 DEF EndAttempts
    <1>18. ASSUME NEW s \in Sessions, ConnectionStarted(s) PROVE OfferInv'
        BY <1>18 DEF ConnectionStarted
    <1>19. ASSUME NEW s \in Sessions, OpenWindow(s) PROVE OfferInv'
        <2>1. CASE pc' = [pc EXCEPT ![s] = "streaming"] /\ Lower(s, {"Unexpected"})
            BY <1>19, <2>1 DEF OpenWindow
        <2>2. CASE pc' = [pc EXCEPT ![s] = "cleanup"] /\ UNCHANGED flag
            BY <1>19, <2>2 DEF OpenWindow
        <2> QED BY <1>19, <2>1, <2>2 DEF OpenWindow, Goto
    <1>20. ASSUME NEW s \in Sessions, SeeTermination(s) PROVE OfferInv'
        BY <1>20 DEF SeeTermination
    <1>21. ASSUME NEW s \in Sessions, HandleEvent(s) PROVE OfferInv' BY <1>21 DEF HandleEvent
    <1>22. ASSUME NEW s \in Sessions, FinishCancel(s) PROVE OfferInv' BY <1>22 DEF FinishCancel
    <1>23. ASSUME NEW s \in Sessions, FinishQuit(s) PROVE OfferInv' BY <1>23 DEF FinishQuit
    <1>24. ASSUME NEW s \in Sessions, FinishSystemQuit(s) PROVE OfferInv'
        BY <1>24 DEF FinishSystemQuit
    <1>25. ASSUME NEW s \in Sessions, QuitLoop(s) PROVE OfferInv' BY <1>25 DEF QuitLoop
    <1>26. ASSUME NEW s \in Sessions, Teardown(s) PROVE OfferInv' BY <1>26 DEF Teardown
    <1>27. ASSUME NEW s \in Sessions, BeginCleanupTask(s) PROVE OfferInv'
        BY <1>27 DEF BeginCleanupTask
    <1>28. ASSUME NEW s \in Sessions, StopConnection(s) PROVE OfferInv'
        BY <1>28 DEF StopConnection
    <1>29. ASSUME NEW s \in Sessions, Decide(s) PROVE OfferInv' BY <1>29 DEF Decide
    <1>30. ASSUME NEW s \in Sessions, AskHost(s) PROVE OfferInv'
        <2>1. CASE pc' = [pc EXCEPT ![s] = "sendingQuit"]
            BY <1>30, <2>1 DEF AskHost
        <2>2. CASE pc' = [pc EXCEPT ![s] = "completing"]
            BY <1>30, <2>2 DEF AskHost
        <2> QED BY <1>30, <2>1, <2>2 DEF AskHost, Goto
    <1>31. ASSUME NEW s \in Sessions, QuitHostApp(s) PROVE OfferInv' BY <1>31 DEF QuitHostApp
    <1>32. ASSUME NEW s \in Sessions, Complete(s) PROVE OfferInv' BY <1>32, OfferComplete
    <1>33. ASSUME NEW s \in Sessions, Unregister(s) PROVE OfferInv' BY <1>33 DEF Unregister
    <1>34. ASSUME NEW s \in Sessions, ClearActive(s) PROVE OfferInv' BY <1>34 DEF ClearActive
    <1>35. ASSUME NEW s \in Sessions, ReleaseSlot(s) PROVE OfferInv' BY <1>35 DEF ReleaseSlot
    <1>36. ASSUME NEW s \in Sessions, TakeEvent(s) PROVE OfferInv' BY <1>36 DEF TakeEvent
    <1>37. ASSUME NEW s \in Sessions, WakeFromSuspend(s) PROVE OfferInv'
        BY <1>37 DEF WakeFromSuspend
    <1>38. ASSUME NEW s \in Sessions, UserCancel(s) PROVE OfferInv' BY <1>38 DEF UserCancel
    <1>39. ASSUME NEW s \in Sessions, UserQuit(s) PROVE OfferInv'
        <2>1. CASE reason = "None"
            <3>1. reason' = "Exit" /\ spc' = "notify"
                BY <1>39, <2>1 DEF UserQuit, Raise, Goto, RequestAppExit
            <3> QED BY <1>39, <2>1, <3>1 DEF UserQuit
        <2>2. CASE reason # "None"
            <3>1. UNCHANGED <<reason, spc>>
                BY <1>39, <2>2 DEF UserQuit, Raise, Goto, RequestAppExit
            <3> QED BY <1>39, <2>2, <3>1 DEF UserQuit
        <2> QED BY <1>39, <2>1, <2>2
    <1>40. ASSUME NEW s \in Sessions, SystemQuit(s) PROVE OfferInv'
        <2>1. CASE reason = "None"
            <3>1. reason' = "Exit" /\ spc' = "notify"
                BY <1>40, <2>1 DEF SystemQuit, Goto, RequestAppExit
            <3> QED BY <1>40, <2>1, <3>1 DEF SystemQuit
        <2>2. CASE reason # "None"
            <3>1. UNCHANGED <<reason, spc>>
                BY <1>40, <2>2 DEF SystemQuit, Goto, RequestAppExit
            <3> QED BY <1>40, <2>2, <3>1 DEF SystemQuit
        <2> QED BY <1>40, <2>1, <2>2
    <1>41. ASSUME NEW s \in Sessions, CloseWindow(s) PROVE OfferInv' BY <1>41 DEF CloseWindow
    <1>42. ASSUME NEW s \in Sessions, DecoderFails(s) PROVE OfferInv' BY <1>42 DEF DecoderFails
    <1>43. CASE CallbackBegin
        <2>1. CASE "Terminating" \in gate[cb.of]
            <3>1. cb' = NoCall /\ UNCHANGED gate
                BY <1>43, <2>1 DEF CallbackBegin
            <3> QED BY <1>43, <2>1, <3>1 DEF CallbackBegin
        <2>2. CASE "Terminating" \notin gate[cb.of]
            <3>1. /\ gate' = [gate EXCEPT ![cb.of] =
                         BeginTermination(gate[cb.of], Surface = "recovery",
                                                Surface # "nothing")]
                              /\ cb' = [cb EXCEPT !.pc = "report", !.surface = Surface]
                BY <1>43, <2>2 DEF CallbackBegin
            <3> QED BY <1>43, <2>2, <3>1 DEF CallbackBegin
        <2> QED BY <1>43, <2>1, <2>2
    <1>44. CASE RequestShutdown BY <1>44 DEF RequestShutdown
    <1>45. CASE ShutdownNotify
        <2>1. CASE registered = NoSession
            <3>1. UNCHANGED gate
                BY <1>45, <2>1 DEF ShutdownNotify
            <3> QED BY <1>45, <3>1 DEF ShutdownNotify, execVars, uiVars, IInv, OfferInv, Offered
        <2>2. CASE registered # NoSession
            <3>1. gate' = [gate EXCEPT ![registered] = Cancel(gate[registered])]
                BY <1>45, <2>2 DEF ShutdownNotify
            <3>2. reason # "None"
                BY <1>45 DEF ShutdownNotify, IInv, ReasonInv
            <3>3. registered \in Sessions /\ pc[registered] \notin {"unborn", "done"}
                BY <2>2, Domains DEF IInv, RegistryInv, RegisteredSteps, Connecting, Windowed,
                    TaskSteps
            <3>4. ui = "segue"
                BY <3>3 DEF IInv, SegueInv, Live
            <3> QED BY <1>45, <3>1, <3>2, <3>4 DEF ShutdownNotify, execVars, uiVars, IInv,
                OfferInv, Offered
        <2> QED BY <2>1, <2>2
    <1>46. CASE ShutdownTerminate BY <1>46 DEF ShutdownTerminate
    <1>47. CASE UNCHANGED <<cur, deleted, gate, mpc, pc, reason, recoveryContext, ui>> BY <1>47
    <1>48. CASE HandleRecovery \/ HandleQuit \/ TerminateConnection \/ CallbackCheck
        \/ CallbackRecord \/ CallbackClassify \/ CallbackReport \/ ShutdownDispatch
        \/ HostChanges
        BY <1>48, <1>47 DEF HandleRecovery, HandleQuit, TerminateConnection, CallbackCheck,
            CallbackRecord, CallbackClassify, CallbackReport, ShutdownDispatch, HostChanges,
            execVars, objectVars, connVars, uiVars, lifeVars
    <1> HIDE Domains, NoSessionIsNone DEF IInv, MayResume, OfferInv, Offered, Ended, SegueInv,
        InboxInv, TextInv, RegistryInv, RegisteredSteps, ConnInv, ConnectedSteps, ReasonInv,
        Live, Windowed, TaskSteps, Connecting, Goto, TakeResume, ClearRecovery,
        RegistryUnlocked, Cancel, BeginTermination, Queued, CompleteCleanup,
        RegisteredAfterFailure, OfferAnotherResume, Down, Attempts, AttemptSucceeded, MustLeave,
        RequestReturned, BeginCleanup, ProducersStopped, EndedUnexpectedly, QuitHost,
        MayUnregister, RequestAppExit, Surface, NoCall, objectVars, lifeVars, execVars, uiVars
    <1>49. CASE MainThread
        BY <1>49, <1>1, <1>2, <1>3, <1>4, <1>5, <1>6, <1>48 DEF MainThread
    <1>50. ASSUME NEW s \in Sessions, Progress(s) PROVE OfferInv'
        BY <1>50, <1>7, <1>8, <1>9, <1>10, <1>11, <1>12, <1>13, <1>14, <1>15, <1>16, <1>17,
            <1>18, <1>19, <1>20, <1>21, <1>22, <1>23, <1>24, <1>25, <1>26, <1>27, <1>28, <1>29,
            <1>30, <1>31, <1>32, <1>33, <1>34, <1>35 DEF Progress
    <1>51. ASSUME NEW s \in Sessions, Stimulus(s) PROVE OfferInv'
        BY <1>51, <1>36, <1>37, <1>38, <1>39, <1>40, <1>41, <1>42 DEF Stimulus
    <1>52. CASE Callback
        BY <1>52, <1>43, <1>48 DEF Callback
    <1>53. CASE Requester
        BY <1>53, <1>45, <1>46, <1>48 DEF Requester
    <1> QED
        BY <1>47, <1>44, <1>48, <1>49, <1>50, <1>51, <1>52, <1>53
        DEF Next, Exited, vars, execVars, objectVars, connVars, uiVars, lifeVars

\* An unexpected termination is marked in the gate before the user is told.
LEMMA KeptStep == IInv /\ [Next]_vars => KeptInv'
    <1> SUFFICES ASSUME IInv, [Next]_vars PROVE KeptInv'
        OBVIOUS
    <1> USE Domains, NoSessionIsNone DEF IInv, KeptInv, ConnInv, ConnectedSteps, Windowed,
        TaskSteps, Connecting, Goto, TakeResume, RegistryUnlocked, Raise, DisconnectMarks,
        Cancel, ExitMarks, BeginTermination, Queued, CompleteCleanup, RegisteredAfterFailure,
        OfferAnotherResume, Tell, Lower, Down, Attempts, AttemptSucceeded, MustLeave,
        RequestReturned, BeginCleanup, ProducersStopped, EndedUnexpectedly, QuitHost,
        MayUnregister, RequestAppExit, NoCall, Surface, objectVars, connVars, execVars
    <1>1. CASE CreateSession BY <1>1 DEF CreateSession
    <1>2. CASE UserResume BY <1>2 DEF UserResume
    <1>3. CASE UserDismiss BY <1>3 DEF UserDismiss
    <1>4. CASE LeaveEventLoop BY <1>4 DEF LeaveEventLoop
    <1>5. ASSUME NEW s \in Sessions, Exec(s) PROVE KeptInv'
        <2>1. CASE reason = "None"
            <3>1. UNCHANGED <<flag, gate>>
                BY <1>5, <2>1 DEF Exec, Raise, Goto, RegistryUnlocked, ExitRequestedBefore
            <3> QED BY <1>5, <2>1, <3>1 DEF Exec
        <2>2. CASE reason # "None"
            <3>1. /\ flag' = [flag EXCEPT ![s] = flag[s] \cup ExitMarks]
                  /\ gate' = [gate EXCEPT ![s] =
                         BeginTermination(Cancel(gate[s]), FALSE, FALSE)]
                BY <1>5, <2>2 DEF Exec, Raise, Goto, RegistryUnlocked, ExitRequestedBefore
            <3> QED BY <1>5, <2>2, <3>1 DEF Exec
        <2> QED BY <1>5, <2>1, <2>2
    <1>6. ASSUME NEW s \in Sessions, Initialize(s) PROVE KeptInv'
        <2>1. CASE pc' = [pc EXCEPT ![s] = "waiting"] /\ UNCHANGED <<gate, registered, inbox>>
            BY <1>6, <2>1 DEF Initialize
        <2>2. CASE /\ pc' = [pc EXCEPT ![s] = "done"]
                  /\ registered' = NoSession /\ spc # "terminate"
                  /\ gate' = [gate EXCEPT ![s] = CompleteCleanup(gate[s])]
                  /\ inbox' = Append(inbox, Queued("notify", s))
            BY <1>6, <2>2 DEF Initialize
        <2> QED BY <1>6, <2>1, <2>2 DEF Initialize, Goto, RegistryUnlocked, RegisteredAfterFailure
    <1>7. ASSUME NEW s \in Sessions, AcquireSlot(s) PROVE KeptInv' BY <1>7 DEF AcquireSlot
    <1>8. ASSUME NEW s \in Sessions, PrepareConnection(s) PROVE KeptInv'
        <2>1. CASE pc' = [pc EXCEPT ![s] = "cleanup"] /\ UNCHANGED flag
            BY <1>8, <2>1 DEF PrepareConnection
        <2>2. CASE pc' = [pc EXCEPT ![s] = "launching"] /\ Raise(s, {"Suppress"})
            BY <1>8, <2>2 DEF PrepareConnection
        <2>3. CASE pc' = [pc EXCEPT ![s] = "launching"] /\ UNCHANGED flag
            BY <1>8, <2>3 DEF PrepareConnection
        <2> QED BY <1>8, <2>1, <2>2, <2>3 DEF PrepareConnection, Goto
    <1>9. ASSUME NEW s \in Sessions, Launch(s) PROVE KeptInv'
        <2>1. CASE pc' = [pc EXCEPT ![s] = "launched"] /\ UNCHANGED <<gate, told, inbox>>
            BY <1>9, <2>1 DEF Launch
        <2>2. CASE pc' = [pc EXCEPT ![s] = "giveUp"] /\ UNCHANGED <<gate, told, inbox>>
            BY <1>9, <2>2 DEF Launch
        <2>3. CASE pc' = [pc EXCEPT ![s] = "giveUp"] /\ OfferAnotherResume(s)
            BY <1>9, <2>3 DEF Launch
        <2> QED BY <1>9, <2>1, <2>2, <2>3 DEF Launch, Goto
    <1>10. ASSUME NEW s \in Sessions, CheckLaunched(s) PROVE KeptInv' BY <1>10 DEF CheckLaunched
    <1>11. ASSUME NEW s \in Sessions, StartConnection(s) PROVE KeptInv'
        BY <1>11 DEF StartConnection
    <1>12. ASSUME NEW s \in Sessions, StartReturns(s) PROVE KeptInv' BY <1>12 DEF StartReturns
    <1>13. ASSUME NEW s \in Sessions, JudgeAttempt(s) PROVE KeptInv' BY <1>13 DEF JudgeAttempt
    <1>14. ASSUME NEW s \in Sessions, Backoff(s) PROVE KeptInv' BY <1>14 DEF Backoff
    <1>15. ASSUME NEW s \in Sessions, EndAttempts(s) PROVE KeptInv' BY <1>15 DEF EndAttempts
    <1>16. ASSUME NEW s \in Sessions, ConnectionStarted(s) PROVE KeptInv'
        BY <1>16 DEF ConnectionStarted
    <1>17. ASSUME NEW s \in Sessions, OpenWindow(s) PROVE KeptInv'
        <2>1. CASE pc' = [pc EXCEPT ![s] = "streaming"] /\ Lower(s, {"Unexpected"})
            BY <1>17, <2>1 DEF OpenWindow
        <2>2. CASE pc' = [pc EXCEPT ![s] = "cleanup"] /\ UNCHANGED flag
            BY <1>17, <2>2 DEF OpenWindow
        <2> QED BY <1>17, <2>1, <2>2 DEF OpenWindow, Goto
    <1>18. ASSUME NEW s \in Sessions, SeeTermination(s) PROVE KeptInv'
        BY <1>18 DEF SeeTermination
    <1>19. ASSUME NEW s \in Sessions, HandleEvent(s) PROVE KeptInv' BY <1>19 DEF HandleEvent
    <1>20. ASSUME NEW s \in Sessions, FinishCancel(s) PROVE KeptInv' BY <1>20 DEF FinishCancel
    <1>21. ASSUME NEW s \in Sessions, FinishQuit(s) PROVE KeptInv' BY <1>21 DEF FinishQuit
    <1>22. ASSUME NEW s \in Sessions, FinishSystemQuit(s) PROVE KeptInv'
        BY <1>22 DEF FinishSystemQuit
    <1>23. ASSUME NEW s \in Sessions, QuitLoop(s) PROVE KeptInv' BY <1>23 DEF QuitLoop
    <1>24. ASSUME NEW s \in Sessions, Teardown(s) PROVE KeptInv' BY <1>24 DEF Teardown
    <1>25. ASSUME NEW s \in Sessions, BeginCleanupTask(s) PROVE KeptInv'
        BY <1>25 DEF BeginCleanupTask
    <1>26. ASSUME NEW s \in Sessions, StopConnection(s) PROVE KeptInv'
        BY <1>26 DEF StopConnection
    <1>27. ASSUME NEW s \in Sessions, Decide(s) PROVE KeptInv' BY <1>27 DEF Decide
    <1>28. ASSUME NEW s \in Sessions, AskHost(s) PROVE KeptInv'
        <2>1. CASE pc' = [pc EXCEPT ![s] = "sendingQuit"]
            BY <1>28, <2>1 DEF AskHost
        <2>2. CASE pc' = [pc EXCEPT ![s] = "completing"]
            BY <1>28, <2>2 DEF AskHost
        <2> QED BY <1>28, <2>1, <2>2 DEF AskHost, Goto
    <1>29. ASSUME NEW s \in Sessions, QuitHostApp(s) PROVE KeptInv' BY <1>29 DEF QuitHostApp
    <1>30. ASSUME NEW s \in Sessions, Complete(s) PROVE KeptInv' BY <1>30 DEF Complete
    <1>31. ASSUME NEW s \in Sessions, Unregister(s) PROVE KeptInv' BY <1>31 DEF Unregister
    <1>32. ASSUME NEW s \in Sessions, ClearActive(s) PROVE KeptInv' BY <1>32 DEF ClearActive
    <1>33. ASSUME NEW s \in Sessions, ReleaseSlot(s) PROVE KeptInv' BY <1>33 DEF ReleaseSlot
    <1>34. ASSUME NEW s \in Sessions, TakeEvent(s) PROVE KeptInv' BY <1>34 DEF TakeEvent
    <1>35. ASSUME NEW s \in Sessions, WakeFromSuspend(s) PROVE KeptInv'
        BY <1>35 DEF WakeFromSuspend
    <1>36. ASSUME NEW s \in Sessions, UserCancel(s) PROVE KeptInv' BY <1>36 DEF UserCancel
    <1>37. ASSUME NEW s \in Sessions, UserQuit(s) PROVE KeptInv' BY <1>37 DEF UserQuit
    <1>38. ASSUME NEW s \in Sessions, SystemQuit(s) PROVE KeptInv' BY <1>38 DEF SystemQuit
    <1>39. ASSUME NEW s \in Sessions, CloseWindow(s) PROVE KeptInv' BY <1>39 DEF CloseWindow
    <1>40. ASSUME NEW s \in Sessions, DecoderFails(s) PROVE KeptInv' BY <1>40 DEF DecoderFails
    <1>41. CASE TerminateConnection BY <1>41 DEF TerminateConnection
    <1>42. CASE CallbackCheck BY <1>42 DEF CallbackCheck
    <1>43. CASE CallbackRecord BY <1>43 DEF CallbackRecord
    <1>44. CASE CallbackClassify BY <1>44 DEF CallbackClassify
    <1>45. CASE CallbackBegin
        <2>1. CASE "Terminating" \in gate[cb.of]
            <3>1. cb' = NoCall /\ UNCHANGED gate
                BY <1>45, <2>1 DEF CallbackBegin
            <3> QED BY <1>45, <2>1, <3>1 DEF CallbackBegin
        <2>2. CASE "Terminating" \notin gate[cb.of]
            <3>1. /\ gate' = [gate EXCEPT ![cb.of] =
                         BeginTermination(gate[cb.of], Surface = "recovery",
                                                Surface # "nothing")]
                              /\ cb' = [cb EXCEPT !.pc = "report", !.surface = Surface]
                BY <1>45, <2>2 DEF CallbackBegin
            <3> QED BY <1>45, <2>2, <3>1 DEF CallbackBegin
        <2> QED BY <1>45, <2>1, <2>2
    <1>46. CASE CallbackReport
        <2>1. CASE cb.surface = "recovery"
            <3>1. inbox' = Append(inbox, Queued("recovery", cb.of)) /\ Tell(cb.of, "lost")
                BY <1>46, <2>1 DEF CallbackReport, Tell
            <3> QED BY <1>46, <2>1, <3>1 DEF CallbackReport
        <2>2. CASE cb.surface = "error"
            <3>1. UNCHANGED inbox /\ Tell(cb.of, "lost")
                BY <1>46, <2>2 DEF CallbackReport, Tell
            <3> QED BY <1>46, <2>2, <3>1 DEF CallbackReport
        <2>3. CASE cb.surface = "nothing"
            <3>1. UNCHANGED <<inbox, told>>
                BY <1>46, <2>3 DEF CallbackReport, Tell
            <3> QED BY <1>46, <2>3, <3>1 DEF CallbackReport
        <2> QED BY <1>46, <2>1, <2>2, <2>3
    <1>47. CASE ShutdownNotify
        <2>1. CASE registered = NoSession
            <3>1. UNCHANGED <<flag, gate>> /\ spc' = "dispatch"
                BY <1>47, <2>1 DEF ShutdownNotify, Raise
            <3> QED BY <1>47, <2>1, <3>1 DEF ShutdownNotify
        <2>2. CASE registered # NoSession
            <3>1. /\ flag' = [flag EXCEPT ![registered] = flag[registered] \cup ExitMarks]
                  /\ gate' = [gate EXCEPT ![registered] = Cancel(gate[registered])]
                  /\ spc' = "terminate"
                BY <1>47, <2>2 DEF ShutdownNotify, Raise
            <3> QED BY <1>47, <2>2, <3>1 DEF ShutdownNotify
        <2> QED BY <1>47, <2>1, <2>2
    <1>48. CASE ShutdownTerminate BY <1>48 DEF ShutdownTerminate
    <1>49. CASE UNCHANGED <<config, cb, flag, gate, pc, told>> BY <1>49
    <1>50. CASE HandleRecovery \/ HandleNotify \/ HandleQuit \/ Exit \/ RequestShutdown
        \/ ShutdownDispatch \/ HostChanges
        BY <1>50, <1>49 DEF HandleRecovery, HandleNotify, HandleQuit, Exit, RequestShutdown,
            ShutdownDispatch, HostChanges, execVars, objectVars, connVars, uiVars, lifeVars
    <1> HIDE Domains, NoSessionIsNone DEF IInv, KeptInv, ConnInv, ConnectedSteps, Windowed,
        TaskSteps, Connecting, Goto, TakeResume, RegistryUnlocked, Raise, DisconnectMarks,
        Cancel, ExitMarks, BeginTermination, Queued, CompleteCleanup, RegisteredAfterFailure,
        OfferAnotherResume, Tell, Lower, Down, Attempts, AttemptSucceeded, MustLeave,
        RequestReturned, BeginCleanup, ProducersStopped, EndedUnexpectedly, QuitHost,
        MayUnregister, RequestAppExit, NoCall, Surface, objectVars, connVars, execVars
    <1>51. CASE MainThread
        BY <1>51, <1>1, <1>2, <1>3, <1>4, <1>50 DEF MainThread
    <1>52. ASSUME NEW s \in Sessions, Progress(s) PROVE KeptInv'
        BY <1>52, <1>5, <1>6, <1>7, <1>8, <1>9, <1>10, <1>11, <1>12, <1>13, <1>14, <1>15, <1>16,
            <1>17, <1>18, <1>19, <1>20, <1>21, <1>22, <1>23, <1>24, <1>25, <1>26, <1>27, <1>28,
            <1>29, <1>30, <1>31, <1>32, <1>33 DEF Progress
    <1>53. ASSUME NEW s \in Sessions, Stimulus(s) PROVE KeptInv'
        BY <1>53, <1>34, <1>35, <1>36, <1>37, <1>38, <1>39, <1>40 DEF Stimulus
    <1>54. CASE Callback
        BY <1>54, <1>42, <1>43, <1>44, <1>45, <1>46 DEF Callback
    <1>55. CASE Requester
        BY <1>55, <1>47, <1>48, <1>50 DEF Requester
    <1> QED
        BY <1>49, <1>41, <1>50, <1>51, <1>52, <1>53, <1>54, <1>55
        DEF Next, Exited, vars, execVars, objectVars, connVars, uiVars, lifeVars

\* A connection dies with its callback, which tells the gate or, during retries,
\* the flag; the flag is taken back only for a new connection.
LEMMA DeathStep == IInv /\ [Next]_vars => DeathInv'
    <1> SUFFICES ASSUME IInv, [Next]_vars PROVE DeathInv'
        OBVIOUS
    <1> USE Domains, NoSessionIsNone DEF IInv, DeathInv, SegueInv, Live, ConnInv, ConnectedSteps,
        Windowed, TaskSteps, Connecting, Goto, TakeResume, RegistryUnlocked, Raise, DisconnectMarks,
        Cancel, ExitMarks, BeginTermination, Queued, CompleteCleanup, RegisteredAfterFailure,
        OfferAnotherResume, Tell, Lower, Down, Attempts, AttemptSucceeded, MustLeave,
        RequestReturned, BeginCleanup, ProducersStopped, EndedUnexpectedly, QuitHost,
        MayUnregister, RequestAppExit, NoCall, Surface, objectVars, connVars, execVars
    <1>1. CASE CreateSession BY <1>1 DEF CreateSession
    <1>2. CASE UserResume BY <1>2 DEF UserResume
    <1>3. CASE UserDismiss BY <1>3 DEF UserDismiss
    <1>4. CASE LeaveEventLoop BY <1>4 DEF LeaveEventLoop
    <1>5. ASSUME NEW s \in Sessions, Exec(s) PROVE DeathInv'
        <2>1. CASE reason = "None"
            <3>1. UNCHANGED <<flag, gate>>
                BY <1>5, <2>1 DEF Exec, Raise, Goto, RegistryUnlocked, ExitRequestedBefore
            <3> QED BY <1>5, <2>1, <3>1 DEF Exec
        <2>2. CASE reason # "None"
            <3>1. /\ flag' = [flag EXCEPT ![s] = flag[s] \cup ExitMarks]
                  /\ gate' = [gate EXCEPT ![s] =
                         BeginTermination(Cancel(gate[s]), FALSE, FALSE)]
                BY <1>5, <2>2 DEF Exec, Raise, Goto, RegistryUnlocked, ExitRequestedBefore
            <3> QED BY <1>5, <2>2, <3>1 DEF Exec
        <2> QED BY <1>5, <2>1, <2>2
    <1>6. ASSUME NEW s \in Sessions, Initialize(s) PROVE DeathInv'
        <2>1. CASE pc' = [pc EXCEPT ![s] = "waiting"] /\ UNCHANGED <<gate, registered, inbox>>
            BY <1>6, <2>1 DEF Initialize
        <2>2. CASE /\ pc' = [pc EXCEPT ![s] = "done"]
                  /\ registered' = NoSession /\ spc # "terminate"
                  /\ gate' = [gate EXCEPT ![s] = CompleteCleanup(gate[s])]
                  /\ inbox' = Append(inbox, Queued("notify", s))
            BY <1>6, <2>2 DEF Initialize
        <2> QED BY <1>6, <2>1, <2>2 DEF Initialize, Goto, RegistryUnlocked, RegisteredAfterFailure
    <1>7. ASSUME NEW s \in Sessions, AcquireSlot(s) PROVE DeathInv' BY <1>7 DEF AcquireSlot
    <1>8. ASSUME NEW s \in Sessions, PrepareConnection(s) PROVE DeathInv'
        <2>1. UNCHANGED <<config, gate, conn, cb>>
            BY <1>8 DEF PrepareConnection
        <2>2. CASE UNCHANGED flag
            BY <2>1, <2>2
        <2>3. CASE config.retry /\ Raise(s, {"Suppress"})
            <3>1. \A t \in Sessions : flag[t] \subseteq flag'[t]
                BY <2>3
            <3> QED BY <2>1, <2>3, <3>1
        <2> QED BY <1>8, <2>2, <2>3 DEF PrepareConnection
    <1>9. ASSUME NEW s \in Sessions, Launch(s) PROVE DeathInv'
        <2>1. CASE pc' = [pc EXCEPT ![s] = "launched"] /\ UNCHANGED <<gate, told, inbox>>
            BY <1>9, <2>1 DEF Launch
        <2>2. CASE pc' = [pc EXCEPT ![s] = "giveUp"] /\ UNCHANGED <<gate, told, inbox>>
            BY <1>9, <2>2 DEF Launch
        <2>3. CASE pc' = [pc EXCEPT ![s] = "giveUp"] /\ OfferAnotherResume(s)
            BY <1>9, <2>3 DEF Launch
        <2> QED BY <1>9, <2>1, <2>2, <2>3 DEF Launch, Goto
    <1>10. ASSUME NEW s \in Sessions, CheckLaunched(s) PROVE DeathInv' BY <1>10 DEF CheckLaunched
    <1>11. ASSUME NEW s \in Sessions, StartConnection(s) PROVE DeathInv'
        BY <1>11 DEF StartConnection
    <1>12. ASSUME NEW s \in Sessions, StartReturns(s) PROVE DeathInv' BY <1>12 DEF StartReturns
    <1>13. ASSUME NEW s \in Sessions, JudgeAttempt(s) PROVE DeathInv' BY <1>13 DEF JudgeAttempt
    <1>14. ASSUME NEW s \in Sessions, Backoff(s) PROVE DeathInv' BY <1>14 DEF Backoff
    <1>15. ASSUME NEW s \in Sessions, EndAttempts(s) PROVE DeathInv' BY <1>15 DEF EndAttempts
    <1>16. ASSUME NEW s \in Sessions, ConnectionStarted(s) PROVE DeathInv'
        BY <1>16 DEF ConnectionStarted
    <1>17. ASSUME NEW s \in Sessions, OpenWindow(s) PROVE DeathInv'
        <2>1. CASE pc' = [pc EXCEPT ![s] = "streaming"] /\ Lower(s, {"Unexpected"})
            BY <1>17, <2>1 DEF OpenWindow
        <2>2. CASE pc' = [pc EXCEPT ![s] = "cleanup"] /\ UNCHANGED flag
            BY <1>17, <2>2 DEF OpenWindow
        <2> QED BY <1>17, <2>1, <2>2 DEF OpenWindow, Goto
    <1>18. ASSUME NEW s \in Sessions, SeeTermination(s) PROVE DeathInv'
        BY <1>18 DEF SeeTermination
    <1>19. ASSUME NEW s \in Sessions, HandleEvent(s) PROVE DeathInv' BY <1>19 DEF HandleEvent
    <1>20. ASSUME NEW s \in Sessions, FinishCancel(s) PROVE DeathInv' BY <1>20 DEF FinishCancel
    <1>21. ASSUME NEW s \in Sessions, FinishQuit(s) PROVE DeathInv' BY <1>21 DEF FinishQuit
    <1>22. ASSUME NEW s \in Sessions, FinishSystemQuit(s) PROVE DeathInv'
        BY <1>22 DEF FinishSystemQuit
    <1>23. ASSUME NEW s \in Sessions, QuitLoop(s) PROVE DeathInv' BY <1>23 DEF QuitLoop
    <1>24. ASSUME NEW s \in Sessions, Teardown(s) PROVE DeathInv' BY <1>24 DEF Teardown
    <1>25. ASSUME NEW s \in Sessions, BeginCleanupTask(s) PROVE DeathInv'
        BY <1>25 DEF BeginCleanupTask
    <1>26. ASSUME NEW s \in Sessions, StopConnection(s) PROVE DeathInv'
        BY <1>26 DEF StopConnection
    <1>27. ASSUME NEW s \in Sessions, Decide(s) PROVE DeathInv' BY <1>27 DEF Decide
    <1>28. ASSUME NEW s \in Sessions, AskHost(s) PROVE DeathInv'
        <2>1. CASE pc' = [pc EXCEPT ![s] = "sendingQuit"]
            BY <1>28, <2>1 DEF AskHost
        <2>2. CASE pc' = [pc EXCEPT ![s] = "completing"]
            BY <1>28, <2>2 DEF AskHost
        <2> QED BY <1>28, <2>1, <2>2 DEF AskHost, Goto
    <1>29. ASSUME NEW s \in Sessions, QuitHostApp(s) PROVE DeathInv' BY <1>29 DEF QuitHostApp
    <1>30. ASSUME NEW s \in Sessions, Complete(s) PROVE DeathInv' BY <1>30 DEF Complete
    <1>31. ASSUME NEW s \in Sessions, Unregister(s) PROVE DeathInv' BY <1>31 DEF Unregister
    <1>32. ASSUME NEW s \in Sessions, ClearActive(s) PROVE DeathInv' BY <1>32 DEF ClearActive
    <1>33. ASSUME NEW s \in Sessions, ReleaseSlot(s) PROVE DeathInv' BY <1>33 DEF ReleaseSlot
    <1>34. ASSUME NEW s \in Sessions, TakeEvent(s) PROVE DeathInv' BY <1>34 DEF TakeEvent
    <1>35. ASSUME NEW s \in Sessions, WakeFromSuspend(s) PROVE DeathInv'
        BY <1>35 DEF WakeFromSuspend
    <1>36. ASSUME NEW s \in Sessions, UserCancel(s) PROVE DeathInv' BY <1>36 DEF UserCancel
    <1>37. ASSUME NEW s \in Sessions, UserQuit(s) PROVE DeathInv' BY <1>37 DEF UserQuit
    <1>38. ASSUME NEW s \in Sessions, SystemQuit(s) PROVE DeathInv' BY <1>38 DEF SystemQuit
    <1>39. ASSUME NEW s \in Sessions, CloseWindow(s) PROVE DeathInv' BY <1>39 DEF CloseWindow
    <1>40. ASSUME NEW s \in Sessions, DecoderFails(s) PROVE DeathInv' BY <1>40 DEF DecoderFails
    <1>41. CASE TerminateConnection BY <1>41 DEF TerminateConnection
    <1>42. CASE CallbackCheck BY <1>42 DEF CallbackCheck
    <1>43. CASE CallbackRecord BY <1>43 DEF CallbackRecord
    <1>44. CASE CallbackClassify BY <1>44 DEF CallbackClassify
    <1>45. CASE CallbackBegin
        <2>1. CASE "Terminating" \in gate[cb.of]
            <3>1. cb' = NoCall /\ UNCHANGED gate
                BY <1>45, <2>1 DEF CallbackBegin
            <3> QED BY <1>45, <2>1, <3>1 DEF CallbackBegin
        <2>2. CASE "Terminating" \notin gate[cb.of]
            <3>1. /\ gate' = [gate EXCEPT ![cb.of] =
                         BeginTermination(gate[cb.of], Surface = "recovery",
                                                Surface # "nothing")]
                              /\ cb' = [cb EXCEPT !.pc = "report", !.surface = Surface]
                BY <1>45, <2>2 DEF CallbackBegin
            <3> QED BY <1>45, <2>2, <3>1 DEF CallbackBegin
        <2> QED BY <1>45, <2>1, <2>2
    <1>46. CASE CallbackReport
        <2>1. CASE cb.surface = "recovery"
            <3>1. inbox' = Append(inbox, Queued("recovery", cb.of)) /\ Tell(cb.of, "lost")
                BY <1>46, <2>1 DEF CallbackReport, Tell
            <3> QED BY <1>46, <2>1, <3>1 DEF CallbackReport
        <2>2. CASE cb.surface = "error"
            <3>1. UNCHANGED inbox /\ Tell(cb.of, "lost")
                BY <1>46, <2>2 DEF CallbackReport, Tell
            <3> QED BY <1>46, <2>2, <3>1 DEF CallbackReport
        <2>3. CASE cb.surface = "nothing"
            <3>1. UNCHANGED <<inbox, told>>
                BY <1>46, <2>3 DEF CallbackReport, Tell
            <3> QED BY <1>46, <2>3, <3>1 DEF CallbackReport
        <2> QED BY <1>46, <2>1, <2>2, <2>3
    <1>47. CASE ShutdownNotify
        <2>1. CASE registered = NoSession
            <3>1. UNCHANGED <<flag, gate>> /\ spc' = "dispatch"
                BY <1>47, <2>1 DEF ShutdownNotify, Raise
            <3> QED BY <1>47, <2>1, <3>1 DEF ShutdownNotify
        <2>2. CASE registered # NoSession
            <3>1. /\ flag' = [flag EXCEPT ![registered] = flag[registered] \cup ExitMarks]
                  /\ gate' = [gate EXCEPT ![registered] = Cancel(gate[registered])]
                  /\ spc' = "terminate"
                BY <1>47, <2>2 DEF ShutdownNotify, Raise
            <3> QED BY <1>47, <2>2, <3>1 DEF ShutdownNotify
        <2> QED BY <1>47, <2>1, <2>2
    <1>48. CASE ShutdownTerminate BY <1>48 DEF ShutdownTerminate
    <1>49. CASE UNCHANGED <<config, cb, conn, flag, gate, pc, told>> BY <1>49
    <1>50. CASE HandleRecovery \/ HandleNotify \/ HandleQuit \/ Exit \/ RequestShutdown
        \/ ShutdownDispatch \/ HostChanges
        BY <1>50, <1>49 DEF HandleRecovery, HandleNotify, HandleQuit, Exit, RequestShutdown,
            ShutdownDispatch, HostChanges, execVars, objectVars, connVars, uiVars, lifeVars
    <1> HIDE Domains, NoSessionIsNone DEF IInv, DeathInv, SegueInv, Live, ConnInv, ConnectedSteps,
        Windowed, TaskSteps, Connecting, Goto, TakeResume, RegistryUnlocked, Raise, DisconnectMarks,
        Cancel, ExitMarks, BeginTermination, Queued, CompleteCleanup, RegisteredAfterFailure,
        OfferAnotherResume, Tell, Lower, Down, Attempts, AttemptSucceeded, MustLeave,
        RequestReturned, BeginCleanup, ProducersStopped, EndedUnexpectedly, QuitHost,
        MayUnregister, RequestAppExit, NoCall, Surface, objectVars, connVars, execVars
    <1>51. CASE MainThread
        BY <1>51, <1>1, <1>2, <1>3, <1>4, <1>50 DEF MainThread
    <1>52. ASSUME NEW s \in Sessions, Progress(s) PROVE DeathInv'
        BY <1>52, <1>5, <1>6, <1>7, <1>8, <1>9, <1>10, <1>11, <1>12, <1>13, <1>14, <1>15, <1>16,
            <1>17, <1>18, <1>19, <1>20, <1>21, <1>22, <1>23, <1>24, <1>25, <1>26, <1>27, <1>28,
            <1>29, <1>30, <1>31, <1>32, <1>33 DEF Progress
    <1>53. ASSUME NEW s \in Sessions, Stimulus(s) PROVE DeathInv'
        BY <1>53, <1>34, <1>35, <1>36, <1>37, <1>38, <1>39, <1>40 DEF Stimulus
    <1>54. CASE Callback
        BY <1>54, <1>42, <1>43, <1>44, <1>45, <1>46 DEF Callback
    <1>55. CASE Requester
        BY <1>55, <1>47, <1>48, <1>50 DEF Requester
    <1> QED
        BY <1>49, <1>41, <1>50, <1>51, <1>52, <1>53, <1>54, <1>55
        DEF Next, Exited, vars, execVars, objectVars, connVars, uiVars, lifeVars

\* A replace request stores Preserve in the session it calls or finds registered.
LEMMA PreserveStep == IInv /\ [Next]_vars => PreserveInv'
    <1> SUFFICES ASSUME IInv, [Next]_vars PROVE PreserveInv'
        OBVIOUS
    <1> USE Domains, NoSessionIsNone DEF IInv, PreserveInv, RegistryInv, RegisteredSteps,
        Windowed, TaskSteps, Connecting, Raise, DisconnectMarks, RegistryUnlocked, ExitMarks,
        Goto, Queued, RegisteredAfterFailure, Lower, RequestReturned, ProducersStopped, Down,
        MayUnregister, MustLeave, RequestAppExit, NoCall, lifeVars, objectVars
    <1>1. CASE UserDismiss BY <1>1 DEF UserDismiss
    <1>2. CASE LeaveEventLoop BY <1>2 DEF LeaveEventLoop
    <1>3. ASSUME NEW s \in Sessions, Exec(s) PROVE PreserveInv'
        <2>1. CASE reason = "None"
            <3>1. UNCHANGED <<flag, gate>>
                BY <1>3, <2>1 DEF Exec, Raise, Goto, RegistryUnlocked, ExitRequestedBefore
            <3> QED BY <1>3, <2>1, <3>1 DEF Exec
        <2>2. CASE reason # "None"
            <3>1. /\ flag' = [flag EXCEPT ![s] = flag[s] \cup ExitMarks]
                  /\ gate' = [gate EXCEPT ![s] =
                         BeginTermination(Cancel(gate[s]), FALSE, FALSE)]
                BY <1>3, <2>2 DEF Exec, Raise, Goto, RegistryUnlocked, ExitRequestedBefore
            <3> QED BY <1>3, <2>2, <3>1 DEF Exec
        <2> QED BY <1>3, <2>1, <2>2
    <1>4. ASSUME NEW s \in Sessions, Initialize(s) PROVE PreserveInv'
        <2>1. CASE pc' = [pc EXCEPT ![s] = "waiting"] /\ UNCHANGED <<gate, registered, inbox>>
            BY <1>4, <2>1 DEF Initialize
        <2>2. CASE /\ pc' = [pc EXCEPT ![s] = "done"]
                  /\ registered' = NoSession /\ spc # "terminate"
                  /\ gate' = [gate EXCEPT ![s] = CompleteCleanup(gate[s])]
                  /\ inbox' = Append(inbox, Queued("notify", s))
            BY <1>4, <2>2 DEF Initialize
        <2> QED BY <1>4, <2>1, <2>2 DEF Initialize, Goto, RegistryUnlocked, RegisteredAfterFailure
    <1>5. ASSUME NEW s \in Sessions, PrepareConnection(s) PROVE PreserveInv'
        <2>1. CASE pc' = [pc EXCEPT ![s] = "cleanup"] /\ UNCHANGED flag
            BY <1>5, <2>1 DEF PrepareConnection
        <2>2. CASE pc' = [pc EXCEPT ![s] = "launching"] /\ Raise(s, {"Suppress"})
            BY <1>5, <2>2 DEF PrepareConnection
        <2>3. CASE pc' = [pc EXCEPT ![s] = "launching"] /\ UNCHANGED flag
            BY <1>5, <2>3 DEF PrepareConnection
        <2> QED BY <1>5, <2>1, <2>2, <2>3 DEF PrepareConnection, Goto
    <1>6. ASSUME NEW s \in Sessions, StartConnection(s) PROVE PreserveInv'
        BY <1>6 DEF StartConnection
    <1>7. ASSUME NEW s \in Sessions, EndAttempts(s) PROVE PreserveInv' BY <1>7 DEF EndAttempts
    <1>8. ASSUME NEW s \in Sessions, ConnectionStarted(s) PROVE PreserveInv'
        BY <1>8 DEF ConnectionStarted
    <1>9. ASSUME NEW s \in Sessions, OpenWindow(s) PROVE PreserveInv'
        <2>1. CASE pc' = [pc EXCEPT ![s] = "streaming"] /\ Lower(s, {"Unexpected"})
            BY <1>9, <2>1 DEF OpenWindow
        <2>2. CASE pc' = [pc EXCEPT ![s] = "cleanup"] /\ UNCHANGED flag
            BY <1>9, <2>2 DEF OpenWindow
        <2> QED BY <1>9, <2>1, <2>2 DEF OpenWindow, Goto
    <1>10. ASSUME NEW s \in Sessions, FinishSystemQuit(s) PROVE PreserveInv'
        BY <1>10 DEF FinishSystemQuit
    <1>11. ASSUME NEW s \in Sessions, StopConnection(s) PROVE PreserveInv'
        BY <1>11 DEF StopConnection
    <1>12. ASSUME NEW s \in Sessions, Unregister(s) PROVE PreserveInv' BY <1>12 DEF Unregister
    <1>13. ASSUME NEW s \in Sessions, WakeFromSuspend(s) PROVE PreserveInv'
        BY <1>13 DEF WakeFromSuspend
    <1>14. ASSUME NEW s \in Sessions, UserCancel(s) PROVE PreserveInv' BY <1>14 DEF UserCancel
    <1>15. ASSUME NEW s \in Sessions, UserQuit(s) PROVE PreserveInv'
        <2>1. CASE reason = "None"
            <3>1. reason' = "Exit" /\ spc' = "notify"
                BY <1>15, <2>1 DEF UserQuit, Raise, Goto, RequestAppExit
            <3> QED BY <1>15, <2>1, <3>1 DEF UserQuit
        <2>2. CASE reason # "None"
            <3>1. UNCHANGED <<reason, spc>>
                BY <1>15, <2>2 DEF UserQuit, Raise, Goto, RequestAppExit
            <3> QED BY <1>15, <2>2, <3>1 DEF UserQuit
        <2> QED BY <1>15, <2>1, <2>2
    <1>16. ASSUME NEW s \in Sessions, SystemQuit(s) PROVE PreserveInv'
        <2>1. CASE reason = "None"
            <3>1. reason' = "Exit" /\ spc' = "notify"
                BY <1>16, <2>1 DEF SystemQuit, Goto, RequestAppExit
            <3> QED BY <1>16, <2>1, <3>1 DEF SystemQuit
        <2>2. CASE reason # "None"
            <3>1. UNCHANGED <<reason, spc>>
                BY <1>16, <2>2 DEF SystemQuit, Goto, RequestAppExit
            <3> QED BY <1>16, <2>2, <3>1 DEF SystemQuit
        <2> QED BY <1>16, <2>1, <2>2
    <1>17. ASSUME NEW s \in Sessions, CloseWindow(s) PROVE PreserveInv' BY <1>17 DEF CloseWindow
    <1>18. CASE CallbackRecord BY <1>18 DEF CallbackRecord
    <1>19. CASE CallbackReport BY <1>19 DEF CallbackReport
    <1>20. CASE RequestShutdown BY <1>20 DEF RequestShutdown
    <1>21. CASE ShutdownNotify
        <2>1. CASE registered = NoSession
            <3>1. UNCHANGED <<flag, gate>> /\ spc' = "dispatch"
                BY <1>21, <2>1 DEF ShutdownNotify, Raise
            <3> QED BY <1>21, <2>1, <3>1 DEF ShutdownNotify
        <2>2. CASE registered # NoSession
            <3>1. /\ flag' = [flag EXCEPT ![registered] = flag[registered] \cup ExitMarks]
                  /\ gate' = [gate EXCEPT ![registered] = Cancel(gate[registered])]
                  /\ spc' = "terminate"
                BY <1>21, <2>2 DEF ShutdownNotify, Raise
            <3>2. UNCHANGED <<reason, registered>> /\ registered \in Sessions
                BY <1>21, <2>2 DEF ShutdownNotify, TypeOK
            <3>3. reason = "Replace" => "Preserve" \in ExitMarks
                BY DEF ExitMarks
            <3> QED BY <3>1, <3>2, <3>3 DEF TypeOK
        <2> QED BY <1>21, <2>1, <2>2
    <1>22. CASE ShutdownTerminate BY <1>22 DEF ShutdownTerminate
    <1>23. CASE ShutdownDispatch BY <1>23 DEF ShutdownDispatch
    <1>24. CASE UNCHANGED <<flag, reason, registered, spc>> BY <1>24
    <1>25. CASE CreateSession \/ HandleRecovery \/ HandleNotify \/ HandleQuit \/ UserResume
        \/ Exit \/ TerminateConnection \/ CallbackCheck \/ CallbackClassify \/ CallbackBegin
        \/ HostChanges
        BY <1>25, <1>24 DEF CreateSession, HandleRecovery, HandleNotify, HandleQuit, UserResume,
            Exit, TerminateConnection, CallbackCheck, CallbackClassify, CallbackBegin,
            HostChanges, execVars, objectVars, connVars, uiVars, lifeVars
    <1>26. ASSUME NEW s \in Sessions, AcquireSlot(s) \/ Launch(s) \/ CheckLaunched(s)
        \/ StartReturns(s) \/ JudgeAttempt(s) \/ Backoff(s) \/ SeeTermination(s)
        \/ HandleEvent(s) \/ FinishCancel(s) \/ FinishQuit(s) \/ QuitLoop(s) \/ Teardown(s)
        \/ BeginCleanupTask(s) \/ Decide(s) \/ AskHost(s) \/ QuitHostApp(s) \/ Complete(s)
        \/ ClearActive(s) \/ ReleaseSlot(s) \/ TakeEvent(s) \/ DecoderFails(s)
           PROVE PreserveInv'
        BY <1>26, <1>24 DEF AcquireSlot, Launch, CheckLaunched, StartReturns, JudgeAttempt,
            Backoff, SeeTermination, HandleEvent, FinishCancel, FinishQuit, QuitLoop, Teardown,
            BeginCleanupTask, Decide, AskHost, QuitHostApp, Complete, ClearActive, ReleaseSlot,
            TakeEvent, DecoderFails, execVars, objectVars, connVars, uiVars, lifeVars
    <1> HIDE Domains, NoSessionIsNone DEF IInv, PreserveInv, RegistryInv, RegisteredSteps,
        Windowed, TaskSteps, Connecting, Raise, DisconnectMarks, RegistryUnlocked, ExitMarks,
        Goto, Queued, RegisteredAfterFailure, Lower, RequestReturned, ProducersStopped, Down,
        MayUnregister, MustLeave, RequestAppExit, NoCall, lifeVars, objectVars
    <1>27. CASE MainThread
        BY <1>27, <1>1, <1>2, <1>25 DEF MainThread
    <1>28. ASSUME NEW s \in Sessions, Progress(s) PROVE PreserveInv'
        BY <1>28, <1>3, <1>4, <1>5, <1>6, <1>7, <1>8, <1>9, <1>10, <1>11, <1>12, <1>26 DEF
            Progress
    <1>29. ASSUME NEW s \in Sessions, Stimulus(s) PROVE PreserveInv'
        BY <1>29, <1>13, <1>14, <1>15, <1>16, <1>17, <1>26 DEF Stimulus
    <1>30. CASE Callback
        BY <1>30, <1>18, <1>19, <1>25 DEF Callback
    <1>31. CASE Requester
        BY <1>31, <1>21, <1>22, <1>23 DEF Requester
    <1> QED
        BY <1>24, <1>20, <1>25, <1>27, <1>28, <1>29, <1>30, <1>31
        DEF Next, Exited, vars, execVars, objectVars, connVars, uiVars, lifeVars

----------------------------------------------------------------------------
(* Theorems *)

\* Nothing is registered, connected or queued when the program starts.
LEMMA InitIInv == Init => IInv
    <1> SUFFICES ASSUME Init PROVE IInv
        OBVIOUS
    <1>1. TypeOK
        <2>1. inbox \in Seq(QueuedCalls) /\ attempt \in [Sessions -> 0..MaxAttempts]
            BY SessionAssumption DEF Init
        <2>2. /\ pc \in [Sessions -> Steps] /\ gate \in [Sessions -> SUBSET Bits]
              /\ flag \in [Sessions -> SUBSET Flags]
              /\ told \in [Sessions -> SUBSET {"lost", "decoder"}]
            BY DEF Init, Steps, Bits, Flags
        <2>3. /\ conn = Down /\ conn \in [of : Sessions \cup {NoSession},
                                        state : {"down", "starting", "up", "dead"}]
              /\ cb = NoCall
              /\ cb \in [pc : {"idle", "check", "record", "classify", "begin", "report"},
                        of : Sessions \cup {NoSession}, error : BOOLEAN,
                        intentional : BOOLEAN, surface : {"nothing", "error", "recovery"}]
            BY DEF Init, Down, NoCall
        <2> QED BY <2>1, <2>2, <2>3 DEF Init, TypeOK, Down, NoCall
    <1>2. Calls(inbox) = {} /\ NotifyLast(inbox)
        BY DEF Init, Calls, NotifyLast
    <1>3. AttemptsInv /\ SlotInv /\ ConnInv /\ SegueInv
        BY NoSessionIsNone DEF Init, AttemptsInv, SlotInv, ConnInv, SegueInv, HoldingSteps,
            ActiveSteps, Windowed, TaskSteps, Live, Down, NoCall
    <1>4. InboxInv /\ RegistryInv /\ CleanedInv /\ ReasonInv
        BY <1>2, NoSessionIsNone DEF Init, InboxInv, RegistryInv, RegisteredSteps, Connecting,
            Windowed, TaskSteps, CleanedInv, ReasonInv
    <1>5. TextInv /\ OfferInv /\ KeptInv /\ PreserveInv /\ DeathInv
        BY NoSessionIsNone DEF Init, TextInv, OfferInv, KeptInv, PreserveInv, DeathInv, NoCall, Down
    <1> QED BY <1>1, <1>3, <1>4, <1>5 DEF IInv

\* Every part of the inductive invariant is kept, assuming all of them.
LEMMA StepIInv == IInv /\ [Next]_vars => IInv'
    <1> SUFFICES ASSUME IInv, [Next]_vars PROVE IInv'
        OBVIOUS
    <1>1. TypeOK' /\ AttemptsInv' /\ SlotInv' /\ ConnInv' /\ SegueInv'
        BY TypeStep, AttemptsStep, SlotStep, ConnStep, SegueStep
    <1>2. InboxInv' /\ RegistryInv' /\ CleanedInv' /\ ReasonInv'
        BY InboxStep, RegistryStep, CleanedStep, ReasonStep
    <1>3. TextInv' /\ OfferInv' /\ KeptInv' /\ PreserveInv' /\ DeathInv'
        BY TextStep, OfferStep, KeptStep, PreserveStep, DeathStep
    <1> QED BY <1>1, <1>2, <1>3 DEF IInv

\* The inductive invariant holds in every behaviour.
LEMMA Invariance == Spec => []IInv
    <1> QED BY InitIInv, StepIInv, PTL DEF Spec

\* The variables keep their types for every number of sessions and attempts;
\* in particular no session makes more attempts than allowed.
THEOREM TypeCorrect == Spec => []TypeOK
    <1>1. IInv => TypeOK
        BY DEF IInv
    <1> QED BY <1>1, Invariance, PTL

\* The library's one connection and its callback belong to the session that
\* holds the slot and is s_ActiveSession.
THEOREM OneConnection == Spec => []SlotExclusive
    <1>1. IInv => SlotExclusive
        <2> SUFFICES ASSUME IInv PROVE SlotExclusive
            OBVIOUS
        <2>1. \A s \in Sessions : /\ pc[s] \in ConnectedSteps => slot = s /\ active = s
                                  /\ active = s => slot = s
            BY DEF IInv, SlotInv, ConnectedSteps, HoldingSteps, ActiveSteps, Windowed, TaskSteps
        <2>2. active \in Sessions \cup {NoSession}
            BY Domains DEF IInv
        <2> QED BY <2>1, <2>2 DEF IInv, ConnInv, SlotExclusive
    <1> QED BY <1>1, Invariance, PTL

\* "Neither UI completion nor a new Session may precede connection stop".
THEOREM StopsBeforeCompletion == Spec => []CompletionAfterStop
    <1>1. IInv => CompletionAfterStop
        <2> SUFFICES ASSUME IInv, NEW s \in Sessions,
                            "Cleaned" \in gate[s] \/ Queued("notify", s) \in Calls(inbox)
                     PROVE  conn.of # s /\ cb.of # s
            BY DEF CompletionAfterStop
        <2>1. pc[s] \in {"keep", "forget", "clearing", "releasing", "done"}
            BY DEF IInv, CleanedInv, InboxInv, Queued
        <2>2. pc[s] \notin ConnectedSteps
            BY <2>1 DEF ConnectedSteps, Windowed
        <2> QED BY <2>2, NoSessionIsNone, Domains DEF IInv, ConnInv, Down, NoCall
    <1> QED BY <1>1, Invariance, PTL

\* A session that was deleted is out of everybody's reach.
THEOREM DeletedIsUnreachable == Spec => []NoUseAfterDelete
    <1>1. IInv => NoUseAfterDelete
        <2> SUFFICES ASSUME IInv, NEW s \in deleted
                     PROVE  /\ pc[s] = "done"
                            /\ {slot, active, cb.of, conn.of, registered, cur} \cap {s} = {}
                            /\ \A c \in Calls(inbox) : c.of # s
            BY DEF NoUseAfterDelete
        <2>1. s \in Sessions /\ pc[s] = "done" /\ cur # s
            BY Domains DEF IInv, SegueInv
        <2>2. slot # s /\ active # s
            BY <2>1 DEF IInv, SlotInv, HoldingSteps, ActiveSteps, Windowed, TaskSteps
        <2>3. cb.of # s
            <3>1. pc[s] \notin ConnectedSteps
                BY <2>1 DEF ConnectedSteps, Windowed
            <3>2. CASE cb.pc = "idle"
                BY <3>2, <2>1, NoSessionIsNone DEF IInv, ConnInv, NoCall
            <3>3. CASE cb.pc # "idle"
                BY <3>1, <3>3 DEF IInv, ConnInv
            <3> QED BY <3>2, <3>3
        <2>4. conn.of # s
            <3>1. pc[s] \notin ConnectedSteps
                BY <2>1 DEF ConnectedSteps, Windowed
            <3>2. CASE conn.state = "down"
                BY <3>2, <2>1, NoSessionIsNone DEF IInv, ConnInv, Down
            <3>3. CASE conn.state # "down"
                BY <3>1, <3>3 DEF IInv, ConnInv
            <3> QED BY <3>2, <3>3
        <2>5. registered # s
            BY <2>1 DEF IInv, RegistryInv, RegisteredSteps, Connecting, Windowed, TaskSteps
        <2>6. \A c \in Calls(inbox) : c.of # s
            BY <2>1, NoSessionIsNone DEF IInv, InboxInv
        <2> QED BY <2>1, <2>2, <2>3, <2>4, <2>5, <2>6
    <1> QED BY <1>1, Invariance, PTL

\* A shutdown request calls a session that is registered until it is done.
THEOREM NotifiedStaysRegistered == Spec => []NotifiedIsRegistered
    <1>1. IInv => NotifiedIsRegistered
        BY DEF IInv, RegistryInv, NotifiedIsRegistered
    <1> QED BY <1>1, Invariance, PTL

\* The Resume dialog is about a session that is cleaned and was not ended.
THEOREM DialogIsValid == Spec => []RecoveryOfferValid
    <1>1. IInv => RecoveryOfferValid
        <2> SUFFICES ASSUME IInv, ui = "recovery"
                     PROVE  /\ cur \notin deleted /\ slot = NoSession /\ conn = Down
                            /\ {"Recoverable", "Cleaned"} \subseteq gate[cur]
                            /\ gate[cur] \cap Ended = {} \/ mpc # "loop"
            BY DEF RecoveryOfferValid
        <2>1. \A s \in Sessions : pc[s] \in {"unborn", "done"}
            BY DEF IInv, SegueInv, Live
        <2>2. slot = NoSession
            BY SMTT(30), <2>1, Domains
            DEF IInv, SlotInv, HoldingSteps, ActiveSteps, Windowed, TaskSteps
        <2>3. conn = Down
            BY <2>1 DEF IInv, ConnInv, ConnectedSteps, Windowed
        <2> QED BY <2>2, <2>3 DEF IInv, SegueInv, OfferInv, Offered
    <1> QED BY <1>1, Invariance, PTL

\* The registry offers another process only a session that can be resumed.
THEOREM SnapshotIsFresh == Spec => []RecoverySnapshotFresh
    <1>1. IInv => RecoverySnapshotFresh
        BY DEF IInv, OfferInv, Offered, RecoverySnapshotFresh
    <1> QED BY <1>1, Invariance, PTL

\* What leads to a quit request.
LEMMA QuitStep ==
    ASSUME IInv, [Next]_vars, NEW s \in Sessions, QuitsHost(s)
    PROVE  pc[s] = "quittingHost" /\ "Preserve" \notin flag[s] /\ UNCHANGED <<told, flag>>
    <1> USE Domains DEF QuitsHost, IInv, Goto
    <1>1. ~CreateSession
        BY Domains DEF CreateSession, Goto
    <1>2. ~UserResume
        BY Domains DEF UserResume, Goto
    <1>3. ASSUME NEW t \in Sessions, AskHost(t)
          PROVE  pc[s] = "quittingHost" /\ "Preserve" \notin flag[s] /\ UNCHANGED <<told, flag>>
        <2>1. CASE pc' = [pc EXCEPT ![t] = "sendingQuit"] /\ "Preserve" \notin flag[t]
            BY <1>3, <2>1, Domains DEF AskHost, objectVars
        <2>2. CASE pc' = [pc EXCEPT ![t] = "completing"]
            BY <2>2, Domains
        <2> QED BY <1>3, <2>1, <2>2 DEF AskHost, Goto
    <1>4. ASSUME NEW t \in Sessions, Exec(t) PROVE FALSE BY <1>4 DEF Exec
    <1>5. ASSUME NEW t \in Sessions, Initialize(t) PROVE FALSE
        <2>1. PICK step \in Steps \ {"sendingQuit"} : pc' = [pc EXCEPT ![t] = step]
            BY <1>5 DEF Initialize, Goto, Steps, Connecting, Windowed, TaskSteps
        <2> QED BY <2>1, Domains
    <1>6. ASSUME NEW t \in Sessions, AcquireSlot(t) PROVE FALSE BY <1>6 DEF AcquireSlot
    <1>7. ASSUME NEW t \in Sessions, PrepareConnection(t) PROVE FALSE
        <2>1. PICK step \in Steps \ {"sendingQuit"} : pc' = [pc EXCEPT ![t] = step]
            BY <1>7 DEF PrepareConnection, Goto, Steps, Connecting, Windowed, TaskSteps
        <2> QED BY <2>1, Domains
    <1>8. ASSUME NEW t \in Sessions, Launch(t) PROVE FALSE
        <2>1. PICK step \in Steps \ {"sendingQuit"} : pc' = [pc EXCEPT ![t] = step]
            BY <1>8 DEF Launch, Goto, Steps, Connecting, Windowed, TaskSteps
        <2> QED BY <2>1, Domains
    <1>9. ASSUME NEW t \in Sessions, CheckLaunched(t) PROVE FALSE BY <1>9 DEF CheckLaunched
    <1>10. ASSUME NEW t \in Sessions, StartConnection(t) PROVE FALSE
        BY <1>10 DEF StartConnection
    <1>11. ASSUME NEW t \in Sessions, StartReturns(t) PROVE FALSE BY <1>11 DEF StartReturns
    <1>12. ASSUME NEW t \in Sessions, JudgeAttempt(t) PROVE FALSE BY <1>12 DEF JudgeAttempt
    <1>13. ASSUME NEW t \in Sessions, Backoff(t) PROVE FALSE BY <1>13 DEF Backoff
    <1>14. ASSUME NEW t \in Sessions, EndAttempts(t) PROVE FALSE BY <1>14 DEF EndAttempts
    <1>15. ASSUME NEW t \in Sessions, ConnectionStarted(t) PROVE FALSE
        BY <1>15 DEF ConnectionStarted
    <1>16. ASSUME NEW t \in Sessions, OpenWindow(t) PROVE FALSE
        <2>1. PICK step \in Steps \ {"sendingQuit"} : pc' = [pc EXCEPT ![t] = step]
            BY <1>16 DEF OpenWindow, Goto, Steps, Connecting, Windowed, TaskSteps
        <2> QED BY <2>1, Domains
    <1>17. ASSUME NEW t \in Sessions, SeeTermination(t) PROVE FALSE BY <1>17 DEF SeeTermination
    <1>18. ASSUME NEW t \in Sessions, HandleEvent(t) PROVE FALSE BY <1>18 DEF HandleEvent
    <1>19. ASSUME NEW t \in Sessions, FinishCancel(t) PROVE FALSE BY <1>19 DEF FinishCancel
    <1>20. ASSUME NEW t \in Sessions, FinishQuit(t) PROVE FALSE BY <1>20 DEF FinishQuit
    <1>21. ASSUME NEW t \in Sessions, FinishSystemQuit(t) PROVE FALSE
        BY <1>21 DEF FinishSystemQuit
    <1>22. ASSUME NEW t \in Sessions, QuitLoop(t) PROVE FALSE BY <1>22 DEF QuitLoop
    <1>23. ASSUME NEW t \in Sessions, Teardown(t) PROVE FALSE BY <1>23 DEF Teardown
    <1>24. ASSUME NEW t \in Sessions, BeginCleanupTask(t) PROVE FALSE
        BY <1>24 DEF BeginCleanupTask
    <1>25. ASSUME NEW t \in Sessions, StopConnection(t) PROVE FALSE BY <1>25 DEF StopConnection
    <1>26. ASSUME NEW t \in Sessions, Decide(t) PROVE FALSE BY <1>26 DEF Decide
    <1>27. ASSUME NEW t \in Sessions, QuitHostApp(t) PROVE FALSE BY <1>27 DEF QuitHostApp
    <1>28. ASSUME NEW t \in Sessions, Complete(t) PROVE FALSE BY <1>28 DEF Complete
    <1>29. ASSUME NEW t \in Sessions, Unregister(t) PROVE FALSE BY <1>29 DEF Unregister
    <1>30. ASSUME NEW t \in Sessions, ClearActive(t) PROVE FALSE BY <1>30 DEF ClearActive
    <1>31. ASSUME NEW t \in Sessions, ReleaseSlot(t) PROVE FALSE BY <1>31 DEF ReleaseSlot
    <1>32. ASSUME NEW t \in Sessions, TakeEvent(t) PROVE FALSE BY <1>32 DEF TakeEvent
    <1>33. ASSUME NEW t \in Sessions, WakeFromSuspend(t) PROVE FALSE
        BY <1>33 DEF WakeFromSuspend
    <1>34. ASSUME NEW t \in Sessions, UserCancel(t) PROVE FALSE BY <1>34 DEF UserCancel
    <1>35. ASSUME NEW t \in Sessions, UserQuit(t) PROVE FALSE BY <1>35 DEF UserQuit
    <1>36. ASSUME NEW t \in Sessions, SystemQuit(t) PROVE FALSE BY <1>36 DEF SystemQuit
    <1>37. ASSUME NEW t \in Sessions, CloseWindow(t) PROVE FALSE BY <1>37 DEF CloseWindow
    <1>38. ASSUME NEW t \in Sessions, DecoderFails(t) PROVE FALSE BY <1>38 DEF DecoderFails
    <1>39. pc' # pc
        OBVIOUS
    <1> QED
        BY <1>1, <1>2, <1>3, <1>4, <1>5, <1>6, <1>7, <1>8, <1>9, <1>10, <1>11, <1>12, <1>13,
            <1>14, <1>15, <1>16, <1>17, <1>18, <1>19, <1>20, <1>21, <1>22, <1>23, <1>24, <1>25,
            <1>26, <1>27, <1>28, <1>29, <1>30, <1>31, <1>32, <1>33, <1>34, <1>35, <1>36, <1>37,
            <1>38, <1>39
        DEF Next, MainThread, Progress, Stimulus, Callback, Requester, Exited, vars, execVars,
            objectVars, connVars, uiVars, lifeVars, HandleRecovery, HandleNotify, HandleQuit,
            UserDismiss, LeaveEventLoop, Exit, TerminateConnection, CallbackCheck,
            CallbackRecord, CallbackClassify, CallbackBegin, CallbackReport, RequestShutdown,
            ShutdownNotify, ShutdownTerminate, ShutdownDispatch, HostChanges

\* A session that ended because of a failure it reported keeps the host's
\* application, unless the user chose to quit.
THEOREM FailuresKeepHost == Spec => TerminationKeepsHost
    <1>1. ASSUME IInv, [Next]_vars, NEW s \in Sessions, QuitsHost(s), "lost" \in told[s]
          PROVE  "ExitAfterQuit" \in flag[s]
        BY <1>1, QuitStep DEF IInv, KeptInv
    <1>2. IInv /\ [Next]_vars =>
              [\A s \in Sessions :
                  QuitsHost(s) /\ "lost" \in told[s] => "ExitAfterQuit" \in flag[s]]_vars
        BY <1>1
    <1> QED BY <1>2, Invariance, PTL DEF Spec, TerminationKeepsHost

\* A replace request keeps the host's application for the next process.
THEOREM ReplacementKeepsHost == Spec => ReplaceKeepsHost
    <1>1. ASSUME IInv, [Next]_vars, NEW s \in Sessions, QuitsHost(s), reason = "Replace",
                 spc \in {"terminate", "done"}
          PROVE  FALSE
        <2>1. pc[s] = "quittingHost" /\ "Preserve" \notin flag[s]
            BY <1>1, QuitStep
        <2>2. registered = s
            BY <1>1, <2>1 DEF IInv, RegistryInv, RegisteredSteps, Connecting, Windowed, TaskSteps
        <2> QED BY <1>1, <2>1, <2>2, NoSessionIsNone DEF IInv, PreserveInv
    <1>2. IInv /\ [Next]_vars =>
              [\A s \in Sessions :
                  ~(QuitsHost(s) /\ reason = "Replace" /\ spc \in {"terminate", "done"})]_vars
        BY <1>1
    <1> QED BY <1>2, Invariance, PTL DEF Spec, ReplaceKeepsHost

----------------------------------------------------------------------------
(* What survives the first two findings *)

\* Finding 1 has one cause: a stream goes on over a dead connection only when the
\* termination was recorded, while connections were retried, for nobody to read.
DeathSeen ==
    \A s \in Sessions :
        pc[s] = "streaming" /\ conn = [of |-> s, state |-> "dead"] /\ cb.pc = "idle" =>
            MustLeave(s) \/ (config.retry /\ "AttemptTerminated" \in flag[s])

\* Without the retry, and with it when the termination came early enough to be read
\* or late enough not to be suppressed, the gate makes the event loop leave.
THEOREM OnlyRecordedIsMissed == Spec => []DeathSeen
    <1>1. IInv => DeathSeen
        BY DEF IInv, DeathInv, DeathSeen, MustLeave
    <1> QED BY <1>1, Invariance, PTL

\* Whatever ends a session, its cleanup decides to quit the host's application only
\* if the user chose that, or prefers it and nothing was reported as lost: a decoder
\* that fails (finding 2) does so under the preference alone.
HostQuitWanted ==
    [][\A s \in Sessions :
          QuitsHost(s) => \/ "ExitAfterQuit" \in flag[s]
                          \/ "lost" \notin told[s] /\ config.quitAppAfter]_vars

THEOREM HostQuitsWhenWanted == Spec => HostQuitWanted
    <1>1. ASSUME IInv, [Next]_vars, NEW s \in Sessions, QuitsHost(s)
          PROVE  \/ "ExitAfterQuit" \in flag[s]
                 \/ "lost" \notin told[s] /\ config.quitAppAfter
        BY <1>1, QuitStep DEF IInv, KeptInv
    <1>2. IInv /\ [Next]_vars =>
              [\A s \in Sessions :
                  QuitsHost(s) => \/ "ExitAfterQuit" \in flag[s]
                                  \/ "lost" \notin told[s] /\ config.quitAppAfter]_vars
        BY <1>1
    <1> QED BY <1>2, Invariance, PTL DEF Spec, HostQuitWanted

----------------------------------------------------------------------------
(* Sessions are streams that take turns *)

AskedSteps == {"created", "starting", "waiting"}
TurnSteps == Steps \ (AskedSteps \cup {"unborn", "done"})

\* Nobody is present but the session of the segue.
LEMMA OthersSettled ==
    ASSUME IInv
    PROVE  /\ \A s \in Sessions : Live(s) => cur = s
           /\ \A t \in Sessions : t # cur => pc[t] = "unborn" \/ t \in deleted
           /\ \A t \in deleted : t \in Sessions /\ pc[t] = "done" /\ t # cur
    BY Domains DEF IInv, SegueInv, Live

\* A step that is about one session, which is the segue's or the only one, moves
\* its stage only.
LEMMA StageMoved ==
    ASSUME NEW s \in Sessions, NEW to,
           \A t \in Sessions : t # s => pc[t] = "unborn" \/ t \in deleted,
           \A t \in Sessions : t # s => pc'[t] = pc[t] /\ (t \in deleted' <=> t \in deleted),
           StageOf(s)' = to
    PROVE  Stage' = [Stage EXCEPT ![s] = to]
    <1>1. \A t \in Sessions : t # s => StageOf(t)' = StageOf(t)
        BY DEF StageOf
    <1> QED BY <1>1 DEF Stage

LEMMA AskedKept ==
    ASSUME IInv, NEW s \in Sessions, pc[s] \in AskedSteps, NEW step \in AskedSteps,
           pc' = [pc EXCEPT ![s] = step], UNCHANGED <<deleted, ui>>
    PROVE  Stage' = Stage /\ Stage[s] = "asked"
    <1>1. s \notin deleted /\ pc' = [pc EXCEPT ![s] = step] /\ pc \in [Sessions -> Steps]
        BY OthersSettled, Domains DEF AskedSteps, IInv
    <1>2. StageOf(s) = "asked" /\ StageOf(s)' = "asked"
        BY <1>1 DEF StageOf, AskedSteps
    <1>3. \A t \in Sessions : t # s => StageOf(t)' = StageOf(t)
        BY <1>1 DEF StageOf
    <1> QED BY <1>2, <1>3 DEF Stage

LEMMA TurnKept ==
    ASSUME IInv, NEW s \in Sessions, pc[s] \in TurnSteps, NEW step \in TurnSteps,
           pc' = [pc EXCEPT ![s] = step], UNCHANGED <<deleted, ui>>
    PROVE  Stage' = Stage /\ Stage[s] = "turn"
    <1>1. s \notin deleted /\ pc' = [pc EXCEPT ![s] = step] /\ pc \in [Sessions -> Steps]
        BY OthersSettled, Domains DEF TurnSteps, IInv
    <1>2. StageOf(s) = "turn" /\ StageOf(s)' = "turn"
        BY <1>1 DEF StageOf, TurnSteps, AskedSteps
    <1>3. \A t \in Sessions : t # s => StageOf(t)' = StageOf(t)
        BY <1>1 DEF StageOf
    <1> QED BY <1>2, <1>3 DEF Stage

LEMMA SameStage ==
    ASSUME UNCHANGED <<pc, deleted, ui>>
    PROVE  Stage' = Stage
    BY DEF Stage, StageOf

\* What bits that are set in the gate of one session are to the user.
LEMMA GateMarked ==
    ASSUME IInv, NEW s \in Sessions, NEW G,
           gate' = [gate EXCEPT ![s] = gate[s] \cup G]
    PROVE  /\ Marked("Terminating")' =
                  IF "Terminating" \in G THEN Marked("Terminating") \cup {s}
                  ELSE Marked("Terminating")
           /\ Marked("Interrupted")' =
                  IF "Interrupted" \in G THEN Marked("Interrupted") \cup {s}
                  ELSE Marked("Interrupted")
           /\ Marked("Recoverable")' =
                  IF "Recoverable" \in G THEN Marked("Recoverable") \cup {s}
                  ELSE Marked("Recoverable")
           /\ Marked("Cancelled")' =
                  IF "Cancelled" \in G THEN Marked("Cancelled") \cup {s} ELSE Marked("Cancelled")
    <1>1. gate'[s] = gate[s] \cup G /\ \A t \in Sessions : t # s => gate'[t] = gate[t]
        BY Domains DEF IInv
    <1> QED BY <1>1 DEF Marked

LEMMA SameMarks ==
    ASSUME UNCHANGED gate
    PROVE  /\ Marked("Terminating")' = Marked("Terminating")
           /\ Marked("Interrupted")' = Marked("Interrupted")
           /\ Marked("Recoverable")' = Marked("Recoverable")
           /\ Marked("Cancelled")' = Marked("Cancelled")
    BY DEF Marked

\* Only UserQuit() asks to quit.
LEMMA FlagRaised ==
    ASSUME IInv, NEW s \in Sessions, NEW F, "ExitAfterQuit" \notin F,
           flag' = [flag EXCEPT ![s] = flag[s] \cup F]
    PROVE  Quits' = Quits
    <1>1. flag'[s] = flag[s] \cup F /\ \A t \in Sessions : t # s => flag'[t] = flag[t]
        BY Domains DEF IInv
    <1> QED BY <1>1 DEF Quits

LEMMA FlagLowered ==
    ASSUME IInv, NEW s \in Sessions, NEW F, "ExitAfterQuit" \notin F,
           flag' = [flag EXCEPT ![s] = flag[s] \ F]
    PROVE  Quits' = Quits
    <1>1. flag'[s] = flag[s] \ F /\ \A t \in Sessions : t # s => flag'[t] = flag[t]
        BY Domains DEF IInv
    <1> QED BY <1>1 DEF Quits

LEMMA SameQuits ==
    ASSUME UNCHANGED flag
    PROVE  Quits' = Quits
    BY DEF Quits

LEMMA SameLink ==
    ASSUME UNCHANGED conn
    PROVE  Linked' = Linked
    BY DEF Linked

\* A step within the turn of a session that only sets Cleaned, if that
LEMMA QuietSeen ==
    ASSUME IInv, NEW s \in Sessions, pc[s] \in TurnSteps, NEW step \in TurnSteps,
           pc' = [pc EXCEPT ![s] = step],
           gate' = gate \/ gate' = [gate EXCEPT ![s] = gate[s] \cup {"Cleaned"}],
           Quits' = Quits, UNCHANGED <<conn, host, ui, deleted, resumeOnly>>
    PROVE  UNCHANGED Streams!turnVars
    <1>1. Stage' = Stage /\ Linked' = Linked
        BY TurnKept, SameLink
    <1>2. UNCHANGED <<Marked("Terminating"), Marked("Interrupted"), Marked("Recoverable"),
                      Marked("Cancelled")>>
        <2>1. CASE gate' = gate
            BY <2>1, SameMarks
        <2>2. CASE gate' = [gate EXCEPT ![s] = gate[s] \cup {"Cleaned"}]
            <3> DEFINE G == {"Cleaned"}
            <3>1. "Terminating" \notin G /\ "Interrupted" \notin G /\ "Recoverable" \notin G
                  /\ "Cancelled" \notin G /\ gate' = [gate EXCEPT ![s] = gate[s] \cup G]
                BY <2>2
            <3> HIDE DEF G
            <3> QED BY <3>1, GateMarked
        <2> QED BY <2>1, <2>2
    <1> QED BY <1>1, <1>2 DEF Streams!turnVars, Streams!ends

\* A step of a present session that leaves stage, link and host alone and sets bits
\* other than those of a stream that was lost
LEMMA EndSeen ==
    ASSUME IInv, NEW s \in Sessions, NEW G \in SUBSET {"Terminating", "Cancelled", "Cleaned"},
           gate' = [gate EXCEPT ![s] = gate[s] \cup G],
           Stage' = Stage, Quits' \in {Quits, Quits \cup {s}},
           UNCHANGED <<conn, host, resumeOnly>>,
           Stage[s] \notin {"unborn", "gone"},
           "Cancelled" \in G \/ (Quits' = Quits /\ Stage[s] \in {"asked", "turn"})
    PROVE  Streams!Next \/ UNCHANGED Streams!turnVars
    <1>1. /\ Marked("Terminating")' =
                  IF "Terminating" \in G THEN Marked("Terminating") \cup {s}
                  ELSE Marked("Terminating")
          /\ Marked("Interrupted")' = Marked("Interrupted")
          /\ Marked("Recoverable")' = Marked("Recoverable")
          /\ Marked("Cancelled")' =
                  IF "Cancelled" \in G THEN Marked("Cancelled") \cup {s} ELSE Marked("Cancelled")
        <2>1. "Interrupted" \notin G /\ "Recoverable" \notin G
            OBVIOUS
        <2> QED BY <2>1, GateMarked
    <1>2. Linked' = Linked
        BY SameLink
    <1>3. CASE "Cancelled" \in G
        <2>1. Streams!End({s})
            BY <1>1, <1>2, <1>3 DEF Streams!End, Streams!Present
        <2>2. {s} \in SUBSET Sessions
            OBVIOUS
        <2> QED BY <2>1, <2>2 DEF Streams!Next
    <1>4. CASE "Cancelled" \notin G /\ "Terminating" \in G
        <2>1. Streams!Judge(s)
            BY <1>1, <1>2, <1>4 DEF Streams!Judge
        <2> QED BY <2>1 DEF Streams!Next
    <1>5. CASE "Cancelled" \notin G /\ "Terminating" \notin G
        BY <1>1, <1>2, <1>5 DEF Streams!turnVars, Streams!ends
    <1> QED BY <1>3, <1>4, <1>5

\* A stream that is lost before it was judged
LEMMA BreakSeen ==
    ASSUME IInv, NEW s \in Sessions, NEW G, {"Terminating", "Interrupted"} \subseteq G,
           "Cancelled" \notin G, gate' = [gate EXCEPT ![s] = gate[s] \cup G],
           "Terminating" \notin gate[s], Stage[s] = "turn", Stage' = Stage, Quits' = Quits,
           UNCHANGED <<conn, host, resumeOnly>>
    PROVE  Streams!Next
    <1>1. /\ Marked("Terminating")' = Marked("Terminating") \cup {s}
          /\ Marked("Interrupted")' = Marked("Interrupted") \cup {s}
          /\ Marked("Recoverable")' \in {Marked("Recoverable"), Marked("Recoverable") \cup {s}}
          /\ Marked("Cancelled")' = Marked("Cancelled")
        BY GateMarked
    <1>2. s \notin Marked("Terminating")
        BY DEF Marked
    <1>3. Linked' = Linked
        BY SameLink
    <1>4. Streams!Break(s)
        BY <1>1, <1>2, <1>3 DEF Streams!Break
    <1> QED BY <1>4 DEF Streams!Next

LEMMA TerminationBits ==
    /\ \A g : BeginTermination(g, FALSE, FALSE) = g \cup {"Terminating"}
    /\ \A g : "Terminating" \notin g =>
           BeginTermination(g, TRUE, TRUE) = g \cup {"Terminating", "Recoverable", "Interrupted"}
    /\ \A g : Cancel(g) = g \cup {"Cancelled"} /\ BeginCleanup(g) = g \cup {"Terminating"}
              /\ CompleteCleanup(g) = g \cup {"Cleaned"}
    BY DEF BeginTermination, Cancel, BeginCleanup, CompleteCleanup

LEMMA MarksNotQuit == "ExitAfterQuit" \notin ExitMarks /\ "ExitAfterQuit" \notin DisconnectMarks
    BY DEF ExitMarks, DisconnectMarks

\* Steps that no stream is seen to take
LEMMA Unseen ==
    ASSUME UNCHANGED <<pc, gate, conn, host, ui, deleted, resumeOnly>>, Quits' = Quits
    PROVE  UNCHANGED Streams!turnVars
    BY SameStage, SameMarks, SameLink DEF Streams!turnVars, Streams!ends

\* The main thread
LEMMA MainThreadSeen ==
    ASSUME IInv, MainThread
    PROVE  Streams!Next \/ UNCHANGED Streams!turnVars
    <1>1. CASE CreateSession
        <2>1. PICK s \in Sessions : pc[s] = "unborn" /\ pc' = [pc EXCEPT ![s] = "created"]
            BY <1>1 DEF CreateSession, Goto
        <2>2. UNCHANGED <<gate, flag, conn, host, deleted, resumeOnly>> /\ cur = NoSession
            BY <1>1 DEF CreateSession, objectVars, connVars, IInv, SegueInv
        <2>3. \A t \in Sessions : pc[t] = "unborn" \/ t \in deleted
            BY <2>2, OthersSettled, NoSessionIsNone
        <2>4. /\ s \notin deleted /\ pc'[s] = "created"
              /\ \A t \in Sessions : t # s => pc'[t] = pc[t]
            BY <2>1, OthersSettled, Domains DEF IInv
        <2>5. StageOf(s)' = "asked"
            BY <2>2, <2>4 DEF StageOf
        <2>6. Stage' = [Stage EXCEPT ![s] = "asked"]
            BY <2>2, <2>3, <2>4, <2>5, StageMoved
        <2>7. Stage[s] = "unborn" /\ \A t \in Sessions : Stage[t] \in {"unborn", "gone"}
            BY <2>1, <2>3, <2>4 DEF Stage, StageOf
        <2>8. Streams!Ask(s)
            BY <2>2, <2>6, <2>7, SameMarks, SameQuits, SameLink
            DEF Streams!Ask, Streams!Present, Streams!Move, Streams!ends
        <2> QED BY <2>8 DEF Streams!Next
    <1>2. CASE HandleRecovery
        BY <1>2, Unseen, SameQuits DEF HandleRecovery, execVars, objectVars, connVars
    <1>3. CASE HandleNotify
        <2>1. Head(inbox) \in Calls(inbox) /\ Calls(inbox) \subseteq QueuedCalls
            BY <1>3, CallDelivered DEF IInv, HandleNotify
        <2>2. PICK n \in Sessions : /\ n = Head(inbox).of /\ n = cur /\ pc[n] = "done"
                                   /\ ui = "segue"
            BY <1>3, <2>1 DEF IInv, InboxInv, HandleNotify, QueuedCalls
        <2>3. UNCHANGED <<pc, gate, flag, conn, host, resumeOnly>>
            BY <1>3 DEF HandleNotify, execVars, objectVars, connVars
        <2>4. n \notin deleted /\ \A t \in Sessions : t # n => pc[t] = "unborn" \/ t \in deleted
            BY <2>2, OthersSettled
        <2>5. Stage[n] = "closed"
            BY <2>2, <2>4 DEF Stage, StageOf
        <2>6. CASE n \in recoveryText /\ MayResume(gate[n])
            <3>1. ui' = "recovery" /\ deleted' = deleted
                BY <1>3, <2>2, <2>6 DEF HandleNotify
            <3>2. StageOf(n)' = "offered"
                BY <2>2, <2>3, <2>4, <3>1 DEF StageOf
            <3>3. Stage' = [Stage EXCEPT ![n] = "offered"]
                BY <2>2, <2>3, <2>4, <3>1, <3>2, StageMoved
            <3>4. n \in Marked("Recoverable") /\ n \notin Marked("Cancelled")
                BY <2>2, <2>6 DEF MayResume, Marked
            <3>5. Streams!Offer(n)
                BY <2>3, <2>5, <3>3, <3>4, SameMarks, SameQuits, SameLink
                DEF Streams!Offer, Streams!Resumable, Streams!Move, Streams!ends
            <3> QED BY <2>2, <3>5 DEF Streams!Next
        <2>7. CASE ~(n \in recoveryText /\ MayResume(gate[n]))
            <3>1. ui' = "list" /\ deleted' = deleted \cup {n}
                BY <1>3, <2>2, <2>7 DEF HandleNotify
            <3>2. StageOf(n)' = "gone"
                BY <3>1 DEF StageOf
            <3>3. Stage' = [Stage EXCEPT ![n] = "gone"]
                BY <2>2, <2>3, <2>4, <3>1, <3>2, StageMoved
            <3>4. Streams!Leave(n)
                BY <2>3, <2>5, <3>3, SameMarks, SameQuits, SameLink
                DEF Streams!Leave, Streams!Move, Streams!ends
            <3> QED BY <2>2, <3>4 DEF Streams!Next
        <2> QED BY <2>6, <2>7
    <1>4. CASE HandleQuit
        BY <1>4, Unseen, SameQuits DEF HandleQuit, execVars, objectVars, connVars, uiVars
    <1>5. CASE UserResume
        <2>1. PICK s \in Sessions : /\ pc[s] = "unborn" /\ pc' = [pc EXCEPT ![s] = "created"]
                                    /\ resumeOnly' = resumeOnly \cup {s}
            BY <1>5 DEF UserResume, Goto
        <2>2. /\ UNCHANGED <<flag, conn, host>> /\ deleted' = deleted \cup {cur}
              /\ ui = "recovery" /\ MayResume(gate[cur])
              /\ gate' = [gate EXCEPT ![cur] = gate[cur] \cup {"ResumeTaken"}]
            BY <1>5 DEF UserResume, TakeResume, connVars
        <2>3. PICK c \in Sessions : c = cur /\ pc[c] = "done" /\ c # s
            BY <2>1, <2>2, Domains DEF IInv, SegueInv
        <2>4. /\ \A t \in Sessions : t # c => pc[t] = "unborn" \/ t \in deleted
              /\ \A t \in deleted : pc[t] = "done" /\ t # c
            BY <2>3, OthersSettled
        <2>5. pc'[s] = "created" /\ \A t \in Sessions : t # s => pc'[t] = pc[t]
            BY <2>1, Domains DEF IInv
        <2>6. Stage[c] = "offered" /\ Stage[s] = "unborn"
              /\ \A t \in Sessions : t # c => Stage[t] \in {"unborn", "gone"}
            BY <2>1, <2>2, <2>3, <2>4 DEF Stage, StageOf
        <2>7. Stage' = [Stage EXCEPT ![c] = "gone", ![s] = "asked"]
            <3>1. StageOf(c)' = "gone" /\ StageOf(s)' = "asked"
                BY <2>1, <2>2, <2>3, <2>4, <2>5 DEF StageOf
            <3>2. \A t \in Sessions : t # c /\ t # s => StageOf(t)' = StageOf(t)
                <4>1. ASSUME NEW t \in Sessions, t # c, t # s PROVE StageOf(t)' = StageOf(t)
                    <5>1. /\ pc[t] = "unborn" \/ (t \in deleted /\ pc[t] = "done")
                          /\ pc'[t] = pc[t] /\ (t \in deleted' <=> t \in deleted)
                        <6>1. deleted' = deleted \cup {c}
                            BY <2>2, <2>3
                        <6> QED BY <2>4, <2>5, <4>1, <6>1
                    <5>2. CASE t \in deleted
                        BY <5>1, <5>2 DEF StageOf
                    <5>3. CASE t \notin deleted
                        BY <5>1, <5>3 DEF StageOf
                    <5> QED BY <5>2, <5>3
                <4> QED BY <4>1
            <3> QED BY <2>3, <3>1, <3>2 DEF Stage
        <2>8. c \in Marked("Recoverable") /\ c \notin Marked("Cancelled")
            BY <2>2, <2>3 DEF MayResume, Marked
        <2>9. UNCHANGED <<Marked("Terminating"), Marked("Interrupted"), Marked("Recoverable"),
                          Marked("Cancelled")>>
            BY <2>2, <2>3, GateMarked
        <2>10. Streams!Resume(c, s)
            BY <2>1, <2>2, <2>6, <2>7, <2>8, <2>9, SameQuits, SameLink
            DEF Streams!Resume, Streams!Resumable, Streams!Present, Streams!ends
        <2> QED BY <2>1, <2>3, <2>10 DEF Streams!Next
    <1>6. CASE UserDismiss
        <2>1. /\ UNCHANGED <<pc, conn, host, resumeOnly>> /\ deleted' = deleted \cup {cur}
              /\ ui = "recovery" /\ gate' = [gate EXCEPT ![cur] = gate[cur] \cup {"Cancelled"}]
              /\ flag' = [flag EXCEPT ![cur] = flag[cur] \cup DisconnectMarks]
            BY <1>6, TerminationBits DEF UserDismiss, Raise, connVars, execVars
        <2>2. PICK c \in Sessions : c = cur /\ pc[c] = "done"
            BY <2>1, Domains DEF IInv, SegueInv
        <2>3. /\ \A t \in Sessions : t # c => pc[t] = "unborn" \/ t \in deleted
              /\ c \notin deleted
            BY <2>2, OthersSettled
        <2>4. Stage[c] = "offered" /\ StageOf(c)' = "gone"
            BY <2>1, <2>2, <2>3 DEF Stage, StageOf
        <2>5. Stage' = [Stage EXCEPT ![c] = "gone"]
            BY <2>1, <2>2, <2>3, <2>4, StageMoved
        <2>6. /\ UNCHANGED <<Marked("Terminating"), Marked("Interrupted"), Marked("Recoverable")>>
              /\ Marked("Cancelled")' = Marked("Cancelled") \cup {c}
            BY <2>1, <2>2, GateMarked
        <2>7. Quits' = Quits
            BY <2>1, <2>2, FlagRaised, MarksNotQuit
        <2>8. Streams!Dismiss(c)
            BY <2>1, <2>4, <2>5, <2>6, <2>7, SameLink DEF Streams!Dismiss, Streams!Move
        <2> QED BY <2>2, <2>8 DEF Streams!Next
    <1>7. CASE LeaveEventLoop
        <2>0. PICK left \in SUBSET Sessions :
                  left = {s \in Sessions : pc[s] # "unborn" /\ s \notin deleted}
            OBVIOUS
        <2>1. /\ UNCHANGED <<pc, conn, host, ui, deleted, resumeOnly>>
              /\ flag' = [s \in Sessions |-> IF s \in left THEN flag[s] \cup ExitMarks ELSE flag[s]]
              /\ gate' = [s \in Sessions |->
                              IF s \in left THEN BeginTermination(Cancel(gate[s]), FALSE, FALSE)
                              ELSE gate[s]]
            BY <1>7, <2>0 DEF LeaveEventLoop, execVars, connVars, uiVars
        <2>2. ASSUME NEW s \in Sessions
              PROVE  gate'[s] = IF s \in left THEN gate[s] \cup {"Cancelled"} \cup {"Terminating"}
                                ELSE gate[s]
            <3>1. Cancel(gate[s]) = gate[s] \cup {"Cancelled"}
                BY TerminationBits
            <3>2. BeginTermination(Cancel(gate[s]), FALSE, FALSE)
                      = Cancel(gate[s]) \cup {"Terminating"}
                BY TerminationBits
            <3> QED BY <2>1, <3>1, <3>2
        <2>3. /\ UNCHANGED <<Marked("Interrupted"), Marked("Recoverable")>>
              /\ Marked("Cancelled")' = Marked("Cancelled") \cup left
              /\ Marked("Terminating")' = Marked("Terminating") \cup left
            <3>1. ASSUME NEW s \in Sessions
                  PROVE  /\ "Interrupted" \in gate'[s] <=> "Interrupted" \in gate[s]
                         /\ "Recoverable" \in gate'[s] <=> "Recoverable" \in gate[s]
                         /\ "Cancelled" \in gate'[s] <=> "Cancelled" \in gate[s] \/ s \in left
                         /\ "Terminating" \in gate'[s] <=>
                                "Terminating" \in gate[s] \/ s \in left
                <4>1. CASE s \in left
                    <5>1. gate'[s] = gate[s] \cup {"Cancelled"} \cup {"Terminating"}
                        BY <2>2, <4>1
                    <5> QED BY <4>1, <5>1
                <4>2. CASE s \notin left
                    <5>1. gate'[s] = gate[s]
                        BY <2>2, <4>2
                    <5> QED BY <4>2, <5>1
                <4> QED BY <4>1, <4>2
            <3>2. Marked("Interrupted")' = Marked("Interrupted")
                BY <3>1 DEF Marked
            <3>3. Marked("Recoverable")' = Marked("Recoverable")
                BY <3>1 DEF Marked
            <3>4. Marked("Cancelled")' = Marked("Cancelled") \cup left
                BY <3>1 DEF Marked
            <3>5. Marked("Terminating")' = Marked("Terminating") \cup left
                BY <3>1 DEF Marked
            <3> QED BY <3>2, <3>3, <3>4, <3>5
        <2>4. Quits' = Quits
            BY <2>1, MarksNotQuit DEF Quits
        <2>5. \A s \in left : s \in Sessions /\ Stage[s] \notin {"unborn", "gone"}
            BY <2>0 DEF Stage, StageOf
        <2>6. Streams!End(left)
            BY <2>1, <2>3, <2>4, <2>5, SameStage, SameLink DEF Streams!End, Streams!Present
        <2> QED BY <2>6 DEF Streams!Next
    <1>8. CASE Exit
        BY <1>8, Unseen, SameQuits DEF Exit, execVars, objectVars, connVars, uiVars
    <1> QED BY <1>1, <1>2, <1>3, <1>4, <1>5, <1>6, <1>7, <1>8 DEF MainThread


\* What the stage of a live session is, and becomes with its next step.
LEMMA LiveStage ==
    ASSUME IInv, NEW s \in Sessions, Live(s)
    PROVE  Stage[s] = IF pc[s] \in AskedSteps THEN "asked" ELSE "turn"
    <1>1. s \notin deleted
        BY OthersSettled DEF Live
    <1> QED BY <1>1 DEF Stage, StageOf, AskedSteps, Live

LEMMA StageChanged ==
    ASSUME IInv, NEW s \in Sessions, Live(s), NEW step,
           pc' = [pc EXCEPT ![s] = step], UNCHANGED <<deleted, ui>>
    PROVE  /\ step \in TurnSteps => Stage' = [Stage EXCEPT ![s] = "turn"]
           /\ step = "done" => Stage' = [Stage EXCEPT ![s] = "closed"]
    <1>1. /\ s \notin deleted /\ ui = "segue"
          /\ \A t \in Sessions : t # s => pc[t] = "unborn" \/ t \in deleted
        BY OthersSettled DEF Live, IInv, SegueInv
    <1>2. pc'[s] = step /\ \A t \in Sessions : t # s => pc'[t] = pc[t]
        BY Domains DEF IInv
    <1>3. CASE step \in TurnSteps
        <2>1. StageOf(s)' = "turn"
            BY <1>1, <1>2, <1>3 DEF StageOf, TurnSteps, AskedSteps
        <2> QED BY <1>1, <1>2, <1>3, <2>1, StageMoved DEF TurnSteps
    <1>4. CASE step = "done"
        <2>1. StageOf(s)' = "closed"
            BY <1>1, <1>2, <1>4 DEF StageOf
        <2>2. step \notin TurnSteps
            BY <1>4 DEF TurnSteps
        <2> QED BY <1>1, <1>2, <1>4, <2>1, <2>2, StageMoved
    <1> QED BY <1>3, <1>4

\* The steps of an exec thread up to the connection
LEMMA LaunchSeen ==
    ASSUME IInv, NEW s \in Sessions,
           \/ Exec(s) \/ Initialize(s) \/ AcquireSlot(s) \/ PrepareConnection(s) \/ Launch(s)
           \/ CheckLaunched(s)
    PROVE  Streams!Next \/ UNCHANGED Streams!turnVars
    <1> USE DEF Goto
    <1>1. CASE Exec(s)
        <2>1. /\ pc[s] = "created" /\ pc' = [pc EXCEPT ![s] = "starting"]
              /\ UNCHANGED <<conn, host, deleted, ui, resumeOnly>>
            BY <1>1 DEF Exec, connVars, uiVars
        <2>2. Stage' = Stage /\ Stage[s] = "asked"
            BY <2>1, AskedKept DEF AskedSteps
        <2>3. CASE ExitRequestedBefore
            <3>1. flag' = [flag EXCEPT ![s] = flag[s] \cup ExitMarks]
                BY <1>1, <2>3 DEF Exec, Raise
            <3>2. gate' = [gate EXCEPT ![s] = gate[s] \cup {"Cancelled", "Terminating"}]
                BY <1>1, <2>3, TerminationBits DEF Exec
            <3>3. Quits' = Quits
                BY <3>1, FlagRaised, MarksNotQuit
            <3> QED BY <2>1, <2>2, <3>2, <3>3, EndSeen
        <2>4. CASE ~ExitRequestedBefore
            <3>1. UNCHANGED <<flag, gate>>
                BY <1>1, <2>4 DEF Exec
            <3> QED BY <2>1, <2>2, <3>1, SameMarks, SameQuits, SameLink
                DEF Streams!turnVars, Streams!ends
        <2> QED BY <2>3, <2>4
    <1>2. CASE Initialize(s)
        <2>1. pc[s] = "starting" /\ UNCHANGED <<flag, conn, host, deleted, ui, resumeOnly>>
            BY <1>2 DEF Initialize, connVars, uiVars
        <2>2. CASE pc' = [pc EXCEPT ![s] = "waiting"] /\ UNCHANGED gate
            <3>1. Stage' = Stage
                BY <2>1, <2>2, AskedKept DEF AskedSteps
            <3> QED BY <2>1, <2>2, <3>1, SameMarks, SameQuits, SameLink
                DEF Streams!turnVars, Streams!ends
        <2>3. CASE pc' = [pc EXCEPT ![s] = "done"]
                   /\ gate' = [gate EXCEPT ![s] = gate[s] \cup {"Cleaned"}]
            <3>1. Stage' = [Stage EXCEPT ![s] = "closed"] /\ Stage[s] = "asked"
                BY <2>1, <2>3, StageChanged, LiveStage DEF AskedSteps, Live
            <3>2. UNCHANGED <<Marked("Terminating"), Marked("Interrupted"),
                              Marked("Recoverable"), Marked("Cancelled")>>
                BY <2>3, GateMarked
            <3>3. Streams!Fail(s)
                BY <2>1, <3>1, <3>2, SameQuits, SameLink
                DEF Streams!Fail, Streams!Move, Streams!ends
            <3> QED BY <3>3 DEF Streams!Next
        <2> QED BY <1>2, <2>2, <2>3, TerminationBits DEF Initialize
    <1>3. CASE AcquireSlot(s)
        <2>1. /\ pc[s] = "waiting" /\ pc' = [pc EXCEPT ![s] = "preparing"]
              /\ UNCHANGED <<flag, gate, conn, host, deleted, ui, resumeOnly>>
            BY <1>3 DEF AcquireSlot, objectVars, uiVars
        <2>2. Live(s) /\ pc[s] \in AskedSteps /\ "preparing" \in TurnSteps
            BY <2>1 DEF AskedSteps, Live, TurnSteps, Steps, Connecting
        <2>3. Stage[s] = "asked"
            BY <2>2, LiveStage
        <2>4. Stage' = [Stage EXCEPT ![s] = "turn"]
            BY <2>1, <2>2, StageChanged
        <2>5. Streams!Begin(s)
            BY <2>1, <2>3, <2>4, SameMarks, SameQuits, SameLink
            DEF Streams!Begin, Streams!Move, Streams!ends
        <2> QED BY <2>5 DEF Streams!Next
    <1>4. CASE PrepareConnection(s)
        <2>1. PICK step \in {"cleanup", "launching"} : pc' = [pc EXCEPT ![s] = step]
            BY <1>4 DEF PrepareConnection
        <2>2. pc[s] \in TurnSteps /\ step \in TurnSteps
            BY <1>4, <2>1
            DEF PrepareConnection, TurnSteps, AskedSteps, Steps, Connecting, Windowed, TaskSteps
        <2>3. flag' = flag \/ flag' = [flag EXCEPT ![s] = flag[s] \cup {"Suppress"}]
            BY <1>4 DEF PrepareConnection, Raise
        <2>4. Quits' = Quits
            BY <2>3, SameQuits, FlagRaised
        <2> QED BY <1>4, <2>1, <2>2, <2>4, QuietSeen DEF PrepareConnection, connVars, uiVars
    <1>5. CASE Launch(s)
        <2>1. /\ pc[s] = "launching" /\ pc[s] \in TurnSteps
              /\ "launched" \in TurnSteps /\ "giveUp" \in TurnSteps
              /\ UNCHANGED <<flag, conn, deleted, ui, resumeOnly>>
            BY <1>5 DEF Launch, connVars, uiVars, TurnSteps, AskedSteps, Steps, Connecting,
                Windowed, TaskSteps
        <2>2. CASE /\ IF s \in resumeOnly THEN host = "ours" ELSE host # "other"
                   /\ host' = "ours" /\ pc' = [pc EXCEPT ![s] = "launched"] /\ UNCHANGED gate
            <3>1. Stage' = Stage /\ Stage[s] = "turn"
                BY <2>1, <2>2, TurnKept
            <3>2. Streams!Launch(s)
                BY <2>1, <2>2, <3>1, SameMarks, SameQuits, SameLink
                DEF Streams!Launch, Streams!ends
            <3> QED BY <3>2 DEF Streams!Next
        <2>3. CASE pc' = [pc EXCEPT ![s] = "giveUp"] /\ UNCHANGED <<gate, host>>
            BY <2>1, <2>3, SameQuits, QuietSeen
        <2>4. CASE /\ pc' = [pc EXCEPT ![s] = "giveUp"] /\ UNCHANGED host
                   /\ OfferAnotherResume(s)
            <3>1. Stage' = Stage /\ Stage[s] = "turn"
                BY <2>1, <2>4, TurnKept
            <3>2. /\ "Terminating" \notin gate[s]
                  /\ gate' = [gate EXCEPT ![s] =
                                 gate[s] \cup {"Terminating", "Recoverable", "Interrupted"}]
                BY <2>4, TerminationBits DEF OfferAnotherResume
            <3> QED BY <2>1, <2>4, <3>1, <3>2, SameQuits, BreakSeen
        <2> QED BY <1>5, <2>2, <2>3, <2>4 DEF Launch
    <1>6. CASE CheckLaunched(s)
        <2>1. PICK step \in {"giveUp", "connect"} : pc' = [pc EXCEPT ![s] = step]
            BY <1>6 DEF CheckLaunched
        <2>2. pc[s] \in TurnSteps /\ step \in TurnSteps
            BY <1>6, <2>1
            DEF CheckLaunched, TurnSteps, AskedSteps, Steps, Connecting, Windowed, TaskSteps
        <2> QED BY <1>6, <2>1, <2>2, SameQuits, QuietSeen
            DEF CheckLaunched, objectVars, connVars, uiVars
    <1> QED BY <1>1, <1>2, <1>3, <1>4, <1>5, <1>6


\* The attempts to connect
LEMMA ConnectSeen ==
    ASSUME IInv, NEW s \in Sessions,
           \/ StartConnection(s) \/ StartReturns(s) \/ JudgeAttempt(s) \/ Backoff(s)
           \/ EndAttempts(s) \/ ConnectionStarted(s) \/ OpenWindow(s)
    PROVE  Streams!Next \/ UNCHANGED Streams!turnVars
    <1> USE DEF Goto
    <1>1. CASE StartConnection(s)
        <2>1. /\ pc[s] \in TurnSteps /\ "connecting" \in TurnSteps
              /\ pc' = [pc EXCEPT ![s] = "connecting"]
              /\ flag' = [flag EXCEPT ![s] = flag[s] \ {"AttemptTerminated"}]
              /\ conn' = [of |-> s, state |-> "starting"]
              /\ UNCHANGED <<gate, host, deleted, ui, resumeOnly>>
            BY <1>1 DEF StartConnection, Lower, uiVars, TurnSteps, AskedSteps, Steps,
                Connecting, Windowed, TaskSteps
        <2>2. Stage' = Stage /\ Stage[s] = "turn"
            BY <2>1, TurnKept
        <2>3. Linked' = s /\ Quits' = Quits
            BY <2>1, FlagLowered DEF Linked
        <2>4. Streams!Link(s)
            BY <2>1, <2>2, <2>3, SameMarks DEF Streams!Link, Streams!ends
        <2> QED BY <2>4 DEF Streams!Next
    <1>2. CASE StartReturns(s)
        <2>1. /\ pc[s] \in TurnSteps /\ "returned" \in TurnSteps
              /\ pc' = [pc EXCEPT ![s] = "returned"]
              /\ UNCHANGED <<gate, flag, host, deleted, ui, resumeOnly>>
            BY <1>2 DEF StartReturns, objectVars, uiVars, TurnSteps, AskedSteps, Steps,
                Connecting, Windowed, TaskSteps
        <2>2. Stage' = Stage
            BY <2>1, TurnKept
        <2>3. Linked' = Linked \/ Linked' = NoSession
            BY <1>2, Domains DEF IInv, StartReturns, Linked, Down
        <2>4. CASE Linked' = Linked
            BY <2>1, <2>2, <2>4, SameMarks, SameQuits DEF Streams!turnVars, Streams!ends
        <2>5. CASE Linked' = NoSession
            <3>1. Streams!Unlink
                BY <2>1, <2>2, <2>5, SameMarks, SameQuits DEF Streams!Unlink, Streams!ends
            <3> QED BY <3>1 DEF Streams!Next
        <2> QED BY <2>3, <2>4, <2>5
    <1>3. CASE JudgeAttempt(s)
        <2>1. PICK step \in {"accepted", "giveUp", "backoff"} : pc' = [pc EXCEPT ![s] = step]
            BY <1>3 DEF JudgeAttempt
        <2>2. pc[s] \in TurnSteps /\ step \in TurnSteps
            BY <1>3, <2>1
            DEF JudgeAttempt, TurnSteps, AskedSteps, Steps, Connecting, Windowed, TaskSteps
        <2> QED BY <1>3, <2>1, <2>2, SameQuits, QuietSeen
            DEF JudgeAttempt, objectVars, connVars, uiVars
    <1>4. CASE Backoff(s)
        <2>1. PICK step \in {"giveUp", "connect"} : pc' = [pc EXCEPT ![s] = step]
            BY <1>4 DEF Backoff
        <2>2. pc[s] \in TurnSteps /\ step \in TurnSteps
            BY <1>4, <2>1
            DEF Backoff, TurnSteps, AskedSteps, Steps, Connecting, Windowed, TaskSteps
        <2> QED BY <1>4, <2>1, <2>2, SameQuits, QuietSeen
            DEF Backoff, objectVars, connVars, uiVars
    <1>5. CASE EndAttempts(s)
        <2>1. PICK step \in {"connected", "cleanup"} : pc' = [pc EXCEPT ![s] = step]
            BY <1>5 DEF EndAttempts
        <2>2. pc[s] \in TurnSteps /\ step \in TurnSteps
            BY <1>5, <2>1
            DEF EndAttempts, TurnSteps, AskedSteps, Steps, Connecting, Windowed, TaskSteps
        <2>3. Quits' = Quits
            <3>1. flag' = [flag EXCEPT ![s] = flag[s] \ {"Suppress"}]
                BY <1>5 DEF EndAttempts, Lower
            <3> QED BY <3>1, FlagLowered
        <2> QED BY <1>5, <2>1, <2>2, <2>3, QuietSeen DEF EndAttempts, connVars, uiVars
    <1>6. CASE ConnectionStarted(s)
        <2>1. /\ pc[s] \in TurnSteps /\ "opening" \in TurnSteps
              /\ pc' = [pc EXCEPT ![s] = "opening"]
            BY <1>6 DEF ConnectionStarted, TurnSteps, AskedSteps, Steps, Connecting, Windowed,
                TaskSteps
        <2>2. Quits' = Quits
            <3>1. flag' = [flag EXCEPT ![s] = flag[s] \cup {"Started"}]
                BY <1>6 DEF ConnectionStarted, Raise
            <3> QED BY <3>1, FlagRaised
        <2> QED BY <1>6, <2>1, <2>2, QuietSeen DEF ConnectionStarted, connVars, uiVars
    <1>7. CASE OpenWindow(s)
        <2>1. PICK step \in {"streaming", "cleanup"} : pc' = [pc EXCEPT ![s] = step]
            BY <1>7 DEF OpenWindow
        <2>2. pc[s] \in TurnSteps /\ step \in TurnSteps
            BY <1>7, <2>1
            DEF OpenWindow, TurnSteps, AskedSteps, Steps, Connecting, Windowed, TaskSteps
        <2>3. flag' = flag \/ flag' = [flag EXCEPT ![s] = flag[s] \ {"Unexpected"}]
            BY <1>7 DEF OpenWindow, Lower
        <2>4. Quits' = Quits
            BY <2>3, SameQuits, FlagLowered
        <2> QED BY <1>7, <2>1, <2>2, <2>4, QuietSeen DEF OpenWindow, connVars, uiVars
    <1> QED BY <1>1, <1>2, <1>3, <1>4, <1>5, <1>6, <1>7

\* The event loop, and what the user and the device do to it
LEMMA LoopSeen ==
    ASSUME IInv, NEW s \in Sessions,
           \/ SeeTermination(s) \/ TakeEvent(s) \/ HandleEvent(s) \/ WakeFromSuspend(s)
           \/ UserCancel(s) \/ FinishCancel(s) \/ UserQuit(s) \/ FinishQuit(s)
           \/ SystemQuit(s) \/ FinishSystemQuit(s) \/ QuitLoop(s) \/ CloseWindow(s)
           \/ DecoderFails(s) \/ Teardown(s)
    PROVE  Streams!Next \/ UNCHANGED Streams!turnVars
    <1>1. /\ Windowed \cup {"cleanup"} \subseteq TurnSteps /\ "Terminating" # "Cancelled"
          /\ "ExitAfterQuit" \notin DisconnectMarks
          /\ "ExitAfterQuit" \notin DisconnectMarks \cup {"AppExit"}
        BY MarksNotQuit DEF TurnSteps, AskedSteps, Steps, Connecting, Windowed, TaskSteps
    <1>2. UNCHANGED <<conn, host, deleted, ui, resumeOnly>>
        BY DEF SeeTermination, TakeEvent, HandleEvent, WakeFromSuspend, UserCancel, FinishCancel,
            UserQuit, FinishQuit, SystemQuit, FinishSystemQuit, QuitLoop, CloseWindow,
            DecoderFails, Teardown, connVars, uiVars
    <1>3. pc[s] \in Windowed
        BY DEF SeeTermination, TakeEvent, HandleEvent, WakeFromSuspend, UserCancel, FinishCancel,
            UserQuit, FinishQuit, SystemQuit, FinishSystemQuit, QuitLoop, CloseWindow,
            DecoderFails, Teardown, Windowed
    <1>4. PICK step \in Windowed \cup {"cleanup"} : pc' = [pc EXCEPT ![s] = step]
        BY DEF SeeTermination, TakeEvent, HandleEvent, WakeFromSuspend, UserCancel, FinishCancel,
            UserQuit, FinishQuit, SystemQuit, FinishSystemQuit, QuitLoop, CloseWindow,
            DecoderFails, Teardown, Windowed, Goto
    <1>5. Stage' = Stage /\ Stage[s] = "turn" /\ pc[s] \in TurnSteps /\ step \in TurnSteps
        BY <1>1, <1>2, <1>3, <1>4, TurnKept
    <1>6. CASE SeeTermination(s) \/ TakeEvent(s) \/ HandleEvent(s) \/ FinishQuit(s)
               \/ SystemQuit(s) \/ QuitLoop(s) \/ DecoderFails(s)
        <2>1. UNCHANGED <<gate, flag>>
            BY <1>6 DEF SeeTermination, TakeEvent, HandleEvent, FinishQuit, SystemQuit, QuitLoop,
                DecoderFails, objectVars
        <2> QED BY <1>2, <1>4, <1>5, <2>1, SameQuits, QuietSeen
    <1>7. CASE WakeFromSuspend(s)
        <2>1. /\ "Terminating" \notin gate[s]
              /\ gate' = [gate EXCEPT ![s] =
                             gate[s] \cup {"Terminating", "Recoverable", "Interrupted"}]
            BY <1>7, TerminationBits DEF WakeFromSuspend, MustLeave
        <2>2. flag' = [flag EXCEPT ![s] = flag[s] \cup {"Unexpected"}]
            BY <1>7 DEF WakeFromSuspend, Raise
        <2>3. Quits' = Quits
            BY <2>2, FlagRaised
        <2> QED BY <1>2, <1>5, <2>1, <2>3, BreakSeen
    <1>8. CASE UserCancel(s) \/ FinishSystemQuit(s) \/ CloseWindow(s)
        <2>1. gate' = [gate EXCEPT ![s] = gate[s] \cup {"Cancelled"}]
            BY <1>8, TerminationBits DEF UserCancel, FinishSystemQuit, CloseWindow
        <2>2. \/ flag' = [flag EXCEPT ![s] = flag[s] \cup DisconnectMarks]
              \/ flag' = [flag EXCEPT ![s] = flag[s] \cup (DisconnectMarks \cup {"AppExit"})]
            BY <1>8 DEF UserCancel, FinishSystemQuit, CloseWindow, Raise
        <2>3. Quits' = Quits
            BY <1>1, <2>2, FlagRaised
        <2> QED BY <1>2, <1>5, <2>1, <2>3, EndSeen
    <1>9. CASE FinishCancel(s) \/ Teardown(s)
        <2>1. gate' = [gate EXCEPT ![s] = gate[s] \cup {"Terminating"}] /\ flag' = flag
            BY <1>9, TerminationBits DEF FinishCancel, Teardown
        <2> QED BY <1>2, <1>5, <2>1, SameQuits, EndSeen
    <1>10. CASE UserQuit(s)
        <2>1. gate' = [gate EXCEPT ![s] = gate[s] \cup {"Cancelled"}]
            BY <1>10, TerminationBits DEF UserQuit
        <2>2. flag' = [flag EXCEPT ![s] = flag[s] \cup (DisconnectMarks \cup {"ExitAfterQuit"})]
            BY <1>10 DEF UserQuit, Raise
        <2>3. Quits' = Quits \cup {s}
            <3>1. "ExitAfterQuit" \in flag'[s] /\ \A t \in Sessions : t # s => flag'[t] = flag[t]
                BY <2>2, Domains DEF IInv
            <3> QED BY <3>1 DEF Quits
        <2> QED BY <1>2, <1>5, <2>1, <2>3, EndSeen
    <1> QED BY <1>6, <1>7, <1>8, <1>9, <1>10


\* The cleanup task
LEMMA CleanupSeen ==
    ASSUME IInv, NEW s \in Sessions,
           \/ BeginCleanupTask(s) \/ StopConnection(s) \/ Decide(s) \/ AskHost(s)
           \/ QuitHostApp(s) \/ Complete(s) \/ Unregister(s) \/ ClearActive(s)
           \/ ReleaseSlot(s)
    PROVE  Streams!Next \/ UNCHANGED Streams!turnVars
    <1> USE DEF Goto
    <1>1. TaskSteps \subseteq TurnSteps
        BY DEF TurnSteps, AskedSteps, Steps, Connecting, Windowed, TaskSteps
    <1>2. CASE BeginCleanupTask(s)
        <2>1. /\ pc[s] = "cleanup" /\ pc' = [pc EXCEPT ![s] = "stopping"]
              /\ gate' = [gate EXCEPT ![s] = gate[s] \cup {"Terminating"}]
              /\ UNCHANGED <<flag, conn, host, deleted, ui, resumeOnly>>
            BY <1>2, TerminationBits DEF BeginCleanupTask, connVars, uiVars
        <2>2. Stage' = Stage /\ Stage[s] = "turn"
            BY <1>1, <2>1, TurnKept DEF TaskSteps
        <2> QED BY <2>1, <2>2, SameQuits, EndSeen
    <1>3. CASE StopConnection(s)
        <2>1. /\ pc[s] = "stopping" /\ pc' = [pc EXCEPT ![s] = "deciding"] /\ conn' = Down
              /\ flag' = [flag EXCEPT ![s] = flag[s] \ {"Started"}]
              /\ UNCHANGED <<gate, host, deleted, ui, resumeOnly>>
            BY <1>3 DEF StopConnection, Lower, uiVars
        <2>2. Stage' = Stage
            BY <1>1, <2>1, TurnKept DEF TaskSteps
        <2>3. Linked' = NoSession /\ Quits' = Quits
            BY <2>1, FlagLowered DEF Linked, Down
        <2>4. Streams!Unlink
            BY <2>1, <2>2, <2>3, SameMarks DEF Streams!Unlink, Streams!ends
        <2> QED BY <2>4 DEF Streams!Next
    <1>4. CASE Decide(s) \/ AskHost(s) \/ Unregister(s) \/ ClearActive(s)
        <2>1. PICK step \in TaskSteps : pc' = [pc EXCEPT ![s] = step]
            BY <1>4 DEF Decide, AskHost, Unregister, ClearActive, TaskSteps
        <2>2. pc[s] \in TurnSteps /\ step \in TurnSteps
            BY <1>1, <1>4, <2>1 DEF Decide, AskHost, Unregister, ClearActive, TaskSteps
        <2>3. UNCHANGED <<gate, flag, conn, host, deleted, ui, resumeOnly>>
            BY <1>4 DEF Decide, AskHost, Unregister, ClearActive, objectVars, connVars, uiVars
        <2> QED BY <2>1, <2>2, <2>3, SameQuits, QuietSeen
    <1>5. CASE QuitHostApp(s)
        <2>1. /\ pc[s] = "sendingQuit" /\ pc' = [pc EXCEPT ![s] = "completing"]
              /\ host' \in {"free", host}
              /\ UNCHANGED <<gate, flag, conn, deleted, ui, resumeOnly>>
            BY <1>5 DEF QuitHostApp, objectVars, connVars, uiVars
        <2>2. Stage' = Stage /\ Stage[s] = "turn" /\ pc[s] \in TurnSteps
              /\ "completing" \in TurnSteps
            BY <1>1, <2>1, TurnKept DEF TaskSteps
        <2>3. CASE host' = host
            BY <2>1, <2>2, <2>3, SameQuits, QuietSeen
        <2>4. CASE host' = "free"
            <3>1. Linked # s
                BY <2>1, NoSessionIsNone DEF IInv, ConnInv, Linked, ConnectedSteps, Windowed
            <3>2. s \in Marked("Terminating")
                BY <2>1 DEF IInv, CleanedInv, TaskSteps, Marked
            <3>3. s \in Marked("Interrupted") => s \in Quits
                BY <2>1 DEF IInv, KeptInv, Marked, Quits
            <3>4. Streams!QuitHost(s)
                BY <2>1, <2>2, <2>4, <3>1, <3>2, <3>3, SameMarks, SameQuits, SameLink
                DEF Streams!QuitHost, Streams!ends
            <3> QED BY <3>4 DEF Streams!Next
        <2> QED BY <2>1, <2>3, <2>4
    <1>6. CASE Complete(s)
        <2>1. PICK step \in {"keep", "forget"} : pc' = [pc EXCEPT ![s] = step]
            BY <1>6 DEF Complete
        <2>2. pc[s] \in TurnSteps /\ step \in TurnSteps
            BY <1>1, <1>6, <2>1 DEF Complete, TaskSteps
        <2>3. /\ gate' = [gate EXCEPT ![s] = gate[s] \cup {"Cleaned"}]
              /\ UNCHANGED <<flag, conn, host, deleted, ui, resumeOnly>>
            BY <1>6, TerminationBits DEF Complete, connVars, uiVars
        <2> QED BY <2>1, <2>2, <2>3, SameQuits, QuietSeen
    <1>7. CASE ReleaseSlot(s)
        <2>1. /\ pc[s] = "releasing" /\ pc' = [pc EXCEPT ![s] = "done"]
              /\ UNCHANGED <<gate, flag, conn, host, deleted, ui, resumeOnly>>
            BY <1>7 DEF ReleaseSlot, objectVars, uiVars
        <2>2. Stage' = [Stage EXCEPT ![s] = "closed"] /\ Stage[s] = "turn"
            BY <2>1, StageChanged, LiveStage DEF AskedSteps, Live
        <2>3. Linked # s
            BY <2>1, NoSessionIsNone DEF IInv, ConnInv, Linked, ConnectedSteps, Windowed
        <2>4. s \in Marked("Terminating")
            BY <2>1 DEF IInv, CleanedInv, TaskSteps, Marked
        <2>5. Streams!Close(s)
            BY <2>1, <2>2, <2>3, <2>4, SameMarks, SameQuits, SameLink
            DEF Streams!Close, Streams!Move, Streams!ends
        <2> QED BY <2>5 DEF Streams!Next
    <1> QED BY <1>2, <1>3, <1>4, <1>5, <1>6, <1>7

\* The callback of the library, whose session is connected and so in its turn
LEMMA CallbackSeen ==
    ASSUME IInv, TerminateConnection \/ Callback
    PROVE  Streams!Next \/ UNCHANGED Streams!turnVars
    <1>1. UNCHANGED <<pc, host, ui, deleted, resumeOnly>>
        BY DEF TerminateConnection, Callback, CallbackCheck, CallbackRecord, CallbackClassify,
            CallbackBegin, CallbackReport, execVars, uiVars
    <1>2. CASE TerminateConnection
        <2>1. /\ conn.state \in {"starting", "up"} /\ conn' = [conn EXCEPT !.state = "dead"]
              /\ UNCHANGED <<gate, flag>>
            BY <1>2 DEF TerminateConnection, objectVars
        <2>2. Linked' = Linked
            BY <2>1, Domains DEF IInv, Linked
        <2> QED BY <1>1, <2>1, <2>2, SameStage, SameMarks, SameQuits
            DEF Streams!turnVars, Streams!ends
    <1>3. CASE CallbackCheck \/ CallbackClassify
        <2>1. UNCHANGED <<gate, flag, conn>>
            BY <1>3 DEF CallbackCheck, CallbackClassify, objectVars
        <2> QED BY <1>1, <2>1, SameQuits, Unseen
    <1>4. CASE CallbackRecord
        <2>1. PICK s \in Sessions : s = cb.of
            BY <1>4 DEF IInv, ConnInv, CallbackRecord
        <2>2. flag' = [flag EXCEPT ![s] = flag[s] \cup {"AttemptTerminated"}]
            BY <1>4, <2>1 DEF CallbackRecord, Raise
        <2>3. Quits' = Quits
            BY <2>2, FlagRaised
        <2> QED BY <1>1, <1>4, <2>3, Unseen DEF CallbackRecord
    <1>5. CASE CallbackBegin
        <2>1. PICK s \in Sessions : s = cb.of /\ pc[s] \in ConnectedSteps
            BY <1>5 DEF IInv, ConnInv, CallbackBegin
        <2>2. Stage[s] = "turn"
            <3>1. ConnectedSteps \cap (AskedSteps \cup {"unborn", "done"}) = {}
                BY DEF ConnectedSteps, Windowed, AskedSteps
            <3> QED BY <2>1, <3>1, LiveStage DEF Live
        <2>3. Stage' = Stage /\ UNCHANGED <<flag, conn>>
            BY <1>1, <1>5, SameStage DEF CallbackBegin
        <2>4. CASE "Terminating" \in gate[s]
            BY <1>1, <1>5, <2>1, <2>3, <2>4, SameQuits, Unseen DEF CallbackBegin
        <2>5. CASE "Terminating" \notin gate[s] /\ Surface = "nothing"
            <3>1. gate' = [gate EXCEPT ![s] = gate[s] \cup {"Terminating"}]
                BY <1>5, <2>1, <2>5, TerminationBits DEF CallbackBegin
            <3> QED BY <1>1, <2>2, <2>3, <3>1, SameQuits, EndSeen
        <2>6. CASE "Terminating" \notin gate[s] /\ Surface # "nothing"
            <3>1. PICK G \in SUBSET Bits :
                      /\ {"Terminating", "Interrupted"} \subseteq G /\ "Cancelled" \notin G
                      /\ gate' = [gate EXCEPT ![s] = gate[s] \cup G]
                <4>1. gate' = [gate EXCEPT ![s] =
                          gate[s] \cup {"Terminating"}
                                  \cup (IF Surface = "recovery" THEN {"Recoverable"} ELSE {})
                                  \cup {"Interrupted"}]
                    BY <1>5, <2>1, <2>6 DEF CallbackBegin, BeginTermination
                <4>2. CASE Surface = "recovery"
                    <5> DEFINE G == {"Terminating", "Recoverable", "Interrupted"}
                    <5>1. gate' = [gate EXCEPT ![s] = gate[s] \cup G]
                        BY <4>1, <4>2
                    <5>2. G \in SUBSET Bits /\ "Cancelled" \notin G
                        BY DEF Bits
                    <5> QED BY <5>1, <5>2
                <4>3. CASE Surface # "recovery"
                    <5> DEFINE G == {"Terminating", "Interrupted"}
                    <5>1. gate' = [gate EXCEPT ![s] = gate[s] \cup G]
                        BY <4>1, <4>3
                    <5>2. G \in SUBSET Bits /\ "Cancelled" \notin G
                        BY DEF Bits
                    <5> QED BY <5>1, <5>2
                <4> QED BY <4>2, <4>3
            <3> QED BY <1>1, <2>2, <2>3, <2>6, <3>1, SameQuits, BreakSeen
        <2> QED BY <2>4, <2>5, <2>6
    <1>6. CASE CallbackReport
        <2>1. PICK s \in Sessions : s = cb.of
            BY <1>6 DEF IInv, ConnInv, CallbackReport
        <2>2. \/ flag' = [flag EXCEPT ![s] = flag[s] \ {"Unexpected"}]
              \/ flag' = [flag EXCEPT ![s] = flag[s] \cup {"Unexpected"}]
            BY <1>6, <2>1 DEF CallbackReport
        <2>3. Quits' = Quits
            BY <2>2, FlagRaised, FlagLowered
        <2> QED BY <1>1, <1>6, <2>3, Unseen DEF CallbackReport
    <1> QED BY <1>2, <1>3, <1>4, <1>5, <1>6 DEF Callback

\* Shutdown requests call the registered session, which is asked for or in its turn.
LEMMA ShutdownSeen ==
    ASSUME IInv, RequestShutdown \/ Requester
    PROVE  Streams!Next \/ UNCHANGED Streams!turnVars
    <1>1. UNCHANGED <<pc, conn, host, ui, deleted, resumeOnly>>
        BY DEF RequestShutdown, Requester, ShutdownNotify, ShutdownTerminate, ShutdownDispatch,
            execVars, connVars, uiVars
    <1>2. ASSUME registered # NoSession
          PROVE  \E s \in Sessions : s = registered /\ Stage[s] \in {"asked", "turn"}
        <2>1. registered \in Sessions /\ pc[registered] \in RegisteredSteps
            BY <1>2, Domains DEF IInv, RegistryInv
        <2>2. Live(registered)
            BY <2>1 DEF Live, RegisteredSteps, Connecting, Windowed, TaskSteps
        <2> QED BY <2>1, <2>2, LiveStage
    <1>3. CASE RequestShutdown \/ ShutdownDispatch
        <2>1. UNCHANGED <<gate, flag>>
            BY <1>3 DEF RequestShutdown, ShutdownDispatch, objectVars
        <2> QED BY <1>1, <2>1, SameQuits, Unseen
    <1>4. CASE ShutdownNotify
        <2>1. CASE registered = NoSession
            <3>1. UNCHANGED <<gate, flag>>
                BY <1>4, <2>1 DEF ShutdownNotify
            <3> QED BY <1>1, <3>1, SameQuits, Unseen
        <2>2. CASE registered # NoSession
            <3>1. PICK s \in Sessions : s = registered /\ Stage[s] \in {"asked", "turn"}
                BY <1>2, <2>2
            <3>2. /\ flag' = [flag EXCEPT ![s] = flag[s] \cup ExitMarks]
                  /\ gate' = [gate EXCEPT ![s] = gate[s] \cup {"Cancelled"}]
                BY <1>4, <2>2, <3>1, TerminationBits DEF ShutdownNotify, Raise
            <3>3. Quits' = Quits
                BY <3>2, FlagRaised, MarksNotQuit
            <3> QED BY <1>1, <3>1, <3>2, <3>3, SameStage, EndSeen
        <2> QED BY <2>1, <2>2
    <1>5. CASE ShutdownTerminate
        <2>1. PICK s \in Sessions : s = registered /\ Stage[s] \in {"asked", "turn"}
            BY <1>2, <1>5 DEF ShutdownTerminate, IInv, RegistryInv
        <2>2. flag' = flag /\ gate' = [gate EXCEPT ![s] = gate[s] \cup {"Terminating"}]
            BY <1>5, <2>1, TerminationBits DEF ShutdownTerminate
        <2> QED BY <1>1, <2>1, <2>2, SameStage, SameQuits, EndSeen
    <1> QED BY <1>3, <1>4, <1>5 DEF Requester

\* The step simulation: whoever takes a step, the streams are seen to take one of
\* theirs, or none.
LEMMA TurnsSeen ==
    IInv /\ [Next]_vars => [Streams!Next]_(Streams!turnVars)
    <1> SUFFICES ASSUME IInv, [Next]_vars PROVE Streams!Next \/ UNCHANGED Streams!turnVars
        OBVIOUS
    <1>1. CASE UNCHANGED vars
        <2>1. UNCHANGED <<pc, gate, flag, conn, host, ui, deleted, resumeOnly>>
            BY <1>1 DEF vars, execVars, objectVars, connVars, uiVars
        <2> QED BY <2>1, Unseen, SameQuits
    <1>2. ASSUME NEW s \in Sessions, Progress(s) \/ Stimulus(s)
          PROVE  Streams!Next \/ UNCHANGED Streams!turnVars
        BY <1>2, LaunchSeen, ConnectSeen, LoopSeen, CleanupSeen DEF Progress, Stimulus
    <1>3. CASE HostChanges
        <2>1. /\ host = "ours" /\ host' \in {"free", "other"}
              /\ UNCHANGED <<pc, gate, flag, conn, ui, deleted, resumeOnly>>
            BY <1>3 DEF HostChanges, execVars, objectVars, connVars, uiVars
        <2>2. Streams!Others
            BY <2>1, SameStage, SameMarks, SameQuits, SameLink DEF Streams!Others, Streams!ends
        <2> QED BY <2>2 DEF Streams!Next
    <1> QED BY <1>1, <1>2, <1>3, MainThreadSeen, CallbackSeen, ShutdownSeen DEF Next, Exited

LEMMA TurnsBegin == Init => Streams!Init
    BY DEF Init, Streams!Init, Stage, StageOf, Linked, Marked, Quits, Down

\* However the threads, the callback, the shutdown requests and the host interleave,
\* for any number of sessions, what the user sees is streams that take turns.
THEOREM StreamTurnsImplemented == Spec => ImplementsStreamTurns
    <1> QED BY TurnsBegin, TurnsSeen, Invariance, PTL DEF Spec, ImplementsStreamTurns, Streams!Spec

----------------------------------------------------------------------------
(* An ending comes to its end *)

\* The steps from a place to the end of the cleanup, without the rounds of the
\* connection attempts.
Way(place) ==
    CASE place = "created" -> 24
      [] place = "starting" -> 23
      [] place = "waiting" -> 22
      [] place \in {"preparing", "connecting"} -> 21
      [] place \in {"launching", "returned"} -> 20
      [] place \in {"launched", "backoff"} -> 19
      [] place = "connect" -> 18
      [] place = "accepted" -> 17
      [] place = "connected" -> 16
      [] place = "opening" -> 15
      [] place = "handling" -> 14
      [] place = "quitting" -> 13
      [] place \in {"cancelling", "exiting"} -> 12
      [] place \in {"streaming", "quitSeen"} -> 11
      [] place \in {"teardown", "giveUp"} -> 10
      [] place = "cleanup" -> 9
      [] place = "stopping" -> 8
      [] place = "deciding" -> 7
      [] place = "quittingHost" -> 6
      [] place = "sendingQuit" -> 5
      [] place = "completing" -> 4
      [] place \in {"keep", "forget"} -> 3
      [] place = "clearing" -> 2
      [] place = "releasing" -> 1
      [] OTHER -> 0

\* The places at which attempts may still be made: four steps to each.
DiallingSteps ==
    {"created", "starting", "waiting", "preparing", "launching", "launched", "connect",
     "connecting", "returned", "backoff"}

RoundsLeft(s) == IF pc[s] \in DiallingSteps THEN 4 * (MaxAttempts - attempt[s]) ELSE 0

\* The steps a terminating session takes at most until it is done.
StepsLeft(s) == Way(pc[s]) + RoundsLeft(s)

\* What a session may have to wait for: the callback in flight and the one that
\* a living connection may still make, and the shutdown request.
CallbackPlace ==
    CASE cb.pc = "check" -> 4
      [] cb.pc = "classify" -> 3
      [] cb.pc = "begin" -> 2
      [] cb.pc \in {"record", "report"} -> 1
      [] OTHER -> 0

ConnectionLeft == IF conn.state \in {"starting", "up"} THEN 5 ELSE 0

RequesterLeft ==
    IF reason = "None" THEN 3
    ELSE IF spc = "notify" THEN 2 ELSE IF spc \in {"terminate", "dispatch"} THEN 1 ELSE 0

OthersLeft == CallbackPlace + ConnectionLeft + RequesterLeft

\* A terminating session is never stuck: it is exec'd unless the process leaves,
\* the slot is free when it waits for it, the request it made is on its way, and
\* its completion is queued until it is released or offered again.
EndingAttended ==
    \A s \in Sessions : "Terminating" \in gate[s] =>
        /\ pc[s] = "created" => mpc # "loop"
        /\ pc[s] = "waiting" => slot = NoSession
        /\ pc[s] \in {"quitting", "exiting"} =>
               RequestReturned(s) \/ spc \in {"notify", "terminate", "dispatch"}
        /\ pc[s] = "done" =>
               \/ s \in deleted
               \/ ui = "recovery" /\ cur = s
               \/ Queued("notify", s) \in Calls(inbox)

\* Every step of a terminating session takes it nearer to its end, and every
\* other step leaves it where it is and adds nothing to what it may wait for; a
\* step of the callback or of the shutdown request takes from it.
EndingNearer ==
    \A s \in Sessions : "Terminating" \in gate[s] /\ Live(s) =>
        /\ "Terminating" \in gate'[s]
        /\ IF Progress(s) \/ Stimulus(s) THEN StepsLeft(s)' < StepsLeft(s)
           ELSE pc'[s] = pc[s] /\ attempt'[s] = attempt[s] /\ OthersLeft' <= OthersLeft
        /\ TerminateConnection \/ Callback \/ RequestShutdown \/ Requester =>
               OthersLeft' < OthersLeft

\* Nobody has marked a session before it is exec'd, unless the process leaves;
\* the completion of one that has ended is queued, or the dialog is open for it.
EndKnown(s) ==
    /\ pc[s] = "unborn" \/ (pc[s] = "created" /\ mpc = "loop") => gate[s] = {}
    /\ pc[s] = "done" /\ s \notin deleted =>
           ui = "recovery" \/ Queued("notify", s) \in Calls(inbox)

\* A request that was made has a thread that makes it.
RequestKnown ==
    /\ requester # NoSession => reason # "None"
    /\ spc = "idle" => reason = "None"

EndInv == RequestKnown /\ \A s \in Sessions : EndKnown(s)

LEMMA WayValues ==
    /\ Way("created") = 24 /\ Way("starting") = 23 /\ Way("waiting") = 22
    /\ Way("preparing") = 21 /\ Way("connecting") = 21
    /\ Way("launching") = 20 /\ Way("returned") = 20
    /\ Way("launched") = 19 /\ Way("backoff") = 19
    /\ Way("connect") = 18 /\ Way("accepted") = 17 /\ Way("connected") = 16
    /\ Way("opening") = 15 /\ Way("handling") = 14 /\ Way("quitting") = 13
    /\ Way("cancelling") = 12 /\ Way("exiting") = 12
    /\ Way("streaming") = 11 /\ Way("quitSeen") = 11
    /\ Way("teardown") = 10 /\ Way("giveUp") = 10
    /\ Way("cleanup") = 9 /\ Way("stopping") = 8 /\ Way("deciding") = 7
    /\ Way("quittingHost") = 6 /\ Way("sendingQuit") = 5 /\ Way("completing") = 4
    /\ Way("keep") = 3 /\ Way("forget") = 3 /\ Way("clearing") = 2
    /\ Way("releasing") = 1 /\ Way("unborn") = 0 /\ Way("done") = 0
    BY DEF Way

LEMMA WayIsNat == \A place \in Steps : Way(place) \in Nat
    BY WayValues DEF Steps, Connecting, Windowed, TaskSteps

\* A step of one session moves its place only.
LEMMA Moved ==
    ASSUME IInv, NEW s \in Sessions, NEW step, Goto(s, step)
    PROVE  pc'[s] = step /\ \A t \in Sessions : t # s => pc'[t] = pc[t]
    BY Domains DEF IInv, Goto

\* The rounds still to be made are a natural number.
LEMMA RoundsType ==
    ASSUME NEW a \in 0..MaxAttempts
    PROVE  4 * (MaxAttempts - a) \in Nat
    BY SessionAssumption

\* A step to a place with less of the way left, that makes no attempt.
LEMMA WayShorter ==
    ASSUME IInv, [Next]_vars, NEW s \in Sessions, Way(pc'[s]) < Way(pc[s]),
           pc'[s] \in DiallingSteps => pc[s] \in DiallingSteps /\ attempt'[s] = attempt[s]
    PROVE  StepsLeft(s)' < StepsLeft(s)
    <1>1. pc \in [Sessions -> Steps] /\ attempt[s] \in 0..MaxAttempts
        BY Domains DEF IInv
    <1>2. pc' \in [Sessions -> Steps] /\ attempt'[s] \in 0..MaxAttempts
        BY TypeStep DEF TypeOK
    <1>3. Way(pc[s]) \in Nat /\ Way(pc'[s]) \in Nat
        BY <1>1, <1>2, WayIsNat
    <1>4. 4 * (MaxAttempts - attempt[s]) \in Nat /\ 4 * (MaxAttempts - attempt'[s]) \in Nat
        BY <1>1, <1>2, RoundsType
    <1>5. StepsLeft(s) = Way(pc[s]) + RoundsLeft(s) /\ StepsLeft(s)' = Way(pc'[s]) + RoundsLeft(s)'
        BY DEF StepsLeft
    <1>6. CASE pc'[s] \in DiallingSteps
        <2>1. RoundsLeft(s)' = RoundsLeft(s) /\ RoundsLeft(s) \in Nat
            BY <1>4, <1>6 DEF RoundsLeft
        <2> QED BY <2>1, <1>3, <1>5
    <1>7. CASE pc'[s] \notin DiallingSteps
        <2>1. RoundsLeft(s)' = 0 /\ RoundsLeft(s) \in Nat
            BY <1>4, <1>7 DEF RoundsLeft
        <2> QED BY <2>1, <1>3, <1>5
    <1> QED BY <1>6, <1>7

\* The steps of an exec thread up to the window take it nearer to its end.
LEMMA DialNearer ==
    ASSUME IInv, [Next]_vars, NEW s \in Sessions,
           \/ Exec(s) \/ Initialize(s) \/ AcquireSlot(s) \/ PrepareConnection(s) \/ Launch(s)
           \/ CheckLaunched(s) \/ StartConnection(s) \/ StartReturns(s) \/ JudgeAttempt(s)
           \/ Backoff(s)
    PROVE  StepsLeft(s)' < StepsLeft(s)
    <1>1. CASE \/ Exec(s) \/ Initialize(s) \/ AcquireSlot(s) \/ PrepareConnection(s) \/ Launch(s)
        <2>1. /\ \/ pc[s] = "created" /\ pc'[s] = "starting"
                 \/ pc[s] = "starting" /\ pc'[s] \in {"waiting", "done"}
                 \/ pc[s] = "waiting" /\ pc'[s] = "preparing"
                 \/ pc[s] = "preparing" /\ pc'[s] \in {"launching", "cleanup"}
                 \/ pc[s] = "launching" /\ pc'[s] \in {"launched", "giveUp"}
              /\ attempt' = attempt
            BY <1>1, Moved DEF Exec, Initialize, AcquireSlot, PrepareConnection, Launch
        <2>2. Way(pc'[s]) < Way(pc[s])
            BY <2>1, WayValues
        <2>3. pc'[s] \in DiallingSteps => pc[s] \in DiallingSteps
            BY <2>1 DEF DiallingSteps
        <2> QED BY <2>1, <2>2, <2>3, WayShorter
    <1>2. CASE CheckLaunched(s) \/ StartReturns(s) \/ JudgeAttempt(s) \/ Backoff(s)
        <2>1. /\ \/ pc[s] = "launched" /\ pc'[s] \in {"giveUp", "connect"}
                 \/ pc[s] = "connecting" /\ pc'[s] = "returned"
                 \/ pc[s] = "returned" /\ pc'[s] \in {"accepted", "giveUp", "backoff"}
                 \/ pc[s] = "backoff" /\ pc'[s] \in {"giveUp", "connect"}
              /\ attempt' = attempt
            BY <1>2, Moved DEF CheckLaunched, StartReturns, JudgeAttempt, Backoff
        <2>2. Way(pc'[s]) < Way(pc[s])
            BY <2>1, WayValues
        <2>3. pc'[s] \in DiallingSteps => pc[s] \in DiallingSteps
            BY <2>1 DEF DiallingSteps
        <2> QED BY <2>1, <2>2, <2>3, WayShorter
    <1>3. CASE StartConnection(s)
        <2>1. attempt \in [Sessions -> 0..MaxAttempts]
            BY Domains DEF IInv
        <2>2. /\ pc[s] = "connect" /\ pc'[s] = "connecting"
              /\ attempt'[s] = attempt[s] + 1 /\ attempt[s] \in 0..MaxAttempts
            BY <1>3, <2>1, Moved DEF StartConnection
        <2>3. pc[s] \in DiallingSteps /\ pc'[s] \in DiallingSteps
            BY <2>2 DEF DiallingSteps
        <2>4. StepsLeft(s) = 18 + 4 * (MaxAttempts - attempt[s])
            BY <2>2, <2>3, WayValues DEF StepsLeft, RoundsLeft
        <2>5. StepsLeft(s)' = 21 + 4 * (MaxAttempts - (attempt[s] + 1))
            BY <2>2, <2>3, WayValues DEF StepsLeft, RoundsLeft
        <2> QED BY <2>2, <2>4, <2>5, SessionAssumption
    <1> QED BY <1>1, <1>2, <1>3

\* So do the steps of its event loop and of its cleanup, and while it is
\* terminating the events of the window.
LEMMA LoopNearer ==
    ASSUME IInv, [Next]_vars, NEW s \in Sessions,
           \/ EndAttempts(s) \/ ConnectionStarted(s) \/ OpenWindow(s) \/ SeeTermination(s)
           \/ HandleEvent(s) \/ FinishCancel(s) \/ FinishQuit(s) \/ FinishSystemQuit(s)
           \/ QuitLoop(s) \/ Teardown(s) \/ (Stimulus(s) /\ MustLeave(s))
    PROVE  StepsLeft(s)' < StepsLeft(s)
    <1>1. CASE EndAttempts(s) \/ ConnectionStarted(s) \/ OpenWindow(s) \/ SeeTermination(s)
               \/ HandleEvent(s) \/ FinishCancel(s)
        <2>1. \/ pc[s] = "accepted" /\ pc'[s] = "connected"
              \/ pc[s] = "giveUp" /\ pc'[s] = "cleanup"
              \/ pc[s] = "connected" /\ pc'[s] = "opening"
              \/ pc[s] = "opening" /\ pc'[s] \in {"streaming", "cleanup"}
              \/ pc[s] = "streaming" /\ pc'[s] = "teardown"
              \/ pc[s] \in {"handling", "cancelling"} /\ pc'[s] = "streaming"
            BY <1>1, Moved DEF EndAttempts, ConnectionStarted, OpenWindow, SeeTermination,
               HandleEvent, FinishCancel
        <2>2. Way(pc'[s]) < Way(pc[s])
            BY <2>1, WayValues
        <2>3. pc'[s] \notin DiallingSteps
            BY <2>1 DEF DiallingSteps
        <2> QED BY <2>2, <2>3, WayShorter
    <1>2. CASE FinishQuit(s) \/ FinishSystemQuit(s) \/ QuitLoop(s) \/ Teardown(s)
        <2>1. \/ pc[s] = "quitting" /\ pc'[s] = "cancelling"
              \/ pc[s] = "exiting" /\ pc'[s] = "quitSeen"
              \/ pc[s] = "quitSeen" /\ pc'[s] = "teardown"
              \/ pc[s] = "teardown" /\ pc'[s] = "cleanup"
            BY <1>2, Moved DEF FinishQuit, FinishSystemQuit, QuitLoop, Teardown
        <2>2. Way(pc'[s]) < Way(pc[s])
            BY <2>1, WayValues
        <2>3. pc'[s] \notin DiallingSteps
            BY <2>1 DEF DiallingSteps
        <2> QED BY <2>2, <2>3, WayShorter
    <1>3. CASE Stimulus(s) /\ MustLeave(s)
        <2>1. UserCancel(s) \/ UserQuit(s) \/ SystemQuit(s) \/ CloseWindow(s) \/ DecoderFails(s)
            BY <1>3 DEF Stimulus, TakeEvent, WakeFromSuspend
        <2>2. pc[s] = "handling" /\ pc'[s] \in {"cancelling", "quitting", "exiting", "teardown"}
            BY <2>1, Moved DEF UserCancel, UserQuit, SystemQuit, CloseWindow, DecoderFails
        <2>3. Way(pc'[s]) < Way(pc[s])
            BY <2>2, WayValues
        <2>4. pc'[s] \notin DiallingSteps
            BY <2>2 DEF DiallingSteps
        <2> QED BY <2>3, <2>4, WayShorter
    <1> QED BY <1>1, <1>2, <1>3

LEMMA CleanupNearer ==
    ASSUME IInv, [Next]_vars, NEW s \in Sessions,
           \/ BeginCleanupTask(s) \/ StopConnection(s) \/ Decide(s) \/ AskHost(s)
           \/ QuitHostApp(s) \/ Complete(s) \/ Unregister(s) \/ ClearActive(s) \/ ReleaseSlot(s)
    PROVE  StepsLeft(s)' < StepsLeft(s)
    <1>1. \/ pc[s] = "cleanup" /\ pc'[s] = "stopping"
          \/ pc[s] = "stopping" /\ pc'[s] = "deciding"
          \/ pc[s] = "deciding" /\ pc'[s] \in {"quittingHost", "completing"}
          \/ pc[s] = "quittingHost" /\ pc'[s] \in {"sendingQuit", "completing"}
          \/ pc[s] = "sendingQuit" /\ pc'[s] = "completing"
          \/ pc[s] = "completing" /\ pc'[s] \in {"keep", "forget"}
          \/ pc[s] \in {"keep", "forget"} /\ pc'[s] = "clearing"
          \/ pc[s] = "clearing" /\ pc'[s] = "releasing"
          \/ pc[s] = "releasing" /\ pc'[s] = "done"
        <2>1. CASE BeginCleanupTask(s) \/ StopConnection(s) \/ Decide(s) \/ AskHost(s)
            BY <2>1, Moved DEF BeginCleanupTask, StopConnection, Decide, AskHost
        <2>2. CASE QuitHostApp(s) \/ Complete(s) \/ Unregister(s) \/ ClearActive(s)
                   \/ ReleaseSlot(s)
            BY <2>2, Moved DEF QuitHostApp, Complete, Unregister, ClearActive, ReleaseSlot
        <2> QED BY <2>1, <2>2
    <1>2. Way(pc'[s]) < Way(pc[s])
        BY <1>1, WayValues
    <1>3. pc'[s] \notin DiallingSteps
        BY <1>1 DEF DiallingSteps
    <1> QED BY <1>2, <1>3, WayShorter

LEMMA SessionNearer ==
    ASSUME IInv, [Next]_vars, NEW s \in Sessions, Progress(s) \/ (Stimulus(s) /\ MustLeave(s))
    PROVE  StepsLeft(s)' < StepsLeft(s)
    BY DialNearer, LoopNearer, CleanupNearer DEF Progress

\* Bits of a gate are set, never cleared.
LEMMA BitsGrow ==
    \A g : /\ \A r, u \in BOOLEAN : g \subseteq BeginTermination(g, r, u)
           /\ g \subseteq Cancel(g) /\ g \subseteq BeginCleanup(g)
           /\ g \subseteq CompleteCleanup(g) /\ g \subseteq TakeResume(g)
    BY DEF BeginTermination, Cancel, BeginCleanup, CompleteCleanup, TakeResume

\* A session sets bits of its own gate only.
LEMMA OwnGate ==
    ASSUME IInv, NEW s \in Sessions, Progress(s) \/ Stimulus(s)
    PROVE  gate[s] \subseteq gate'[s] /\ \A t \in Sessions : t # s => gate'[t] = gate[t]
    <1>1. gate \in [Sessions -> SUBSET Bits]
        BY Domains DEF IInv
    <1>2. CASE UNCHANGED gate
        BY <1>2
    <1>3. ASSUME NEW g, gate[s] \subseteq g, gate' = [gate EXCEPT ![s] = g]
          PROVE  gate[s] \subseteq gate'[s] /\ \A t \in Sessions : t # s => gate'[t] = gate[t]
        BY <1>1, <1>3
    <1>4. CASE \/ AcquireSlot(s) \/ PrepareConnection(s) \/ CheckLaunched(s) \/ StartConnection(s)
               \/ StartReturns(s) \/ JudgeAttempt(s) \/ Backoff(s) \/ EndAttempts(s)
               \/ ConnectionStarted(s) \/ OpenWindow(s)
        BY <1>2, <1>4 DEF AcquireSlot, PrepareConnection, CheckLaunched, StartConnection,
           StartReturns, JudgeAttempt, Backoff, EndAttempts, ConnectionStarted, OpenWindow,
           objectVars
    <1>5. CASE \/ SeeTermination(s) \/ HandleEvent(s) \/ FinishQuit(s) \/ QuitLoop(s)
               \/ StopConnection(s) \/ Decide(s) \/ AskHost(s) \/ QuitHostApp(s)
               \/ Unregister(s) \/ ClearActive(s) \/ ReleaseSlot(s) \/ TakeEvent(s)
               \/ SystemQuit(s) \/ DecoderFails(s)
        BY <1>2, <1>5 DEF SeeTermination, HandleEvent, FinishQuit, QuitLoop, StopConnection,
           Decide, AskHost, QuitHostApp, Unregister, ClearActive, ReleaseSlot, TakeEvent,
           SystemQuit, DecoderFails, objectVars
    <1>6. CASE Exec(s)
        <2>1. gate[s] \subseteq BeginTermination(Cancel(gate[s]), FALSE, FALSE)
            BY BitsGrow
        <2> QED BY <1>2, <1>3, <1>6, <2>1 DEF Exec
    <1>7. CASE Initialize(s) \/ Complete(s)
        BY <1>2, <1>3, <1>7, BitsGrow DEF Initialize, Complete
    <1>8. CASE Launch(s) \/ WakeFromSuspend(s)
        <2>1. gate[s] \subseteq BeginTermination(gate[s], TRUE, TRUE)
            BY BitsGrow
        <2> QED BY <1>2, <1>3, <1>8, <2>1 DEF Launch, OfferAnotherResume, WakeFromSuspend
    <1>9. CASE \/ UserCancel(s) \/ UserQuit(s) \/ FinishSystemQuit(s) \/ CloseWindow(s)
        BY <1>3, <1>9, BitsGrow DEF UserCancel, UserQuit, FinishSystemQuit, CloseWindow
    <1>10. CASE FinishCancel(s) \/ Teardown(s) \/ BeginCleanupTask(s)
        <2>1. gate[s] \subseteq BeginTermination(gate[s], FALSE, FALSE)
              /\ gate[s] \subseteq BeginCleanup(gate[s])
            BY BitsGrow
        <2> QED BY <1>3, <1>10, <2>1 DEF FinishCancel, Teardown, BeginCleanupTask
    <1> QED BY <1>4, <1>5, <1>6, <1>7, <1>8, <1>9, <1>10 DEF Progress, Stimulus

\* What a step of a session leaves to the main thread and to the requester.
LEMMA OwnFrame ==
    ASSUME NEW s \in Sessions, Progress(s) \/ Stimulus(s)
    PROVE  /\ UNCHANGED <<ui, cur, deleted, mpc, quitting>>
           /\ UNCHANGED <<reason, requester, spc>> \/ RequestAppExit(s)
    <1>1. CASE \/ Exec(s) \/ Initialize(s) \/ AcquireSlot(s) \/ PrepareConnection(s) \/ Launch(s)
               \/ CheckLaunched(s) \/ StartConnection(s) \/ StartReturns(s) \/ JudgeAttempt(s)
               \/ Backoff(s)
        BY <1>1 DEF Exec, Initialize, AcquireSlot, PrepareConnection, Launch, CheckLaunched,
           StartConnection, StartReturns, JudgeAttempt, Backoff, uiVars, lifeVars
    <1>2. CASE \/ EndAttempts(s) \/ ConnectionStarted(s) \/ OpenWindow(s) \/ SeeTermination(s)
               \/ HandleEvent(s) \/ FinishCancel(s) \/ FinishQuit(s) \/ FinishSystemQuit(s)
               \/ QuitLoop(s) \/ Teardown(s)
        BY <1>2 DEF EndAttempts, ConnectionStarted, OpenWindow, SeeTermination, HandleEvent,
           FinishCancel, FinishQuit, FinishSystemQuit, QuitLoop, Teardown, uiVars, lifeVars
    <1>3. CASE \/ BeginCleanupTask(s) \/ StopConnection(s) \/ Decide(s) \/ AskHost(s)
               \/ QuitHostApp(s) \/ Complete(s) \/ Unregister(s) \/ ClearActive(s)
               \/ ReleaseSlot(s)
        BY <1>3 DEF BeginCleanupTask, StopConnection, Decide, AskHost, QuitHostApp, Complete,
           Unregister, ClearActive, ReleaseSlot, uiVars, lifeVars
    <1>4. CASE Stimulus(s)
        BY <1>4 DEF Stimulus, TakeEvent, WakeFromSuspend, UserCancel, UserQuit, SystemQuit,
           CloseWindow, DecoderFails, uiVars, lifeVars
    <1> QED BY <1>1, <1>2, <1>3, <1>4 DEF Progress

\* The last steps of a session, once its gate says that it is cleaned.
FinishedSteps == {"keep", "forget", "clearing", "releasing", "done"}

\* A session that comes to its end has queued its completion.
LEMMA OwnCalls ==
    ASSUME IInv, NEW s \in Sessions, Progress(s) \/ Stimulus(s)
    PROVE  /\ Live(s) /\ pc'[s] \notin {"unborn", "created"}
           /\ \A t \in Sessions : t # s => pc'[t] = pc[t]
           /\ Calls(inbox) \subseteq Calls(inbox')
           /\ pc'[s] = "done" => Queued("notify", s) \in Calls(inbox')
           /\ pc'[s] \in FinishedSteps =>
                  pc[s] \in FinishedSteps \/ "Cleaned" \in gate'[s]
    <1> USE DEF FinishedSteps
    <1>1. ASSUME NEW c \in QueuedCalls, inbox' = Append(inbox, c)
          PROVE  Calls(inbox') = Calls(inbox) \cup {c}
        BY <1>1, CallAppended DEF IInv
    <1>2. Queued("notify", s) \in QueuedCalls /\ Queued("recovery", s) \in QueuedCalls
        BY DEF Queued, QueuedCalls
    <1>3. CASE \/ Exec(s) \/ AcquireSlot(s) \/ PrepareConnection(s) \/ CheckLaunched(s)
               \/ StartConnection(s) \/ StartReturns(s) \/ JudgeAttempt(s) \/ Backoff(s)
        <2>1. UNCHANGED inbox
            BY <1>3 DEF Exec, AcquireSlot, PrepareConnection, CheckLaunched, StartConnection,
               StartReturns, JudgeAttempt, Backoff
        <2>2. PICK step \in {"starting", "preparing", "cleanup", "launching", "connect", "giveUp",
                       "connecting", "returned", "accepted", "backoff"} :
                  Goto(s, step) /\ pc[s] \notin {"unborn", "done"}
            BY <1>3 DEF Exec, AcquireSlot, PrepareConnection, CheckLaunched,
               StartConnection, StartReturns, JudgeAttempt, Backoff
        <2> QED BY <2>1, <2>2, Moved DEF Live
    <1>4. CASE Initialize(s) \/ ReleaseSlot(s)
        <2>1. /\ pc[s] \notin {"unborn", "done"} /\ pc'[s] \in {"waiting", "done"}
              /\ \A t \in Sessions : t # s => pc'[t] = pc[t]
              /\ \/ inbox' = inbox /\ pc'[s] # "done"
                 \/ inbox' = Append(inbox, Queued("notify", s))
            BY <1>4, Moved DEF Initialize, ReleaseSlot
        <2>2. \/ pc'[s] = "waiting" \/ pc[s] = "releasing"
              \/ gate' = [gate EXCEPT ![s] = CompleteCleanup(gate[s])]
            BY <1>4, Moved DEF Initialize, ReleaseSlot
        <2>3. pc'[s] = "waiting" \/ pc[s] = "releasing" \/ "Cleaned" \in gate'[s]
            BY <2>2, Domains DEF IInv, CompleteCleanup
        <2> QED BY <1>1, <1>2, <2>1, <2>3 DEF Live
    <1>5. CASE Launch(s) \/ WakeFromSuspend(s)
        <2>1. PICK step \in {"launched", "giveUp", "teardown"} :
                  Goto(s, step) /\ pc[s] \notin {"unborn", "done"}
            BY <1>5 DEF Launch, WakeFromSuspend
        <2>2. inbox' = inbox \/ inbox' = Append(inbox, Queued("recovery", s))
            BY <1>5 DEF Launch, OfferAnotherResume, WakeFromSuspend
        <2>3. Calls(inbox) \subseteq Calls(inbox')
            BY <1>1, <1>2, <2>2
        <2> QED BY <2>1, <2>3, Moved DEF Live
    <1>6. CASE \/ EndAttempts(s) \/ ConnectionStarted(s) \/ OpenWindow(s) \/ SeeTermination(s)
               \/ HandleEvent(s) \/ FinishCancel(s) \/ FinishQuit(s) \/ FinishSystemQuit(s)
               \/ QuitLoop(s) \/ Teardown(s)
        <2>1. UNCHANGED inbox
            BY <1>6 DEF EndAttempts, ConnectionStarted, OpenWindow, SeeTermination, HandleEvent,
               FinishCancel, FinishQuit, FinishSystemQuit, QuitLoop, Teardown
        <2>2. PICK step \in {"connected", "cleanup", "opening", "streaming", "teardown",
                             "cancelling", "quitSeen"} :
                  Goto(s, step) /\ pc[s] \notin {"unborn", "done"}
            BY <1>6 DEF EndAttempts, ConnectionStarted, OpenWindow, SeeTermination,
               HandleEvent, FinishCancel, FinishQuit, FinishSystemQuit, QuitLoop, Teardown
        <2> QED BY <2>1, <2>2, Moved DEF Live
    <1>7. CASE \/ BeginCleanupTask(s) \/ StopConnection(s) \/ Decide(s) \/ AskHost(s)
               \/ QuitHostApp(s)
        <2>1. UNCHANGED inbox
            BY <1>7 DEF BeginCleanupTask, StopConnection, Decide, AskHost, QuitHostApp
        <2>2. PICK step \in {"stopping", "deciding", "quittingHost", "completing", "sendingQuit"} :
                  Goto(s, step) /\ pc[s] \notin {"unborn", "done"}
            BY <1>7 DEF BeginCleanupTask, StopConnection, Decide, AskHost, QuitHostApp
        <2> QED BY <2>1, <2>2, Moved DEF Live
    <1>9. CASE Complete(s) \/ Unregister(s) \/ ClearActive(s)
        <2>1. UNCHANGED inbox
            BY <1>9 DEF Complete, Unregister, ClearActive
        <2>2. PICK step \in {"keep", "forget", "clearing", "releasing"} :
                  Goto(s, step) /\ pc[s] \in FinishedSteps \cup {"completing"} /\ pc[s] # "done"
            BY <1>9 DEF Complete, Unregister, ClearActive
        <2>3. \/ pc[s] \in FinishedSteps
              \/ gate' = [gate EXCEPT ![s] = CompleteCleanup(gate[s])]
            BY <1>9 DEF Complete, Unregister, ClearActive
        <2>4. pc[s] \in FinishedSteps \/ "Cleaned" \in gate'[s]
            BY <2>3, Domains DEF IInv, CompleteCleanup
        <2> QED BY <2>1, <2>2, <2>4, Moved DEF Live
    <1>8. CASE TakeEvent(s) \/ UserCancel(s) \/ UserQuit(s) \/ SystemQuit(s) \/ CloseWindow(s)
               \/ DecoderFails(s)
        <2>1. UNCHANGED inbox
            BY <1>8 DEF TakeEvent, UserCancel, UserQuit, SystemQuit, CloseWindow, DecoderFails
        <2>2. PICK step \in {"handling", "cancelling", "quitting", "exiting", "teardown"} :
                  Goto(s, step) /\ pc[s] \notin {"unborn", "done"}
            BY <1>8 DEF TakeEvent, UserCancel, UserQuit, SystemQuit, CloseWindow,
               DecoderFails
        <2> QED BY <2>1, <2>2, Moved DEF Live
    <1> QED BY <1>3, <1>4, <1>5, <1>6, <1>7, <1>8, <1>9 DEF Progress, Stimulus

LEMMA SumSmaller ==
    ASSUME NEW a \in Nat, NEW b \in Nat, NEW c \in Nat, NEW less \in Nat
    PROVE  /\ less < a => less + b + c < a + b + c
           /\ less < c => a + b + less < a + b + c
    OBVIOUS

\* The callback and the shutdown request come to their ends too.
LEMMA OthersNearer ==
    ASSUME IInv, TerminateConnection \/ Callback \/ RequestShutdown \/ Requester
    PROVE  OthersLeft' < OthersLeft /\ UNCHANGED <<pc, attempt>>
    <1>0. /\ cb \in [pc : {"idle", "check", "record", "classify", "begin", "report"},
                     of : Sessions \cup {NoSession}, error : BOOLEAN,
                     intentional : BOOLEAN, surface : {"nothing", "error", "recovery"}]
          /\ conn \in [of : Sessions \cup {NoSession}, state : {"down", "starting", "up", "dead"}]
        BY Domains DEF IInv
    <1>1. CallbackPlace \in Nat /\ ConnectionLeft \in Nat /\ RequesterLeft \in Nat
        BY <1>0 DEF CallbackPlace, ConnectionLeft, RequesterLeft
    <1>s. /\ OthersLeft = CallbackPlace + ConnectionLeft + RequesterLeft
          /\ OthersLeft' = CallbackPlace' + ConnectionLeft' + RequesterLeft'
        BY DEF OthersLeft
    <1>2. UNCHANGED <<pc, attempt>>
        BY DEF TerminateConnection, Callback, CallbackCheck, CallbackRecord, CallbackClassify,
           CallbackBegin, CallbackReport, RequestShutdown, Requester, ShutdownNotify,
           ShutdownTerminate, ShutdownDispatch, execVars
    <1>3. CASE TerminateConnection
        <2>1. /\ conn.state \in {"starting", "up"} /\ conn'.state = "dead"
              /\ cb.pc = "idle" /\ cb'.pc = "check" /\ UNCHANGED <<reason, spc>>
            BY <1>0, <1>3 DEF TerminateConnection, NoCall, lifeVars
        <2>2. ConnectionLeft = 5 /\ ConnectionLeft' = 0
            BY <2>1 DEF ConnectionLeft
        <2>3. CallbackPlace = 0 /\ CallbackPlace' = 4
            BY <2>1 DEF CallbackPlace
        <2>4. RequesterLeft' = RequesterLeft
            BY <2>1 DEF RequesterLeft
        <2> QED BY <1>1, <1>2, <1>s, <2>2, <2>3, <2>4
    <1>4. CASE Callback
        <2>1. /\ \/ cb.pc = "check" /\ cb'.pc \in {"record", "classify"}
                 \/ cb.pc = "classify" /\ cb'.pc = "begin"
                 \/ cb.pc = "begin" /\ cb'.pc \in {"idle", "report"}
                 \/ cb.pc \in {"record", "report"} /\ cb'.pc = "idle"
              /\ UNCHANGED <<conn, reason, spc>>
            <3>1. CASE CallbackCheck \/ CallbackClassify
                BY <1>0, <3>1 DEF CallbackCheck, CallbackClassify, lifeVars
            <3>2. CASE CallbackRecord \/ CallbackReport
                BY <3>2 DEF CallbackRecord, CallbackReport, NoCall, lifeVars
            <3>3. CASE CallbackBegin
                <4>1. CASE "Terminating" \in gate[cb.of]
                    BY <3>3, <4>1 DEF CallbackBegin, NoCall, lifeVars
                <4>2. CASE "Terminating" \notin gate[cb.of]
                    BY <1>0, <3>3, <4>2 DEF CallbackBegin, lifeVars
                <4> QED BY <4>1, <4>2
            <3> QED BY <1>4, <3>1, <3>2, <3>3 DEF Callback
        <2>2. CallbackPlace' \in Nat /\ CallbackPlace' < CallbackPlace
            BY <2>1 DEF CallbackPlace
        <2>3. ConnectionLeft' = ConnectionLeft /\ RequesterLeft' = RequesterLeft
            BY <2>1 DEF ConnectionLeft, RequesterLeft
        <2>4. OthersLeft' < OthersLeft
            <3>1. OthersLeft' = CallbackPlace' + ConnectionLeft + RequesterLeft
                BY <1>s, <2>3
            <3> QED BY <1>1, <1>s, <2>2, <3>1, SumSmaller
        <2> QED BY <1>2, <2>4
    <1>5. CASE RequestShutdown \/ Requester
        <2>1. /\ \/ reason = "None" /\ reason' # "None" /\ spc' = "notify"
                 \/ /\ reason # "None" /\ reason' = reason
                    /\ \/ spc = "notify" /\ spc' \in {"terminate", "dispatch"}
                       \/ spc \in {"terminate", "dispatch"} /\ spc' = "done"
              /\ UNCHANGED <<conn, cb>>
            BY <1>5 DEF RequestShutdown, Requester, ShutdownNotify, ShutdownTerminate,
               ShutdownDispatch, connVars, IInv, ReasonInv
        <2>2. RequesterLeft' \in Nat /\ RequesterLeft' < RequesterLeft
            BY <2>1 DEF RequesterLeft
        <2>3. ConnectionLeft' = ConnectionLeft /\ CallbackPlace' = CallbackPlace
            BY <2>1 DEF ConnectionLeft, CallbackPlace
        <2>4. OthersLeft' < OthersLeft
            <3>1. OthersLeft' = CallbackPlace + ConnectionLeft + RequesterLeft'
                BY <1>s, <2>3
            <3> QED BY <1>1, <1>s, <2>2, <3>1, SumSmaller
        <2> QED BY <1>2, <2>4
    <1> QED BY <1>3, <1>4, <1>5

\* The callback and the shutdown request set bits of a session that was exec'd.
LEMMA OthersGate ==
    ASSUME IInv, TerminateConnection \/ Callback \/ RequestShutdown \/ Requester,
           NEW s \in Sessions
    PROVE  /\ gate[s] \subseteq gate'[s]
           /\ pc[s] \in {"unborn", "created"} => gate'[s] = gate[s]
    <1>1. gate \in [Sessions -> SUBSET Bits]
        BY Domains DEF IInv
    <1>2. CASE UNCHANGED gate
        BY <1>2
    <1>3. ASSUME NEW t \in Sessions, pc[t] \notin {"unborn", "created"}, NEW g,
                 gate[t] \subseteq g, gate' = [gate EXCEPT ![t] = g]
          PROVE  /\ gate[s] \subseteq gate'[s]
                 /\ pc[s] \in {"unborn", "created"} => gate'[s] = gate[s]
        BY <1>1, <1>3
    <1>4. CASE CallbackBegin
        <2>1. cb.of \in Sessions /\ pc[cb.of] \in ConnectedSteps
            BY <1>4 DEF CallbackBegin, IInv, ConnInv
        <2>2. pc[cb.of] \notin {"unborn", "created"}
            BY <2>1 DEF ConnectedSteps, Windowed
        <2>3. CASE "Terminating" \in gate[cb.of]
            BY <1>2, <1>4, <2>3 DEF CallbackBegin
        <2>4. CASE "Terminating" \notin gate[cb.of]
            <3> DEFINE g == BeginTermination(gate[cb.of], Surface = "recovery",
                                             Surface # "nothing")
            <3>1. gate[cb.of] \subseteq g
                BY DEF BeginTermination
            <3>2. gate' = [gate EXCEPT ![cb.of] = g]
                BY <1>4, <2>4 DEF CallbackBegin
            <3> HIDE DEF g
            <3> QED BY <1>3, <2>1, <2>2, <3>1, <3>2
        <2> QED BY <2>3, <2>4
    <1>5. CASE ShutdownNotify \/ ShutdownTerminate
        <2>1. CASE UNCHANGED gate
            BY <1>2, <2>1
        <2>2. CASE gate' # gate
            <3>1. registered \in Sessions
                BY <1>5, <2>2, Domains DEF ShutdownNotify, ShutdownTerminate, IInv, RegistryInv
            <3>2. pc[registered] \notin {"unborn", "created"}
                BY <3>1 DEF IInv, RegistryInv, RegisteredSteps, Connecting, Windowed, TaskSteps
            <3>3. /\ gate[registered] \subseteq BeginTermination(gate[registered], FALSE, FALSE)
                  /\ gate[registered] \subseteq Cancel(gate[registered])
                BY BitsGrow
            <3> QED BY <1>3, <1>5, <2>2, <3>1, <3>2, <3>3 DEF ShutdownNotify, ShutdownTerminate
        <2> QED BY <2>1, <2>2
    <1>6. CASE \/ TerminateConnection \/ CallbackCheck \/ CallbackRecord \/ CallbackClassify
               \/ CallbackReport \/ RequestShutdown \/ ShutdownDispatch
        BY <1>2, <1>6 DEF TerminateConnection, CallbackCheck, CallbackRecord, CallbackClassify,
           CallbackReport, RequestShutdown, ShutdownDispatch, objectVars
    <1> QED BY <1>4, <1>5, <1>6 DEF Callback, Requester

\* What they leave alone, and what they queue.
LEMMA OthersCalls ==
    ASSUME IInv, TerminateConnection \/ Callback \/ RequestShutdown \/ Requester
    PROVE  UNCHANGED <<pc, ui, cur, deleted, mpc>> /\ Calls(inbox) \subseteq Calls(inbox')
    <1>1. UNCHANGED <<pc, ui, cur, deleted, mpc>>
        BY DEF TerminateConnection, Callback, CallbackCheck, CallbackRecord, CallbackClassify,
           CallbackBegin, CallbackReport, RequestShutdown, Requester, ShutdownNotify,
           ShutdownTerminate, ShutdownDispatch, execVars, uiVars, lifeVars
    <1>2. ASSUME NEW c \in QueuedCalls, inbox' = Append(inbox, c)
          PROVE  Calls(inbox) \subseteq Calls(inbox')
        BY <1>2, CallAppended DEF IInv
    <1>3. CASE CallbackReport
        <2>1. cb.of \in Sessions
            BY <1>3 DEF CallbackReport, IInv, ConnInv
        <2>2. Queued("recovery", cb.of) \in QueuedCalls
            BY <2>1 DEF Queued, QueuedCalls
        <2> QED BY <1>1, <1>2, <1>3, <2>2 DEF CallbackReport
    <1>4. CASE ShutdownDispatch
        <2>1. Queued("quit", NoSession) \in QueuedCalls
            BY DEF Queued, QueuedCalls
        <2> QED BY <1>1, <1>2, <1>4, <2>1 DEF ShutdownDispatch
    <1>5. CASE \/ TerminateConnection \/ CallbackCheck \/ CallbackRecord \/ CallbackClassify
               \/ CallbackBegin \/ RequestShutdown \/ ShutdownNotify \/ ShutdownTerminate
        BY <1>1, <1>5 DEF TerminateConnection, CallbackCheck, CallbackRecord, CallbackClassify,
           CallbackBegin, RequestShutdown, ShutdownNotify, ShutdownTerminate
    <1> QED BY <1>3, <1>4, <1>5 DEF Callback, Requester

\* The main thread sets bits, and moves nobody while a session lives.
LEMMA MainThreadEnding ==
    ASSUME IInv, EndInv, MainThread, NEW s \in Sessions
    PROVE  /\ UNCHANGED <<attempt, cb, conn, reason, requester, spc>>
           /\ Live(s) => pc' = pc
           /\ pc'[s] = pc[s] \/ (pc[s] = "unborn" /\ pc'[s] = "created")
           /\ gate[s] \subseteq gate'[s]
           /\ EndKnown(s)'
    <1>1. UNCHANGED <<attempt, cb, conn, reason, requester, spc>>
        BY DEF MainThread, CreateSession, HandleRecovery, HandleNotify, HandleQuit, UserResume,
           UserDismiss, LeaveEventLoop, Exit, execVars, connVars, lifeVars
    <1>2. /\ gate \in [Sessions -> SUBSET Bits] /\ pc \in [Sessions -> Steps]
          /\ EndKnown(s) /\ (Live(s) => ui = "segue")
          /\ pc[s] = "done" /\ s \notin deleted => cur = s
          /\ ui = "list" <=> cur = NoSession
        BY Domains DEF IInv, EndInv, SegueInv
    <1>3. CASE CreateSession
        <2>1. PICK t \in Sessions : pc[t] = "unborn" /\ pc' = [pc EXCEPT ![t] = "created"]
            BY <1>3 DEF CreateSession, Goto
        <2>2. UNCHANGED <<gate, deleted, inbox>> /\ ui = "list" /\ cur = NoSession
            BY <1>2, <1>3 DEF CreateSession, objectVars
        <2>3. pc[s] # "done" \/ s \in deleted
            BY <1>2, <2>2, NoSessionIsNone
        <2>4. /\ pc'[t] = "created" /\ \A r \in Sessions : r # t => pc'[r] = pc[r]
              /\ mpc' = mpc
            BY <1>2, <1>3, <2>1 DEF CreateSession, lifeVars
        <2>5. EndKnown(s)'
            BY <1>2, <2>1, <2>2, <2>3, <2>4 DEF EndKnown
        <2>6. pc'[s] = pc[s] \/ (pc[s] = "unborn" /\ pc'[s] = "created")
            BY <2>1, <2>4
        <2> QED BY <1>1, <1>2, <2>2, <2>5, <2>6
    <1>4. CASE HandleRecovery \/ HandleQuit
        <2>1. /\ UNCHANGED <<pc, gate, deleted, mpc, ui>>
              /\ inbox # <<>> /\ inbox' = Tail(inbox) /\ Head(inbox).what # "notify"
            BY <1>4 DEF HandleRecovery, HandleQuit, execVars, objectVars, uiVars, lifeVars
        <2>2. Calls(inbox) = {Head(inbox)} \cup Calls(inbox')
            BY <2>1, CallDelivered DEF IInv
        <2>3. Queued("notify", s) \in Calls(inbox) => Queued("notify", s) \in Calls(inbox')
            BY <2>1, <2>2 DEF Queued
        <2>4. EndKnown(s)'
            BY <1>2, <2>1, <2>3 DEF EndKnown
        <2> QED BY <1>1, <2>1, <2>4
    <1>5. CASE HandleNotify
        <2>1. Head(inbox) \in Calls(inbox) /\ Calls(inbox) \subseteq QueuedCalls
            BY <1>5, CallDelivered DEF IInv, HandleNotify
        <2>2. Head(inbox).of = cur
            BY <1>5, <2>1 DEF IInv, InboxInv, HandleNotify, QueuedCalls
        <2>3. UNCHANGED <<pc, gate, mpc>>
            BY <1>5 DEF HandleNotify, execVars, objectVars
        <2>4. \/ ui' = "recovery"
              \/ deleted' = deleted \cup {cur}
            BY <1>5, <2>2 DEF HandleNotify
        <2>5. EndKnown(s)'
            BY <1>2, <2>3, <2>4 DEF EndKnown
        <2> QED BY <1>1, <2>3, <2>5
    <1>6. CASE UserResume
        <2>1. PICK t \in Sessions : pc[t] = "unborn" /\ pc' = [pc EXCEPT ![t] = "created"]
            BY <1>6 DEF UserResume, Goto
        <2>2. /\ deleted' = deleted \cup {cur} /\ ui = "recovery" /\ mpc' = mpc
              /\ gate' = [gate EXCEPT ![cur] = TakeResume(gate[cur])]
            BY <1>6 DEF UserResume
        <2>3. cur \in Sessions /\ pc[cur] = "done"
            BY <2>2, Domains DEF IInv, SegueInv
        <2>4. pc'[t] = "created" /\ \A r \in Sessions : r # t => pc'[r] = pc[r]
            BY <1>2, <2>1
        <2>5. gate[s] \subseteq gate'[s] /\ (gate'[s] = gate[s] \/ s = cur)
            BY <1>2, <2>2, <2>3, BitsGrow
        <2>6. EndKnown(s)'
            BY <1>2, <2>1, <2>2, <2>3, <2>4, <2>5 DEF EndKnown
        <2>7. pc'[s] = pc[s] \/ (pc[s] = "unborn" /\ pc'[s] = "created")
            BY <2>1, <2>4
        <2> QED BY <1>1, <1>2, <2>2, <2>5, <2>6, <2>7
    <1>7. CASE UserDismiss
        <2>1. /\ UNCHANGED <<pc, mpc>> /\ deleted' = deleted \cup {cur} /\ ui = "recovery"
              /\ gate' = [gate EXCEPT ![cur] = Cancel(gate[cur])]
            BY <1>7 DEF UserDismiss, execVars
        <2>2. cur \in Sessions /\ pc[cur] = "done"
            BY <2>1, Domains DEF IInv, SegueInv
        <2>3. gate[s] \subseteq gate'[s] /\ (gate'[s] = gate[s] \/ s = cur)
            BY <1>2, <2>1, <2>2, BitsGrow
        <2>4. EndKnown(s)'
            BY <1>2, <2>1, <2>2, <2>3 DEF EndKnown
        <2> QED BY <1>1, <2>1, <2>3, <2>4
    <1>8. CASE LeaveEventLoop
        <2>1. /\ UNCHANGED <<pc, ui, deleted, inbox>> /\ mpc' = "leaving"
              /\ gate'[s] = IF pc[s] # "unborn" /\ s \notin deleted
                            THEN BeginTermination(Cancel(gate[s]), FALSE, FALSE) ELSE gate[s]
            BY <1>8 DEF LeaveEventLoop, execVars, uiVars
        <2>2. gate[s] \subseteq BeginTermination(Cancel(gate[s]), FALSE, FALSE)
            BY BitsGrow
        <2>3. gate[s] \subseteq gate'[s]
            BY <2>1, <2>2
        <2>4. EndKnown(s)'
            BY <1>2, <2>1 DEF EndKnown
        <2> QED BY <1>1, <2>1, <2>3, <2>4
    <1>9. CASE Exit
        <2>1. UNCHANGED <<pc, gate, ui, deleted, inbox>> /\ mpc' # "loop"
            BY <1>9 DEF Exit, execVars, objectVars, uiVars
        <2>2. EndKnown(s)'
            BY <1>2, <2>1 DEF EndKnown
        <2> QED BY <1>1, <2>1, <2>2
    <1> QED BY <1>3, <1>4, <1>5, <1>6, <1>7, <1>8, <1>9 DEF MainThread

\* Neither the requests nor the endings are lost.
LEMMA EndStep == IInv /\ EndInv /\ [Next]_vars => EndInv'
    <1> SUFFICES ASSUME IInv, EndInv, [Next]_vars PROVE EndInv'
        OBVIOUS
    <1>1. ASSUME NEW s \in Sessions, Progress(s) \/ Stimulus(s) PROVE EndInv'
        <2>1. RequestKnown'
            BY <1>1, OwnFrame DEF EndInv, RequestKnown, RequestAppExit
        <2>2. ASSUME NEW t \in Sessions PROVE EndKnown(t)'
            <3>1. UNCHANGED <<ui, deleted, mpc>> /\ EndKnown(t)
                BY <1>1, OwnFrame DEF EndInv
            <3>2. CASE t = s
                BY <1>1, <3>1, <3>2, OwnCalls DEF EndKnown
            <3>3. CASE t # s
                <4>1. /\ pc'[t] = pc[t] /\ gate'[t] = gate[t]
                      /\ Calls(inbox) \subseteq Calls(inbox')
                    BY <1>1, <3>3, OwnCalls, OwnGate
                <4> QED BY <3>1, <4>1 DEF EndKnown
            <3> QED BY <3>2, <3>3
        <2> QED BY <2>1, <2>2 DEF EndInv
    <1>2. CASE MainThread
        <2>1. RequestKnown'
            <3>1. UNCHANGED <<reason, requester, spc>>
                BY <1>2 DEF MainThread, CreateSession, HandleRecovery, HandleNotify, HandleQuit,
                   UserResume, UserDismiss, LeaveEventLoop, Exit, lifeVars
            <3> QED BY <3>1 DEF EndInv, RequestKnown
        <2> QED BY <1>2, <2>1, MainThreadEnding DEF EndInv
    <1>3. CASE TerminateConnection \/ Callback \/ RequestShutdown \/ Requester
        <2>1. RequestKnown'
            BY <1>3 DEF TerminateConnection, Callback, CallbackCheck, CallbackRecord,
               CallbackClassify, CallbackBegin, CallbackReport, RequestShutdown, Requester,
               ShutdownNotify, ShutdownTerminate, ShutdownDispatch, lifeVars, EndInv, RequestKnown
        <2>2. ASSUME NEW t \in Sessions PROVE EndKnown(t)'
            <3>1. /\ UNCHANGED <<pc, ui, deleted, mpc>> /\ EndKnown(t)
                  /\ Calls(inbox) \subseteq Calls(inbox')
                BY <1>3, OthersCalls DEF EndInv
            <3>2. pc[t] \in {"unborn", "created"} => gate'[t] = gate[t]
                BY <1>3, OthersGate
            <3> QED BY <3>1, <3>2 DEF EndKnown
        <2> QED BY <2>1, <2>2 DEF EndInv
    <1>4. CASE HostChanges \/ UNCHANGED vars
        <2>1. UNCHANGED <<pc, gate, ui, deleted, inbox, mpc, reason, requester, spc>>
            BY <1>4 DEF HostChanges, vars, execVars, objectVars, uiVars, lifeVars
        <2> QED BY <2>1 DEF EndInv, RequestKnown, EndKnown
    <1> QED BY <1>1, <1>2, <1>3, <1>4 DEF Next, Exited

LEMMA EndingAttendedInv ==
    IInv /\ EndInv => EndingAttended /\ \A s \in Sessions : StepsLeft(s) \in Nat
    <1> SUFFICES ASSUME IInv, EndInv, NEW s \in Sessions
                 PROVE  /\ StepsLeft(s) \in Nat
                        /\ "Terminating" \in gate[s] =>
                              /\ pc[s] = "created" => mpc # "loop"
                              /\ pc[s] = "waiting" => slot = NoSession
                              /\ pc[s] \in {"quitting", "exiting"} =>
                                     \/ RequestReturned(s)
                                     \/ spc \in {"notify", "terminate", "dispatch"}
                              /\ pc[s] = "done" =>
                                     \/ s \in deleted
                                     \/ ui = "recovery" /\ cur = s
                                     \/ Queued("notify", s) \in Calls(inbox)
        BY DEF EndingAttended
    <1>1. StepsLeft(s) \in Nat
        <2>1. Way(pc[s]) \in Nat
            BY WayIsNat, Domains DEF IInv
        <2>2. 4 * (MaxAttempts - attempt[s]) \in Nat
            BY RoundsType, Domains DEF IInv
        <2>3. RoundsLeft(s) \in Nat
            BY <2>2 DEF RoundsLeft
        <2> QED BY <2>1, <2>3 DEF StepsLeft
    <1>2. "Terminating" \in gate[s] /\ pc[s] = "created" => mpc # "loop"
        BY DEF EndInv, EndKnown
    <1>3. pc[s] = "waiting" => slot = NoSession
        <2> SUFFICES ASSUME pc[s] = "waiting", slot \in Sessions PROVE FALSE
            BY Domains DEF IInv
        <2>1. pc[slot] \in HoldingSteps
            BY DEF IInv, SlotInv
        <2>2. Live(slot) /\ Live(s) /\ slot # s
            BY <2>1 DEF Live, HoldingSteps, ActiveSteps, Windowed, TaskSteps
        <2> QED BY <2>2, OthersSettled
    <1>4. pc[s] \in {"quitting", "exiting"} =>
              RequestReturned(s) \/ spc \in {"notify", "terminate", "dispatch"}
        <2>1. spc \in {"idle", "notify", "terminate", "dispatch", "done"}
            BY DEF IInv, TypeOK
        <2>2. requester = s => spc # "idle"
            BY NoSessionIsNone DEF EndInv, RequestKnown
        <2> QED BY <2>1, <2>2 DEF RequestReturned
    <1>5. pc[s] = "done" =>
              \/ s \in deleted
              \/ ui = "recovery" /\ cur = s
              \/ Queued("notify", s) \in Calls(inbox)
        BY DEF EndInv, EndKnown, IInv, SegueInv
    <1> QED BY <1>1, <1>2, <1>3, <1>4, <1>5

LEMMA EndingStep == IInv /\ EndInv /\ [Next]_vars => EndingNearer
    <1> SUFFICES ASSUME IInv, EndInv, [Next]_vars, NEW s \in Sessions,
                        "Terminating" \in gate[s], Live(s)
                 PROVE  /\ "Terminating" \in gate'[s]
                        /\ IF Progress(s) \/ Stimulus(s) THEN StepsLeft(s)' < StepsLeft(s)
                           ELSE /\ pc'[s] = pc[s] /\ attempt'[s] = attempt[s]
                                /\ OthersLeft' <= OthersLeft
                        /\ TerminateConnection \/ Callback \/ RequestShutdown \/ Requester =>
                               OthersLeft' < OthersLeft
        BY DEF EndingNearer
    <1>1. TerminateConnection \/ Callback \/ RequestShutdown \/ Requester =>
              OthersLeft' < OthersLeft
        BY OthersNearer
    <1>2. Progress(s) \/ Stimulus(s) => StepsLeft(s)' < StepsLeft(s)
        BY SessionNearer DEF MustLeave
    <1>3. OthersLeft \in Nat /\ OthersLeft' \in Nat
        BY DEF OthersLeft, CallbackPlace, ConnectionLeft, RequesterLeft
    <1>4. CASE Progress(s) \/ Stimulus(s)
        BY <1>1, <1>2, <1>4, OwnGate
    <1>5. CASE ~(Progress(s) \/ Stimulus(s))
        <2>1. CASE TerminateConnection \/ Callback \/ RequestShutdown \/ Requester
            <3>1. "Terminating" \in gate'[s] /\ UNCHANGED <<pc, attempt>>
                BY <2>1, OthersNearer, OthersGate
            <3>2. OthersLeft' < OthersLeft
                BY <2>1, <1>1
            <3>3. OthersLeft' <= OthersLeft
                BY <1>3, <3>2
            <3> QED BY <1>1, <1>5, <3>1, <3>3
        <2>2. CASE MainThread
            <3>1. /\ UNCHANGED <<attempt, cb, conn, reason, spc, pc>>
                  /\ "Terminating" \in gate'[s]
                BY <2>2, MainThreadEnding
            <3>2. OthersLeft' = OthersLeft
                BY <3>1 DEF OthersLeft, CallbackPlace, ConnectionLeft, RequesterLeft
            <3> QED BY <1>1, <1>3, <1>5, <3>1, <3>2
        <2>3. CASE HostChanges \/ UNCHANGED vars
            <3>1. UNCHANGED <<attempt, cb, conn, reason, spc, pc, gate>>
                BY <2>3 DEF HostChanges, vars, execVars, objectVars, connVars, lifeVars
            <3>2. OthersLeft' = OthersLeft
                BY <3>1 DEF OthersLeft, CallbackPlace, ConnectionLeft, RequesterLeft
            <3> QED BY <1>1, <1>3, <1>5, <3>1, <3>2
        <2>4. ASSUME NEW t \in Sessions, Progress(t) \/ Stimulus(t) PROVE FALSE
            BY <1>5, <2>4, OwnCalls, OthersSettled
        <2> QED BY <2>1, <2>2, <2>3, <2>4 DEF Next, Exited
    <1> QED BY <1>4, <1>5

\* The safety half of EndingCompletes.  A session that is terminating, for any number of
\* sessions and attempts, is never stuck (EndingAttended): its own steps, those of the
\* window included, bring it to the end of its cleanup, and what they may wait for, the
\* callback and the shutdown request, comes to its end as well; nobody else sets it back
\* (exec(), DispatchDeferredCleanup, clConnectionTerminated, requestApplicationExit).
THEOREM EndingsCountDown ==
    Spec => /\ [](EndingAttended /\ \A s \in Sessions : StepsLeft(s) \in Nat)
            /\ [][EndingNearer]_vars
    <1>1. Init => EndInv
        BY DEF Init, EndInv, RequestKnown, EndKnown
    <1>2. IInv /\ EndInv /\ [Next]_vars => [EndingNearer]_vars
        BY EndingStep
    <1> QED BY <1>1, <1>2, EndStep, EndingAttendedInv, Invariance, PTL DEF Spec

----------------------------------------------------------------------------
(* A stream that was lost is offered again *)

\* A session whose task is done is cleaned.
FinishedInv ==
    \A s \in Sessions : pc[s] \in FinishedSteps => "Cleaned" \in gate[s]

LEMMA FinishedStep == IInv /\ EndInv /\ FinishedInv /\ [Next]_vars => FinishedInv'
    <1> SUFFICES ASSUME IInv, EndInv, FinishedInv, [Next]_vars, NEW s \in Sessions,
                        pc'[s] \in FinishedSteps
                 PROVE  "Cleaned" \in gate'[s]
        BY DEF FinishedInv
    <1>1. ASSUME NEW t \in Sessions, Progress(t) \/ Stimulus(t) PROVE "Cleaned" \in gate'[s]
        BY <1>1, OwnCalls, OwnGate DEF FinishedInv
    <1>2. ASSUME pc'[s] = pc[s], gate[s] \subseteq gate'[s] PROVE "Cleaned" \in gate'[s]
        BY <1>2 DEF FinishedInv
    <1>3. CASE MainThread
        BY <1>2, <1>3, MainThreadEnding DEF FinishedSteps
    <1>4. CASE TerminateConnection \/ Callback \/ RequestShutdown \/ Requester
        BY <1>2, <1>4, OthersCalls, OthersGate
    <1>5. CASE HostChanges \/ UNCHANGED vars
        BY <1>2, <1>5 DEF HostChanges, vars, execVars, objectVars
    <1> QED BY <1>1, <1>3, <1>4, <1>5 DEF Next, Exited

\* A session that lost its stream, and that nobody has ended, is let go only from the
\* dialog that offers it again.
LostIsOffered ==
    \A s \in Sessions :
        s \in deleted' \ deleted /\ "Recoverable" \in gate[s] /\ gate[s] \cap Ended = {} =>
            ui = "recovery" /\ cur = s

LostAreOffered == [][LostIsOffered]_vars

\* The safety half of BreakOffersResume, for any number of sessions.  However the recovery
\* text, the completion and a shutdown race, when the completion of a session that lost
\* its stream is delivered its text has been, so that the dialog opens (sessionFinished
\* of the segue, canResume()).
THEOREM LostStreamsOffered == Spec => LostAreOffered
    <1>1. ASSUME IInv, EndInv, FinishedInv, [Next]_vars, NEW s \in Sessions,
                 s \in deleted' \ deleted, "Recoverable" \in gate[s], gate[s] \cap Ended = {}
          PROVE  ui = "recovery" /\ cur = s
        <2>1. CASE UserResume \/ UserDismiss
            BY <1>1, <2>1 DEF UserResume, UserDismiss
        <2>2. CASE HandleNotify
            <3>1. Head(inbox) \in Calls(inbox) /\ Calls(inbox) \subseteq QueuedCalls
                  /\ Head(inbox).what = "notify"
                BY <1>1, <2>2, CallDelivered DEF IInv, HandleNotify
            <3>2. Head(inbox).of = s /\ pc[s] = "done"
                <4>1. Head(inbox).of = s
                    BY <1>1, <2>2 DEF HandleNotify
                <4> QED BY <1>1, <3>1, <4>1 DEF IInv, InboxInv
            <3>3. MayResume(gate[s])
                BY <1>1, <3>2 DEF FinishedInv, FinishedSteps, MayResume, Ended
            <3>4. Queued("recovery", s) \notin Calls(inbox)
                <4>1. /\ Calls(inbox) = {Head(inbox)} \cup Calls(inbox')
                      /\ \A c \in Calls(inbox') : c.what = "quit"
                    BY <1>1, <2>2, <3>1, CallDelivered DEF IInv, InboxInv, HandleNotify
                <4> QED BY <3>1, <4>1 DEF Queued
            <3>5. ~(cb.pc = "report" /\ cb.of = s)
                BY <1>1, <3>2 DEF IInv, ConnInv, ConnectedSteps, Windowed
            <3>6. s \in recoveryText
                BY <1>1, <3>4, <3>5 DEF IInv, TextInv
            <3>7. deleted' = deleted
                BY <2>2, <3>2, <3>3, <3>6 DEF HandleNotify
            <3> QED BY <1>1, <3>7
        <2>3. CASE CreateSession \/ HandleRecovery \/ HandleQuit \/ LeaveEventLoop \/ Exit
                   \/ HostChanges \/ UNCHANGED vars
            BY <1>1, <2>3 DEF CreateSession, HandleRecovery, HandleQuit, LeaveEventLoop, Exit,
               HostChanges, vars, uiVars
        <2>4. CASE TerminateConnection \/ Callback \/ RequestShutdown \/ Requester
            BY <1>1, <2>4, OthersCalls
        <2>5. ASSUME NEW t \in Sessions, Progress(t) \/ Stimulus(t) PROVE FALSE
            BY <1>1, <2>5, OwnFrame
        <2> QED BY <1>1, <2>1, <2>2, <2>3, <2>4, <2>5 DEF Next, MainThread, Exited
    <1>2. IInv /\ EndInv /\ FinishedInv /\ [Next]_vars => LostIsOffered
        BY <1>1 DEF LostIsOffered
    <1>3. Init => EndInv /\ FinishedInv
        BY DEF Init, EndInv, RequestKnown, EndKnown, FinishedInv, FinishedSteps
    <1> QED BY <1>2, <1>3, EndStep, FinishedStep, Invariance, PTL DEF Spec, LostAreOffered

----------------------------------------------------------------------------
(* A shutdown request is heard *)

\* Once the request has been passed on, whoever is exec'd is terminating.
MarkedInv ==
    spc \in {"dispatch", "done"} =>
        \A s \in Sessions : Live(s) /\ pc[s] # "created" => "Terminating" \in gate[s]

\* A session that will make the application quit when its completion is delivered
WillQuit(s) ==
    /\ "AppExit" \in flag[s]
    /\ (Live(s) /\ pc[s] # "created") \/ Queued("notify", s) \in Calls(inbox)

HeardInv ==
    /\ spc = "terminate" => "AppExit" \in flag[registered]
    /\ spc = "done" =>
           \/ quitting \/ mpc # "loop" \/ Queued("quit", NoSession) \in Calls(inbox)
           \/ \E s \in Sessions : WillQuit(s)

LEMMA MarkedStep == IInv /\ EndInv /\ MarkedInv /\ [Next]_vars => MarkedInv'
    <1> SUFFICES ASSUME IInv, EndInv, MarkedInv, [Next]_vars, spc' \in {"dispatch", "done"},
                        NEW s \in Sessions, Live(s)', pc'[s] # "created"
                 PROVE  "Terminating" \in gate'[s]
        BY DEF MarkedInv
    <1>1. ASSUME Live(s), pc[s] # "created", spc' = spc, gate[s] \subseteq gate'[s]
          PROVE  "Terminating" \in gate'[s]
        BY <1>1 DEF MarkedInv
    <1>2. ASSUME NEW t \in Sessions, Progress(t) \/ Stimulus(t) PROVE "Terminating" \in gate'[s]
        <2>1. spc' = spc
            BY <1>2, OwnFrame DEF RequestAppExit
        <2>2. gate[s] \subseteq gate'[s]
            BY <1>2, OwnGate
        <2>3. Live(s)
            <3>1. CASE s = t
                BY <1>2, <3>1, OwnCalls
            <3>2. CASE s # t
                BY <1>2, <3>2, OwnCalls DEF Live
            <3> QED BY <3>1, <3>2
        <2>4. CASE pc[s] # "created"
            BY <1>1, <2>1, <2>2, <2>3, <2>4
        <2>5. CASE pc[s] = "created"
            <3>1. s = t
                BY <1>2, <2>5, OwnCalls
            <3>2. Exec(s)
                BY <1>2, <2>5, <3>1 DEF Progress, Stimulus, Initialize, AcquireSlot,
                   PrepareConnection, Launch, CheckLaunched, StartConnection, StartReturns,
                   JudgeAttempt, Backoff, EndAttempts, ConnectionStarted, OpenWindow,
                   SeeTermination, HandleEvent, FinishCancel, FinishQuit, FinishSystemQuit,
                   QuitLoop, Teardown, BeginCleanupTask, StopConnection, Decide, AskHost,
                   QuitHostApp, Complete, Unregister, ClearActive, ReleaseSlot, TakeEvent,
                   WakeFromSuspend, UserCancel, UserQuit, SystemQuit, CloseWindow, DecoderFails
            <3>3. reason # "None"
                BY <2>1 DEF IInv, ReasonInv
            <3>4. gate' = [gate EXCEPT ![s] = BeginTermination(Cancel(gate[s]), FALSE, FALSE)]
                BY <3>2, <3>3 DEF Exec, ExitRequestedBefore
            <3>5. gate'[s] = BeginTermination(Cancel(gate[s]), FALSE, FALSE)
                BY <3>4, Domains DEF IInv
            <3>6. BeginTermination(Cancel(gate[s]), FALSE, FALSE)
                      = Cancel(gate[s]) \cup {"Terminating"}
                BY TerminationBits
            <3> QED BY <3>5, <3>6
        <2> QED BY <2>4, <2>5
    <1>3. CASE MainThread
        <2>1. /\ spc' = spc /\ gate[s] \subseteq gate'[s] /\ pc'[s] = pc[s]
            BY <1>3, MainThreadEnding
        <2> QED BY <1>1, <2>1 DEF Live
    <1>4. CASE HostChanges \/ UNCHANGED vars
        BY <1>1, <1>4 DEF HostChanges, vars, execVars, objectVars, lifeVars, Live
    <1>5. CASE TerminateConnection \/ Callback \/ RequestShutdown \/ Requester
        <2>1. UNCHANGED pc /\ gate[s] \subseteq gate'[s]
            BY <1>5, OthersCalls, OthersGate
        <2>2. CASE spc' = spc
            BY <1>1, <2>1, <2>2 DEF Live
        <2>3. CASE spc' # spc
            <3>1. ShutdownNotify \/ ShutdownTerminate \/ (spc = "dispatch" /\ ShutdownDispatch)
                BY <1>5, <2>3 DEF TerminateConnection, Callback, CallbackCheck, CallbackRecord,
                   CallbackClassify, CallbackBegin, CallbackReport, RequestShutdown, Requester,
                   ShutdownDispatch, lifeVars
            <3>2. pc[s] \in RegisteredSteps \/ pc[s] \in {"clearing", "releasing"}
                BY <2>1, Domains DEF Live, RegisteredSteps, IInv, Steps
            <3>3. CASE pc[s] \in {"clearing", "releasing"}
                BY <2>1, <3>3 DEF IInv, CleanedInv, TaskSteps
            <3>4. CASE pc[s] \in RegisteredSteps /\ (ShutdownNotify \/ ShutdownTerminate)
                <4>1. registered = s /\ registered # NoSession
                    BY <3>4, NoSessionIsNone DEF IInv, RegistryInv
                <4>2. ShutdownTerminate
                    BY <3>4, <4>1 DEF ShutdownNotify
                <4>3. gate' = [gate EXCEPT ![s] = BeginTermination(gate[s], FALSE, FALSE)]
                    BY <4>1, <4>2 DEF ShutdownTerminate
                <4>4. gate'[s] = BeginTermination(gate[s], FALSE, FALSE)
                    BY <4>3, Domains DEF IInv
                <4>5. BeginTermination(gate[s], FALSE, FALSE) = gate[s] \cup {"Terminating"}
                    BY TerminationBits
                <4> QED BY <4>4, <4>5
            <3>5. CASE spc = "dispatch"
                BY <2>1, <3>5 DEF MarkedInv, Live
            <3> QED BY <3>1, <3>2, <3>3, <3>4, <3>5
        <2> QED BY <2>2, <2>3
    <1> QED BY <1>2, <1>3, <1>4, <1>5 DEF Next, Exited

\* The mark of an application exit is never lowered.
LEMMA AppExitKept ==
    ASSUME IInv, [Next]_vars, NEW s \in Sessions, "AppExit" \in flag[s]
    PROVE  "AppExit" \in flag'[s]
    <1>1. flag \in [Sessions -> SUBSET Flags]
        BY Domains DEF IInv
    <1>2. CASE UNCHANGED flag
        BY <1>2
    <1>3. ASSUME NEW t, NEW F, flag' = [flag EXCEPT ![t] = flag[t] \cup F]
          PROVE  "AppExit" \in flag'[s]
        BY <1>1, <1>3
    <1>4. ASSUME NEW t, NEW F, "AppExit" \notin F, flag' = [flag EXCEPT ![t] = flag[t] \ F]
          PROVE  "AppExit" \in flag'[s]
        BY <1>1, <1>4
    <1>5. ASSUME NEW t \in Sessions, Progress(t) \/ Stimulus(t) PROVE "AppExit" \in flag'[s]
        <2>1. CASE UNCHANGED flag
            BY <1>2, <2>1
        <2>2. CASE flag' # flag
            <3>1. \/ Exec(t) \/ PrepareConnection(t) \/ StartConnection(t) \/ EndAttempts(t)
                  \/ ConnectionStarted(t) \/ OpenWindow(t) \/ FinishSystemQuit(t)
                  \/ StopConnection(t) \/ WakeFromSuspend(t) \/ UserCancel(t) \/ UserQuit(t)
                  \/ CloseWindow(t)
                BY <1>5, <2>2 DEF Progress, Stimulus, Initialize, AcquireSlot, Launch,
                   CheckLaunched, StartReturns, JudgeAttempt, Backoff, SeeTermination,
                   HandleEvent, FinishCancel, FinishQuit, QuitLoop, Teardown, BeginCleanupTask,
                   Decide, AskHost, QuitHostApp, Complete, Unregister, ClearActive,
                   ReleaseSlot, TakeEvent, SystemQuit, DecoderFails, objectVars
            <3>2. \/ \E F : flag' = [flag EXCEPT ![t] = flag[t] \cup F]
                  \/ \E F : "AppExit" \notin F /\ flag' = [flag EXCEPT ![t] = flag[t] \ F]
                <4>1. CASE Exec(t) \/ PrepareConnection(t)
                    <5>1. \/ flag' = [flag EXCEPT ![t] = flag[t] \cup ExitMarks]
                          \/ flag' = [flag EXCEPT ![t] = flag[t] \cup {"Suppress"}]
                        BY <2>2, <4>1 DEF Exec, PrepareConnection, Raise
                    <5> QED BY <5>1
                <4>3. CASE ConnectionStarted(t) \/ FinishSystemQuit(t) \/ WakeFromSuspend(t)
                    BY <4>3 DEF ConnectionStarted, FinishSystemQuit, WakeFromSuspend, Raise
                <4>4. CASE UserCancel(t) \/ UserQuit(t) \/ CloseWindow(t)
                    BY <4>4 DEF UserCancel, UserQuit, CloseWindow, Raise
                <4>2. CASE \/ StartConnection(t) \/ EndAttempts(t) \/ OpenWindow(t)
                           \/ StopConnection(t)
                    BY <2>2, <4>2 DEF StartConnection, EndAttempts, OpenWindow, StopConnection,
                       Lower
                <4> QED BY <3>1, <4>1, <4>2, <4>3, <4>4
            <3> QED BY <1>3, <1>4, <3>2
        <2> QED BY <2>1, <2>2
    <1>6. CASE UserDismiss
        BY <1>3, <1>6 DEF UserDismiss, Raise
    <1>7. CASE LeaveEventLoop
        BY <1>7 DEF LeaveEventLoop
    <1>8. CASE CallbackRecord \/ CallbackReport
        BY <1>1, <1>8 DEF CallbackRecord, CallbackReport, Raise
    <1>9. CASE ShutdownNotify
        BY <1>2, <1>3, <1>9 DEF ShutdownNotify, Raise
    <1>10. CASE \/ CreateSession \/ HandleRecovery \/ HandleNotify \/ HandleQuit \/ UserResume
                \/ Exit \/ TerminateConnection \/ CallbackCheck \/ CallbackClassify
                \/ CallbackBegin \/ RequestShutdown \/ ShutdownTerminate \/ ShutdownDispatch
                \/ HostChanges \/ UNCHANGED vars
        BY <1>2, <1>10 DEF CreateSession, HandleRecovery, HandleNotify, HandleQuit, UserResume,
           Exit, TerminateConnection, CallbackCheck, CallbackClassify, CallbackBegin,
           RequestShutdown, ShutdownTerminate, ShutdownDispatch, HostChanges, vars, objectVars
    <1> QED BY <1>5, <1>6, <1>7, <1>8, <1>9, <1>10 DEF Next, MainThread, Callback, Requester,
               Exited

LEMMA HeardStep == IInv /\ EndInv /\ HeardInv /\ [Next]_vars => HeardInv'
    <1> SUFFICES ASSUME IInv, EndInv, HeardInv, [Next]_vars PROVE HeardInv'
        OBVIOUS
    <1>1. ASSUME UNCHANGED <<spc, registered>>, quitting => quitting',
                 mpc # "loop" => mpc' # "loop",
                 Queued("quit", NoSession) \in Calls(inbox) =>
                     quitting' \/ Queued("quit", NoSession) \in Calls(inbox'),
                 \A s \in Sessions : WillQuit(s) => quitting' \/ WillQuit(s)'
          PROVE  HeardInv'
        <2>1. spc' = "terminate" => "AppExit" \in flag'[registered']
            <3> SUFFICES ASSUME spc' = "terminate" PROVE "AppExit" \in flag'[registered']
                OBVIOUS
            <3>1. registered \in Sessions /\ "AppExit" \in flag[registered]
                BY <1>1, Domains DEF HeardInv, IInv, RegistryInv
            <3> QED BY <1>1, <3>1, AppExitKept
        <2> QED BY <1>1, <2>1 DEF HeardInv
    <1>2. ASSUME NEW s \in Sessions, Progress(s) \/ Stimulus(s) PROVE HeardInv'
        <2>1. /\ Calls(inbox) \subseteq Calls(inbox') /\ UNCHANGED <<mpc, quitting>>
              /\ spc' \in {spc, "notify"}
            BY <1>2, OwnCalls, OwnFrame DEF RequestAppExit
        <2>2. ASSUME NEW t \in Sessions, WillQuit(t) PROVE WillQuit(t)'
            <3>1. "AppExit" \in flag'[t]
                BY <2>2, AppExitKept DEF WillQuit
            <3>2. CASE Queued("notify", t) \in Calls(inbox)
                BY <2>1, <3>1, <3>2 DEF WillQuit
            <3>3. CASE Live(t) /\ pc[t] # "created"
                <4>1. t = s
                    BY <1>2, <3>3, OwnCalls, OthersSettled
                <4> QED BY <1>2, <3>1, <4>1, OwnCalls DEF WillQuit, Live
            <3> QED BY <2>2, <3>2, <3>3 DEF WillQuit
        <2>3. CASE spc' = "notify" /\ spc' # spc
            BY <2>3 DEF HeardInv
        <2>4. CASE spc' = spc /\ registered' = registered
            BY <1>1, <2>1, <2>2, <2>4
        <2>5. CASE spc' = spc /\ registered' # registered
            <3>1. Exec(s) \/ Initialize(s) \/ Unregister(s)
                BY <1>2, <2>5 DEF Progress, Stimulus, AcquireSlot,
                   PrepareConnection, Launch, CheckLaunched, StartConnection, StartReturns,
                   JudgeAttempt, Backoff, EndAttempts, ConnectionStarted, OpenWindow,
                   SeeTermination, HandleEvent, FinishCancel, FinishQuit, FinishSystemQuit,
                   QuitLoop, Teardown, BeginCleanupTask, StopConnection, Decide, AskHost,
                   QuitHostApp, Complete, ClearActive, ReleaseSlot, TakeEvent,
                   WakeFromSuspend, UserCancel, UserQuit, SystemQuit, CloseWindow,
                   DecoderFails, lifeVars
            <3>2. spc # "terminate"
                BY <2>5, <3>1 DEF Exec, Initialize, Unregister, RegistryUnlocked, MayUnregister
            <3> QED BY <2>1, <2>2, <2>5, <3>2 DEF HeardInv
        <2> QED BY <2>1, <2>3, <2>4, <2>5
    <1>3. CASE MainThread
        <2>0. UNCHANGED <<spc, registered>> /\ (quitting => quitting')
            <3>1. CASE HandleNotify
                <4>1. UNCHANGED <<spc, registered>>
                    BY <3>1, SMT DEF HandleNotify, lifeVars
                <4>2. quitting => quitting'
                    BY <3>1, Zenon DEF HandleNotify
                <4> QED BY <4>1, <4>2
            <3>2. CASE HandleQuit
                BY <3>2, SMT DEF HandleQuit, lifeVars
            <3>3. CASE \/ CreateSession \/ HandleRecovery \/ UserResume \/ UserDismiss
                       \/ LeaveEventLoop \/ Exit
                <4>1. UNCHANGED spc
                    BY <3>3 DEF CreateSession, HandleRecovery, UserResume, UserDismiss,
                       LeaveEventLoop, Exit, lifeVars
                <4>2. UNCHANGED registered
                    BY <3>3 DEF CreateSession, HandleRecovery, UserResume, UserDismiss,
                       LeaveEventLoop, Exit, lifeVars
                <4>3. UNCHANGED quitting
                    <5>1. CASE CreateSession
                        BY <5>1 DEF CreateSession, lifeVars
                    <5>2. CASE HandleRecovery \/ UserResume \/ UserDismiss
                        BY <5>2 DEF HandleRecovery, UserResume, UserDismiss, lifeVars
                    <5>3. CASE LeaveEventLoop
                        BY <5>3, Zenon DEF LeaveEventLoop
                    <5>4. CASE Exit
                        BY <5>4, Zenon DEF Exit
                    <5> QED BY <3>3, <5>1, <5>2, <5>3, <5>4
                <4> QED BY <4>1, <4>2, <4>3, Zenon
            <3> QED BY <1>3, <3>1, <3>2, <3>3 DEF MainThread
        <2>1. mpc # "loop" => mpc' # "loop"
            BY <1>3 DEF MainThread, CreateSession, HandleRecovery, HandleNotify, HandleQuit,
               UserResume, UserDismiss, LeaveEventLoop, Exit, lifeVars
        <2>2. \/ quitting' \/ inbox' = inbox
              \/ /\ inbox # <<>> /\ inbox' = Tail(inbox) /\ Head(inbox).what # "quit"
                 /\ \/ Head(inbox).what # "notify"
                    \/ "AppExit" \notin flag[Head(inbox).of]
            BY <1>3 DEF MainThread, CreateSession, HandleRecovery, HandleNotify, HandleQuit,
               UserResume, UserDismiss, LeaveEventLoop, Exit, ExitClient
        <2>3. CASE quitting'
            BY <1>1, <2>0, <2>1, <2>3
        <2>4. CASE ~quitting'
            <3>1. inbox # <<>> /\ inbox' = Tail(inbox) =>
                      Calls(inbox) = {Head(inbox)} \cup Calls(inbox')
                BY CallDelivered DEF IInv
            <3>2. Queued("quit", NoSession) \in Calls(inbox) =>
                      Queued("quit", NoSession) \in Calls(inbox')
                BY <2>2, <2>4, <3>1 DEF Queued
            <3>3. ASSUME NEW s \in Sessions, WillQuit(s) PROVE WillQuit(s)'
                <4>1. "AppExit" \in flag'[s]
                    BY <3>3, AppExitKept DEF WillQuit
                <4>2. CASE Live(s) /\ pc[s] # "created"
                    BY <1>3, <4>1, <4>2, MainThreadEnding DEF WillQuit, Live
                <4>3. CASE Queued("notify", s) \in Calls(inbox)
                    <5>1. Queued("notify", s) \in Calls(inbox')
                        BY <2>2, <2>4, <3>1, <3>3, <4>3 DEF Queued, WillQuit
                    <5> QED BY <4>1, <5>1 DEF WillQuit
                <4> QED BY <3>3, <4>2, <4>3 DEF WillQuit
            <3> QED BY <1>1, <2>0, <2>1, <3>2, <3>3
        <2> QED BY <2>3, <2>4
    <1>4. CASE HostChanges \/ UNCHANGED vars
        <2>1. UNCHANGED <<pc, flag, inbox, spc, registered, quitting, mpc>>
            BY <1>4 DEF HostChanges, vars, execVars, objectVars, lifeVars
        <2> QED BY <2>1 DEF HeardInv, WillQuit, Live
    <1>5. CASE TerminateConnection \/ Callback \/ RequestShutdown \/ Requester
        <2>1. /\ UNCHANGED <<pc, mpc>> /\ Calls(inbox) \subseteq Calls(inbox')
              /\ UNCHANGED <<quitting, registered>>
            BY <1>5, OthersCalls DEF TerminateConnection, Callback, CallbackCheck,
               CallbackRecord, CallbackClassify, CallbackBegin, CallbackReport,
               RequestShutdown, Requester, ShutdownNotify, ShutdownTerminate,
               ShutdownDispatch, lifeVars
        <2>2. ASSUME NEW t \in Sessions, WillQuit(t) PROVE WillQuit(t)'
            <3>1. "AppExit" \in flag'[t]
                BY <2>2, AppExitKept DEF WillQuit
            <3> QED BY <2>1, <2>2, <3>1 DEF WillQuit, Live
        <2>3. CASE spc' = spc
            BY <1>1, <2>1, <2>2, <2>3
        <2>4. CASE spc' # spc
            <3>1. \/ spc' = "notify" \/ ShutdownNotify \/ ShutdownTerminate \/ ShutdownDispatch
                BY <1>5, <2>4 DEF TerminateConnection, Callback, CallbackCheck,
                   CallbackRecord, CallbackClassify, CallbackBegin, CallbackReport,
                   RequestShutdown, Requester, lifeVars
            <3>2. CASE spc' = "notify"
                BY <3>2 DEF HeardInv
            <3>3. CASE ShutdownNotify /\ spc' # "notify"
                <4>1. CASE registered = NoSession
                    <5>1. spc' = "dispatch"
                        BY <3>3, <4>1 DEF ShutdownNotify
                    <5> QED BY <5>1 DEF HeardInv
                <4>2. CASE registered # NoSession
                    <5>1. /\ spc' = "terminate" /\ registered \in Sessions
                          /\ flag' = [flag EXCEPT ![registered] = flag[registered] \cup ExitMarks]
                        BY <3>3, <4>2, Domains DEF ShutdownNotify, Raise, IInv
                    <5>2. "AppExit" \in flag'[registered]
                        BY <5>1, Domains DEF IInv, ExitMarks
                    <5> QED BY <2>1, <5>1, <5>2 DEF HeardInv
                <4> QED BY <4>1, <4>2
            <3>4. CASE ShutdownTerminate
                <4>1. spc = "terminate" /\ spc' = "done"
                    BY <3>4 DEF ShutdownTerminate
                <4>2. registered \in Sessions /\ pc[registered] \in RegisteredSteps
                    BY <4>1, Domains DEF IInv, RegistryInv
                <4>3. WillQuit(registered)
                    BY <4>1, <4>2 DEF HeardInv, WillQuit, Live, RegisteredSteps, Connecting,
                       Windowed, TaskSteps
                <4> QED BY <2>2, <4>1, <4>2, <4>3 DEF HeardInv
            <3>5. CASE ShutdownDispatch
                <4>1. inbox' = Append(inbox, Queued("quit", NoSession)) /\ spc' = "done"
                    BY <3>5 DEF ShutdownDispatch
                <4>2. Queued("quit", NoSession) \in QueuedCalls
                    BY DEF Queued, QueuedCalls
                <4>3. Queued("quit", NoSession) \in Calls(inbox')
                    BY <4>1, <4>2, CallAppended DEF IInv
                <4> QED BY <4>1, <4>3 DEF HeardInv
            <3> QED BY <3>1, <3>2, <3>3, <3>4, <3>5
        <2> QED BY <2>3, <2>4
    <1> QED BY <1>2, <1>3, <1>4, <1>5 DEF Next, Exited

\* A shutdown request that has been passed on ends the application: whoever is exec'd by
\* then, or later, is terminating, and unless the event loop has been told to quit, a call
\* that will tell it is queued or comes with a session that is ending.
ShutdownHeard ==
    spc = "done" =>
        /\ \A s \in Sessions : Live(s) /\ pc[s] # "created" => "Terminating" \in gate[s]
        /\ \/ quitting \/ mpc # "loop" \/ Queued("quit", NoSession) \in Calls(inbox)
           \/ \E s \in Sessions : WillQuit(s)

\* The safety half of ShutdownCompletes, for any number of sessions: the request is not
\* lost between the registry's notifier and a session that is being registered, cleaned
\* up or released (requestShutdown(), registerSession(), unregisterSession()).
THEOREM ShutdownIsHeard == Spec => []ShutdownHeard
    <1>1. Init => EndInv /\ MarkedInv /\ HeardInv
        BY DEF Init, EndInv, RequestKnown, EndKnown, MarkedInv, HeardInv
    <1>2. IInv /\ EndInv /\ MarkedInv /\ HeardInv => ShutdownHeard
        BY DEF MarkedInv, HeardInv, ShutdownHeard
    <1> QED BY <1>1, <1>2, EndStep, MarkedStep, HeardStep, Invariance, PTL DEF Spec
=============================================================================
