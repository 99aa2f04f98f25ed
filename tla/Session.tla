------------------------------ MODULE Session ------------------------------
(***************************************************************************)
(* The life of streaming sessions on Linux: app/streaming/session.cpp with *)
(* the recovery gate, the connection retry of virtualdisplaylaunch.cpp,    *)
(* the shutdown coordinator and session registry of                        *)
(* backend/shutdowncoordinator.cpp, and the part of gui/StreamSegue.qml    *)
(* that owns a session.                                                    *)
(*                                                                         *)
(* Five actors interleave: the Qt main thread (mpc, inbox), the session's  *)
(* exec thread, which turns into its cleanup task (pc), the termination    *)
(* callback of the connection library (cb), the thread that requests a     *)
(* shutdown (spc), and the host.  An action ends where another actor can   *)
(* see what it did: an atomic store, a lock, a queued call.                *)
(*                                                                         *)
(* Sessions are numbered in the order they are created; 0 is no session.   *)
(***************************************************************************)
EXTENDS Integers, Sequences, RecoveryGate

CONSTANTS
    NumSessions,    \* bound: sessions created in a behaviour
    MaxAttempts     \* kVirtualDisplayConnectionAttempts

ASSUME SessionAssumption ==
    /\ NumSessions \in Nat
    /\ MaxAttempts \in Nat \ {0}

VARIABLES
    config,         \* the preferences that matter; they never change
    pc,             \* per session: its exec thread, then its cleanup task
    attempt,        \* per session: attempts begun by runConnectionAttempts()
    gate,           \* per session: m_Recovery
    flag,           \* per session: the set of its atomics that are true
    resumeOnly,     \* sessions created by createResumeSession()
    told,           \* per session: failures that ended it and the user was told of
    slot,           \* the session holding s_ActiveSessionSemaphore
    active,         \* s_ActiveSession
    conn,           \* the connection of the library, and whose it is
    cb,             \* the termination callback in flight
    host,           \* the host's application: "free", "ours" or "other"
    ui,             \* "list", "segue" or "recovery" (the dialog is open)
    cur,            \* the session the segue owns
    recoveryText,   \* sessions whose segue has a recovery text
    inbox,          \* calls queued for the Qt thread
    deleted,        \* sessions given to deleteLater()
    registered,     \* m_Context of the session registry
    recoveryContext,\* m_RecoveryContext of the session registry
    reason,         \* reason of the first shutdown request
    requester,      \* the session whose exec thread made it, if one did
    spc,            \* the thread that made it
    quitting,       \* QCoreApplication::quit() was called
    mpc             \* main thread: event loop, leaving it, exited

Sessions == 1..NumSessions
NoSession == 0

Flags == {"Started", "Suppress", "AttemptTerminated", "Unexpected", "Intentional",
          "RetryCancelled", "AppExit", "ExitAfterQuit", "Preserve"}

execVars   == <<pc, attempt>>
objectVars == <<gate, flag, told>>
connVars   == <<slot, active, conn, cb>>
uiVars     == <<ui, cur, recoveryText, deleted, resumeOnly>>
lifeVars   == <<registered, recoveryContext, reason, requester, spc, quitting, mpc>>

vars == <<config, execVars, objectVars, connVars, host, uiVars, inbox, lifeVars>>

\* exec() has not returned.  The main thread pumps events in it until the
\* streaming window exists.
Connecting == {"starting", "waiting", "preparing", "launching", "launched", "connect",
               "connecting", "returned", "backoff", "accepted", "giveUp", "connected",
               "opening"}
Windowed   == {"streaming", "handling", "quitting", "exiting", "quitSeen", "cancelling",
               "teardown"}
TaskSteps  == {"cleanup", "stopping", "deciding", "quittingHost", "sendingQuit",
               "completing", "keep", "forget", "clearing", "releasing"}

Steps == {"unborn", "created", "done"} \cup Connecting \cup Windowed \cup TaskSteps

MainThreadPumps == mpc = "loop" /\ \A s \in Sessions : pc[s] \notin Windowed
MainThreadIdle  == MainThreadPumps /\ \A s \in Sessions : pc[s] \notin Connecting
RegistryUnlocked == spc # "terminate"

Down     == [of |-> NoSession, state |-> "down"]
NoCall   == [pc |-> "idle", of |-> NoSession, error |-> FALSE, intentional |-> FALSE,
             surface |-> "nothing"]

Goto(s, step) == pc' = [pc EXCEPT ![s] = step]
Raise(s, F)   == flag' = [flag EXCEPT ![s] = @ \cup F]
Lower(s, F)   == flag' = [flag EXCEPT ![s] = @ \ F]
Queued(what, s) == [what |-> what, of |-> s]
QueuedCalls == [what : {"recovery", "notify", "quit"}, of : Sessions \cup {NoSession}]
Calls(q) == {q[i] : i \in 1..Len(q)}

----------------------------------------------------------------------------
Init ==
    /\ config \in [quitAppAfter : BOOLEAN, retry : BOOLEAN]
    /\ pc = [s \in Sessions |-> "unborn"]
    /\ attempt = [s \in Sessions |-> 0]
    /\ gate = [s \in Sessions |-> {}]
    /\ flag = [s \in Sessions |-> {"Unexpected"}]
    /\ told = [s \in Sessions |-> {}]
    /\ resumeOnly = {}
    /\ slot = NoSession /\ active = NoSession
    /\ conn = Down /\ cb = NoCall
    /\ host = "free"
    /\ ui = "list" /\ cur = NoSession /\ recoveryText = {} /\ inbox = <<>>
    /\ deleted = {}
    /\ registered = NoSession /\ recoveryContext = NoSession
    /\ reason = "None" /\ requester = NoSession /\ spc = "idle" /\ quitting = FALSE /\ mpc = "loop"

----------------------------------------------------------------------------
(* What ends a session *)

\* Bug: the request to replace this process does not keep the host's app.
BadExitMarks == {"AppExit", "Intentional", "RetryCancelled"}

\* The stores of requestApplicationExit() before beginTermination().
ExitMarks ==
    {"AppExit", "Intentional", "RetryCancelled"}
        \cup (IF reason = "Replace" THEN {"Preserve"} ELSE {})

\* The stores of markIntentionalDisconnect().
DisconnectMarks == {"Intentional", "RetryCancelled"}

----------------------------------------------------------------------------
(* Qt main thread *)

\* The user picks an app: a session and its segue.
CreateSession ==
    /\ ui = "list" /\ MainThreadIdle
    /\ \E s \in Sessions :
        /\ pc[s] = "unborn" /\ \A t \in 1..(s - 1) : pc[t] # "unborn"
        /\ Goto(s, "created")
        /\ cur' = s
    /\ ui' = "segue"
    /\ UNCHANGED <<config, attempt, objectVars, connVars, host, recoveryText, deleted,
                   resumeOnly, inbox, lifeVars>>

\* Bug: a session does not look for a shutdown requested before it.
BadExitRequestedBefore == FALSE

\* registerSession() calls the notifier at once after a shutdown request.
ExitRequestedBefore == reason # "None"

\* exec(): register, then start the exec thread.
Exec(s) ==
    /\ pc[s] = "created" /\ MainThreadIdle /\ RegistryUnlocked
    /\ registered' = s /\ recoveryContext' = NoSession
    /\ IF ExitRequestedBefore
       THEN /\ Raise(s, ExitMarks)
            /\ gate' = [gate EXCEPT ![s] = BeginTermination(Cancel(@), FALSE, FALSE)]
       ELSE UNCHANGED <<flag, gate>>
    /\ Goto(s, "starting")
    /\ UNCHANGED <<config, attempt, told, connVars, host, uiVars, inbox, reason, requester, spc,
                   quitting, mpc>>

\* displayLaunchRecovery() in the segue: keep the text until the session is cleaned.
HandleRecovery ==
    /\ MainThreadPumps /\ inbox # <<>> /\ Head(inbox).what = "recovery"
    /\ inbox' = Tail(inbox)
    /\ recoveryText' = recoveryText \cup {Head(inbox).of}
    /\ UNCHANGED <<config, execVars, objectVars, connVars, host, ui, cur, deleted,
                   resumeOnly, lifeVars>>

\* notifyCleanupComplete(): sessionFinished() opens the recovery dialog or
\* leaves the segue; then the session is released unless it was retained.
HandleNotify ==
    /\ MainThreadPumps /\ inbox # <<>> /\ Head(inbox).what = "notify"
    /\ inbox' = Tail(inbox)
    /\ LET s == Head(inbox).of
           retained == s \in recoveryText /\ MayResume(gate[s])
       IN  /\ IF retained
              THEN ui' = "recovery" /\ UNCHANGED <<cur, deleted>>
              ELSE ui' = "list" /\ cur' = NoSession /\ deleted' = deleted \cup {s}
           /\ quitting' = (quitting \/ ExitClient("ExitAfterQuit" \in flag[s],
                                                  "AppExit" \in flag[s]))
    /\ UNCHANGED <<config, execVars, objectVars, connVars, host, recoveryText, resumeOnly,
                   registered, recoveryContext, reason, requester, spc, mpc>>

HandleQuit ==
    /\ MainThreadPumps /\ inbox # <<>> /\ Head(inbox).what = "quit"
    /\ inbox' = Tail(inbox)
    /\ quitting' = TRUE
    /\ UNCHANGED <<config, execVars, objectVars, connVars, host, uiVars, registered,
                   recoveryContext, reason, requester, spc, mpc>>

\* Bug: the registry goes on offering a session that was used up.
BadClearRecovery(s) == recoveryContext' = recoveryContext

ClearRecovery(s) ==
    recoveryContext' = IF recoveryContext = s THEN NoSession ELSE recoveryContext

\* Resume: the descriptor is used up and a fresh session takes its place.
UserResume ==
    /\ ui = "recovery" /\ MainThreadIdle /\ RegistryUnlocked
    /\ MayResume(gate[cur])
    /\ gate' = [gate EXCEPT ![cur] = TakeResume(@)]
    /\ ClearRecovery(cur)
    /\ deleted' = deleted \cup {cur}
    /\ \E s \in Sessions :
        /\ pc[s] = "unborn" /\ \A t \in 1..(s - 1) : pc[t] # "unborn"
        /\ Goto(s, "created")
        /\ cur' = s
        /\ resumeOnly' = resumeOnly \cup {s}
    /\ ui' = "segue"
    /\ UNCHANGED <<config, attempt, flag, told, connVars, host, recoveryText, inbox,
                   registered, reason, requester, spc, quitting, mpc>>

\* Disconnect: cancelSession() of a cleaned session.
UserDismiss ==
    /\ ui = "recovery" /\ MainThreadIdle /\ RegistryUnlocked
    /\ ClearRecovery(cur)
    /\ gate' = [gate EXCEPT ![cur] = Cancel(@)]
    /\ Raise(cur, DisconnectMarks)
    /\ deleted' = deleted \cup {cur}
    /\ ui' = "list" /\ cur' = NoSession
    /\ UNCHANGED <<config, execVars, told, connVars, host, recoveryText, resumeOnly, inbox,
                   registered, reason, requester, spc, quitting, mpc>>

\* app.exec() returns; aboutToQuit reaches every session that is left.
LeaveEventLoop ==
    /\ quitting /\ MainThreadIdle
    /\ mpc' = "leaving"
    /\ LET left == {s \in Sessions : pc[s] # "unborn" /\ s \notin deleted}
       IN  /\ flag' = [s \in Sessions |-> IF s \in left THEN flag[s] \cup ExitMarks ELSE flag[s]]
           /\ gate' = [s \in Sessions |->
                          IF s \in left THEN BeginTermination(Cancel(gate[s]), FALSE, FALSE)
                          ELSE gate[s]]
    /\ UNCHANGED <<config, execVars, told, connVars, host, uiVars, inbox, registered,
                   recoveryContext, reason, requester, spc, quitting>>

\* main() waits for the thread pool, where cleanup tasks run, and returns.
Exit ==
    /\ mpc = "leaving"
    /\ \A s \in Sessions : pc[s] \notin TaskSteps
    /\ mpc' = "exited"
    /\ UNCHANGED <<config, execVars, objectVars, connVars, host, uiVars, inbox, registered,
                   recoveryContext, reason, requester, spc, quitting>>

----------------------------------------------------------------------------
(* Exec thread: up to the connection *)

\* Bug: a session that could not be initialised stays registered.
BadRegisteredAfterFailure == registered

RegisteredAfterFailure == NoSession

\* initialize(); if it fails there is no cleanup task.
Initialize(s) ==
    /\ pc[s] = "starting"
    /\ \/ /\ Goto(s, "waiting")
          /\ UNCHANGED <<gate, registered, inbox>>
       \/ /\ RegistryUnlocked
          /\ registered' = RegisteredAfterFailure
          /\ gate' = [gate EXCEPT ![s] = CompleteCleanup(@)]
          /\ inbox' = Append(inbox, Queued("notify", s))
          /\ Goto(s, "done")
    /\ UNCHANGED <<config, attempt, flag, told, connVars, host, uiVars, recoveryContext,
                   reason, requester, spc, quitting, mpc>>

AcquireSlot(s) ==
    /\ pc[s] = "waiting" /\ slot = NoSession
    /\ slot' = s /\ active' = s
    /\ Goto(s, "preparing")
    /\ UNCHANGED <<config, attempt, objectVars, conn, cb, host, uiVars, inbox, lifeVars>>

\* startConnectionAsync() up to the attempts.
PrepareConnection(s) ==
    /\ pc[s] = "preparing"
    /\ \/ /\ "RetryCancelled" \in flag[s]
          /\ Goto(s, "cleanup")
          /\ UNCHANGED flag
       \/ /\ "RetryCancelled" \notin flag[s]
          /\ Goto(s, "launching")
          /\ IF config.retry THEN Raise(s, {"Suppress"}) ELSE UNCHANGED flag
    /\ UNCHANGED <<config, attempt, gate, told, connVars, host, uiVars, inbox, lifeVars>>

Tell(s, what) == told' = [told EXCEPT ![s] = @ \cup {what}]

\* A resume that cannot reach the host may be tried again.
OfferAnotherResume(s) ==
    /\ s \in resumeOnly /\ "RetryCancelled" \notin flag[s] /\ "Terminating" \notin gate[s]
    /\ gate' = [gate EXCEPT ![s] = BeginTermination(@, TRUE, TRUE)]
    /\ Tell(s, "lost")
    /\ inbox' = Append(inbox, Queued("recovery", s))

\* The launch request: start or resume the app; refused, cancelled, no answer.
Launch(s) ==
    /\ pc[s] = "launching"
    /\ \/ /\ "RetryCancelled" \notin flag[s]
          /\ IF s \in resumeOnly THEN host = "ours" ELSE host # "other"
          /\ host' = "ours"
          /\ Goto(s, "launched")
          /\ UNCHANGED <<gate, told, inbox>>
       \/ /\ Goto(s, "giveUp")
          /\ \/ UNCHANGED <<gate, told, inbox>>
             \/ OfferAnotherResume(s)
          /\ UNCHANGED host
    /\ UNCHANGED <<config, attempt, flag, connVars, uiVars, lifeVars>>

CheckLaunched(s) ==
    /\ pc[s] = "launched"
    /\ Goto(s, IF "RetryCancelled" \in flag[s] THEN "giveUp" ELSE "connect")
    /\ UNCHANGED <<config, attempt, objectVars, connVars, host, uiVars, inbox, lifeVars>>

\* Forget the last attempt and call LiStartConnection().
StartConnection(s) ==
    /\ pc[s] = "connect"
    /\ Lower(s, {"AttemptTerminated"})
    /\ attempt' = [attempt EXCEPT ![s] = @ + 1]
    /\ conn' = [of |-> s, state |-> "starting"]
    /\ Goto(s, "connecting")
    /\ UNCHANGED <<config, gate, told, slot, active, cb, host, uiVars, inbox, lifeVars>>

\* LiStartConnection() succeeds, or fails a stage and stops what it started.
StartReturns(s) ==
    /\ pc[s] = "connecting"
    /\ Goto(s, "returned")
    /\ \/ conn' = IF conn.state = "starting" THEN [conn EXCEPT !.state = "up"] ELSE conn
       \/ conn' = Down
    /\ UNCHANGED <<config, attempt, objectVars, slot, active, cb, host, uiVars, inbox,
                   lifeVars>>

Attempts == IF config.retry THEN MaxAttempts ELSE 1

AttemptSucceeded(s) == conn.state # "down" /\ "AttemptTerminated" \notin flag[s]

\* What runConnectionAttempts() makes of an attempt.
JudgeAttempt(s) ==
    /\ pc[s] = "returned"
    /\ Goto(s, IF AttemptSucceeded(s) THEN "accepted"
               ELSE IF "RetryCancelled" \in flag[s] \/ attempt[s] >= Attempts THEN "giveUp"
               ELSE "backoff")
    /\ UNCHANGED <<config, attempt, objectVars, connVars, host, uiVars, inbox, lifeVars>>

\* The sliced delay between attempts, and the check after it.
Backoff(s) ==
    /\ pc[s] = "backoff"
    /\ Goto(s, IF "RetryCancelled" \in flag[s] THEN "giveUp" ELSE "connect")
    /\ UNCHANGED <<config, attempt, objectVars, connVars, host, uiVars, inbox, lifeVars>>

EndAttempts(s) ==
    /\ pc[s] \in {"accepted", "giveUp"}
    /\ Lower(s, {"Suppress"})
    /\ attempt' = [attempt EXCEPT ![s] = 0]
    /\ Goto(s, IF pc[s] = "accepted" THEN "connected" ELSE "cleanup")
    /\ UNCHANGED <<config, gate, told, connVars, host, uiVars, inbox, lifeVars>>

ConnectionStarted(s) ==
    /\ pc[s] = "connected"
    /\ Raise(s, {"Started"})
    /\ Goto(s, "opening")
    /\ UNCHANGED <<config, attempt, gate, told, connVars, host, uiVars, inbox, lifeVars>>

\* The streaming window; from now on an end of the stream is expected.
OpenWindow(s) ==
    /\ pc[s] = "opening"
    /\ \/ Goto(s, "streaming") /\ Lower(s, {"Unexpected"})
       \/ Goto(s, "cleanup") /\ UNCHANGED flag
    /\ UNCHANGED <<config, attempt, gate, told, connVars, host, uiVars, inbox, lifeVars>>

----------------------------------------------------------------------------
(* Exec thread: the SDL event loop *)

\* Bug: the loop ends only for a termination that can be resumed.
BadMustLeave(s) == "Recoverable" \in gate[s]

MustLeave(s) == "Terminating" \in gate[s]

\* The gate is looked at in every turn of the loop, woken or not.
SeeTermination(s) ==
    /\ pc[s] = "streaming" /\ MustLeave(s)
    /\ Goto(s, "teardown")
    /\ UNCHANGED <<config, attempt, objectVars, connVars, host, uiVars, inbox, lifeVars>>

\* An event of a session that is not terminating, and one that ends nothing.
TakeEvent(s) ==
    /\ pc[s] = "streaming" /\ ~MustLeave(s)
    /\ Goto(s, "handling")
    /\ UNCHANGED <<config, attempt, objectVars, connVars, host, uiVars, inbox, lifeVars>>

HandleEvent(s) ==
    /\ pc[s] = "handling"
    /\ Goto(s, "streaming")
    /\ UNCHANGED <<config, attempt, objectVars, connVars, host, uiVars, inbox, lifeVars>>

\* The device slept during the stream.
WakeFromSuspend(s) ==
    /\ pc[s] \in {"streaming", "quitSeen"} /\ ~MustLeave(s)
    /\ gate' = [gate EXCEPT ![s] = BeginTermination(@, TRUE, TRUE)]
    /\ Raise(s, {"Unexpected"})
    /\ Tell(s, "lost")
    /\ inbox' = Append(inbox, Queued("recovery", s))
    /\ Goto(s, "teardown")
    /\ UNCHANGED <<config, attempt, connVars, host, uiVars, lifeVars>>

\* Quit combos and the Quick Menu: cancelSession() up to its gate update.
UserCancel(s) ==
    /\ pc[s] = "handling" /\ RegistryUnlocked
    /\ ClearRecovery(s)
    /\ gate' = [gate EXCEPT ![s] = Cancel(@)]
    /\ Raise(s, DisconnectMarks)
    /\ Goto(s, "cancelling")
    /\ UNCHANGED <<config, attempt, told, connVars, host, uiVars, inbox, registered, reason,
                   requester, spc, quitting, mpc>>

FinishCancel(s) ==
    /\ pc[s] = "cancelling"
    /\ gate' = [gate EXCEPT ![s] = BeginTermination(@, FALSE, FALSE)]
    /\ Goto(s, "streaming")
    /\ UNCHANGED <<config, attempt, flag, told, connVars, host, uiVars, inbox, lifeVars>>

\* requestShutdown() by this thread; only the first request goes on.
RequestAppExit(s) ==
    IF reason = "None"
    THEN reason' = "Exit" /\ requester' = s /\ spc' = "notify"
    ELSE UNCHANGED <<reason, requester, spc>>

RequestReturned(s) == requester = s => spc = "done"

\* Quit and exit: setShouldExitAfterQuit(), then cancelSession().
UserQuit(s) ==
    /\ pc[s] = "handling"
    /\ gate' = [gate EXCEPT ![s] = Cancel(@)]
    /\ Raise(s, DisconnectMarks \cup {"ExitAfterQuit"})
    /\ RequestAppExit(s)
    /\ Goto(s, "quitting")
    /\ UNCHANGED <<config, attempt, told, connVars, host, uiVars, inbox, registered,
                   recoveryContext, quitting, mpc>>

FinishQuit(s) ==
    /\ pc[s] = "quitting" /\ RequestReturned(s) /\ RegistryUnlocked
    /\ ClearRecovery(s)
    /\ Goto(s, "cancelling")
    /\ UNCHANGED <<config, attempt, objectVars, connVars, host, uiVars, inbox, registered,
                   reason, requester, spc, quitting, mpc>>

\* SDL_QUIT from the system: an application exit, recorded before the checks
\* for a suspend and for the gate.
SystemQuit(s) ==
    /\ pc[s] = "handling"
    /\ RequestAppExit(s)
    /\ Goto(s, "exiting")
    /\ UNCHANGED <<config, attempt, objectVars, connVars, host, uiVars, inbox, registered,
                   recoveryContext, quitting, mpc>>

FinishSystemQuit(s) ==
    /\ pc[s] = "exiting" /\ RequestReturned(s)
    /\ Raise(s, DisconnectMarks \cup {"AppExit"})
    /\ gate' = [gate EXCEPT ![s] = Cancel(@)]
    /\ Goto(s, "quitSeen")
    /\ UNCHANGED <<config, attempt, told, connVars, host, uiVars, inbox, lifeVars>>

QuitLoop(s) ==
    /\ pc[s] = "quitSeen"
    /\ Goto(s, "teardown")
    /\ UNCHANGED <<config, attempt, objectVars, connVars, host, uiVars, inbox, lifeVars>>

\* The user closes the streaming window.
CloseWindow(s) ==
    /\ pc[s] = "handling"
    /\ gate' = [gate EXCEPT ![s] = Cancel(@)]
    /\ Raise(s, DisconnectMarks)
    /\ Goto(s, "teardown")
    /\ UNCHANGED <<config, attempt, told, connVars, host, uiVars, inbox, lifeVars>>

\* The decoder cannot be recreated after a window event.
DecoderFails(s) ==
    /\ pc[s] = "handling"
    /\ Tell(s, "decoder")
    /\ Goto(s, "teardown")
    /\ UNCHANGED <<config, attempt, gate, flag, connVars, host, uiVars, inbox, lifeVars>>

\* DispatchDeferredCleanup: exec() returns and the cleanup task starts.
Teardown(s) ==
    /\ pc[s] = "teardown"
    /\ gate' = [gate EXCEPT ![s] = BeginCleanup(@)]
    /\ Goto(s, "cleanup")
    /\ UNCHANGED <<config, attempt, flag, told, connVars, host, uiVars, inbox, lifeVars>>

----------------------------------------------------------------------------
(* Cleanup task, in the thread pool *)

BeginCleanupTask(s) ==
    /\ pc[s] = "cleanup"
    /\ gate' = [gate EXCEPT ![s] = BeginCleanup(@)]
    /\ Goto(s, "stopping")
    /\ UNCHANGED <<config, attempt, flag, told, connVars, host, uiVars, inbox, lifeVars>>

\* Bug: the task goes on without waiting for the callback.
BadProducersStopped == TRUE

\* LiStopConnection() returns when no callback runs.
ProducersStopped == cb.pc = "idle"

StopConnection(s) ==
    /\ pc[s] = "stopping" /\ ProducersStopped
    /\ conn' = Down
    /\ Lower(s, {"Started"})
    /\ Goto(s, "deciding")
    /\ UNCHANGED <<config, attempt, gate, told, slot, active, cb, host, uiVars, inbox,
                   lifeVars>>

\* Bug: only the flag is looked at, which OpenWindow() clears.
BadEndedUnexpectedly(s) == "Unexpected" \in flag[s]

EndedUnexpectedly(s) == "Unexpected" \in flag[s] \/ "Interrupted" \in gate[s]

Decide(s) ==
    /\ pc[s] = "deciding"
    /\ Goto(s, IF QuitHost(EndedUnexpectedly(s), config.quitAppAfter,
                           "ExitAfterQuit" \in flag[s], "Preserve" \in flag[s])
               THEN "quittingHost" ELSE "completing")
    /\ UNCHANGED <<config, attempt, objectVars, connVars, host, uiVars, inbox, lifeVars>>

\* Ask the host what it runs; it may not answer.  The last look at Preserve.
AskHost(s) ==
    /\ pc[s] = "quittingHost"
    /\ \/ host = "ours" /\ "Preserve" \notin flag[s] /\ Goto(s, "sendingQuit")
       \/ Goto(s, "completing")
    /\ UNCHANGED <<config, attempt, objectVars, connVars, host, uiVars, inbox, lifeVars>>

\* The quit request ends whatever the host runs by now, or does not arrive.
QuitHostApp(s) ==
    /\ pc[s] = "sendingQuit"
    /\ Goto(s, "completing")
    /\ host' \in {"free", host}
    /\ UNCHANGED <<config, attempt, objectVars, connVars, uiVars, inbox, lifeVars>>

\* completeCleanup(), and canResume() for the registry.
Complete(s) ==
    /\ pc[s] = "completing"
    /\ gate' = [gate EXCEPT ![s] = CompleteCleanup(@)]
    /\ Goto(s, IF MayResume(CompleteCleanup(gate[s])) THEN "keep" ELSE "forget")
    /\ UNCHANGED <<config, attempt, flag, told, connVars, host, uiVars, inbox, lifeVars>>

MayUnregister == RegistryUnlocked

Unregister(s) ==
    /\ pc[s] \in {"keep", "forget"} /\ MayUnregister
    /\ registered' = NoSession
    /\ recoveryContext' = IF pc[s] = "keep" THEN s ELSE recoveryContext
    /\ Goto(s, "clearing")
    /\ UNCHANGED <<config, attempt, objectVars, connVars, host, uiVars, inbox, reason,
                   requester, spc, quitting, mpc>>

ClearActive(s) ==
    /\ pc[s] = "clearing"
    /\ active' = NoSession
    /\ Goto(s, "releasing")
    /\ UNCHANGED <<config, attempt, objectVars, slot, conn, cb, host, uiVars, inbox, lifeVars>>

\* Release the slot and queue notifyCleanupComplete().
ReleaseSlot(s) ==
    /\ pc[s] = "releasing"
    /\ slot' = NoSession
    /\ inbox' = Append(inbox, Queued("notify", s))
    /\ Goto(s, "done")
    /\ UNCHANGED <<config, attempt, objectVars, active, conn, cb, host, uiVars, lifeVars>>

----------------------------------------------------------------------------
(* The library's termination callback, on a thread of the library.  One    *)
(* connection terminates once; error is a code other than graceful.        *)

TerminateConnection ==
    /\ conn.state \in {"starting", "up"} /\ cb.pc = "idle"
    /\ conn' = [conn EXCEPT !.state = "dead"]
    /\ \E error \in BOOLEAN :
           cb' = [NoCall EXCEPT !.pc = "check", !.of = conn.of, !.error = error]
    /\ UNCHANGED <<config, execVars, objectVars, slot, active, host, uiVars, inbox, lifeVars>>

\* While attempts are retried a termination is only recorded.
CallbackCheck ==
    /\ cb.pc = "check"
    /\ cb' = [cb EXCEPT !.pc = IF "Suppress" \in flag[cb.of] THEN "record" ELSE "classify"]
    /\ UNCHANGED <<config, execVars, objectVars, slot, active, conn, host, uiVars, inbox,
                   lifeVars>>

CallbackRecord ==
    /\ cb.pc = "record"
    /\ Raise(cb.of, {"AttemptTerminated"})
    /\ cb' = NoCall
    /\ UNCHANGED <<config, execVars, gate, told, slot, active, conn, host, uiVars, inbox,
                   lifeVars>>

CallbackClassify ==
    /\ cb.pc = "classify"
    /\ cb' = [cb EXCEPT !.pc = "begin", !.intentional = "Intentional" \in flag[cb.of]]
    /\ UNCHANGED <<config, execVars, objectVars, slot, active, conn, host, uiVars, inbox,
                   lifeVars>>

\* shouldSurfaceRecovery() and shouldSurfaceError()
Surface ==
    IF ~cb.error \/ cb.intentional THEN "nothing"
    ELSE IF "Started" \in flag[cb.of] THEN "recovery" ELSE "error"

CallbackBegin ==
    /\ cb.pc = "begin"
    /\ IF "Terminating" \in gate[cb.of]
       THEN cb' = NoCall /\ UNCHANGED gate
       ELSE /\ gate' = [gate EXCEPT ![cb.of] =
                            BeginTermination(@, Surface = "recovery", Surface # "nothing")]
            /\ cb' = [cb EXCEPT !.pc = "report", !.surface = Surface]
    /\ UNCHANGED <<config, execVars, flag, told, slot, active, conn, host, uiVars, inbox,
                   lifeVars>>

CallbackReport ==
    /\ cb.pc = "report"
    /\ flag' = [flag EXCEPT ![cb.of] = IF cb.surface = "nothing" THEN @ \ {"Unexpected"}
                                        ELSE @ \cup {"Unexpected"}]
    /\ IF cb.surface = "nothing" THEN UNCHANGED told ELSE Tell(cb.of, "lost")
    /\ inbox' = IF cb.surface = "recovery"
                THEN Append(inbox, Queued("recovery", cb.of)) ELSE inbox
    /\ cb' = NoCall
    /\ UNCHANGED <<config, execVars, gate, slot, active, conn, host, uiVars, lifeVars>>

----------------------------------------------------------------------------
(* Shutdown requests: a signal, another instance, the last window *)

RequestShutdown ==
    /\ reason = "None" /\ mpc = "loop"
    /\ reason' \in {"Exit", "Replace"}
    /\ spc' = "notify"
    /\ UNCHANGED <<config, execVars, objectVars, connVars, host, uiVars, inbox, registered,
                   recoveryContext, requester, quitting, mpc>>

\* notify(): with the registry's lock, call the registered session, if any.
ShutdownNotify ==
    /\ spc = "notify"
    /\ IF registered = NoSession
       THEN spc' = "dispatch" /\ UNCHANGED <<flag, gate>>
       ELSE /\ spc' = "terminate"
            /\ Raise(registered, ExitMarks)
            /\ gate' = [gate EXCEPT ![registered] = Cancel(@)]
    /\ UNCHANGED <<config, execVars, told, connVars, host, uiVars, inbox, registered,
                   recoveryContext, reason, requester, quitting, mpc>>

\* The end of requestApplicationExit(), then the unlock.
ShutdownTerminate ==
    /\ spc = "terminate"
    /\ gate' = [gate EXCEPT ![registered] = BeginTermination(@, FALSE, FALSE)]
    /\ spc' = "done"
    /\ UNCHANGED <<config, execVars, flag, told, connVars, host, uiVars, inbox, registered,
                   recoveryContext, reason, requester, quitting, mpc>>

\* Nobody is registered: queue QCoreApplication::quit().
ShutdownDispatch ==
    /\ spc = "dispatch"
    /\ inbox' = Append(inbox, Queued("quit", NoSession))
    /\ spc' = "done"
    /\ UNCHANGED <<config, execVars, objectVars, connVars, host, uiVars, registered,
                   recoveryContext, reason, requester, quitting, mpc>>

----------------------------------------------------------------------------
\* Somebody else starts another app on the host, or ends ours.
HostChanges ==
    /\ host = "ours"
    /\ host' \in {"free", "other"}
    /\ UNCHANGED <<config, execVars, objectVars, connVars, uiVars, inbox, lifeVars>>

Exited == mpc = "exited" /\ UNCHANGED vars

MainThread == CreateSession \/ HandleRecovery \/ HandleNotify \/ HandleQuit \/ UserResume
              \/ UserDismiss \/ LeaveEventLoop \/ Exit

\* Steps an exec thread or cleanup task takes by itself.
Progress(s) ==
    \/ Exec(s) \/ Initialize(s) \/ AcquireSlot(s) \/ PrepareConnection(s) \/ Launch(s)
    \/ CheckLaunched(s) \/ StartConnection(s) \/ StartReturns(s) \/ JudgeAttempt(s)
    \/ Backoff(s) \/ EndAttempts(s) \/ ConnectionStarted(s) \/ OpenWindow(s)
    \/ SeeTermination(s) \/ HandleEvent(s) \/ FinishCancel(s) \/ FinishQuit(s)
    \/ FinishSystemQuit(s) \/ QuitLoop(s) \/ Teardown(s) \/ BeginCleanupTask(s)
    \/ StopConnection(s) \/ Decide(s) \/ AskHost(s) \/ QuitHostApp(s) \/ Complete(s)
    \/ Unregister(s) \/ ClearActive(s) \/ ReleaseSlot(s)

\* Events of the window, the user and the device.
Stimulus(s) ==
    \/ TakeEvent(s) \/ WakeFromSuspend(s) \/ UserCancel(s) \/ UserQuit(s) \/ SystemQuit(s)
    \/ CloseWindow(s) \/ DecoderFails(s)

Callback == CallbackCheck \/ CallbackRecord \/ CallbackClassify \/ CallbackBegin
            \/ CallbackReport

Requester == ShutdownNotify \/ ShutdownTerminate \/ ShutdownDispatch

Next ==
    \/ MainThread
    \/ \E s \in Sessions : Progress(s) \/ Stimulus(s)
    \/ TerminateConnection \/ Callback
    \/ RequestShutdown \/ Requester
    \/ HostChanges
    \/ Exited

Spec == Init /\ [][Next]_vars

(* Threads are scheduled, queued calls are delivered while the main thread *)
(* pumps events, and the calls of the library, of SDL and to the host      *)
(* return.  Nothing obliges the user, the device, the connection or the    *)
(* system to do anything.                                                  *)
Fairness ==
    /\ \A s \in Sessions : WF_vars(Progress(s))
    /\ WF_vars(Callback)
    /\ WF_vars(Requester)
    /\ WF_vars(HandleRecovery \/ HandleNotify \/ HandleQuit)
    /\ WF_vars(LeaveEventLoop \/ Exit)

FairSpec == Spec /\ Fairness

-----------------------------------------------------------------------------
(* What the user sees of it.                                               *)

StageOf(s) ==
    IF s \in deleted THEN "gone"
    ELSE IF pc[s] = "unborn" THEN "unborn"
    ELSE IF pc[s] \in {"created", "starting", "waiting"} THEN "asked"
    ELSE IF pc[s] # "done" THEN "turn"
    ELSE IF ui = "recovery" THEN "offered" ELSE "closed"

Stage == [s \in Sessions |-> StageOf(s)]

Linked == IF conn.state = "down" THEN NoSession ELSE conn.of

Marked(bit) == {s \in Sessions : bit \in gate[s]}

Quits == {s \in Sessions : "ExitAfterQuit" \in flag[s]}

Streams == INSTANCE StreamTurns
             WITH stage <- Stage, linked <- Linked, again <- resumeOnly,
                  judged <- Marked("Terminating"), broken <- Marked("Interrupted"),
                  offerable <- Marked("Recoverable"), ended <- Marked("Cancelled"),
                  quits <- Quits

----------------------------------------------------------------------------
(* Properties *)

\* Type invariant.
TypeOK ==
    /\ config \in [quitAppAfter : BOOLEAN, retry : BOOLEAN]
    /\ pc \in [Sessions -> Steps]
    /\ attempt \in [Sessions -> 0..MaxAttempts]
    /\ gate \in [Sessions -> SUBSET Bits]
    /\ flag \in [Sessions -> SUBSET Flags]
    /\ told \in [Sessions -> SUBSET {"lost", "decoder"}]
    /\ resumeOnly \subseteq Sessions /\ recoveryText \subseteq Sessions
    /\ deleted \subseteq Sessions
    /\ {slot, active, cur, registered, recoveryContext, requester, conn.of, cb.of}
           \subseteq Sessions \cup {NoSession}
    /\ conn \in [of : Sessions \cup {NoSession}, state : {"down", "starting", "up", "dead"}]
    /\ cb \in [pc : {"idle", "check", "record", "classify", "begin", "report"},
               of : Sessions \cup {NoSession}, error : BOOLEAN, intentional : BOOLEAN,
               surface : {"nothing", "error", "recovery"}]
    /\ host \in {"free", "ours", "other"}
    /\ ui \in {"list", "segue", "recovery"}
    /\ inbox \in Seq(QueuedCalls)
    /\ reason \in {"None", "Exit", "Replace"}
    /\ spc \in {"idle", "notify", "terminate", "dispatch", "done"}
    /\ quitting \in BOOLEAN
    /\ mpc \in {"loop", "leaving", "exited"}

\* The comment on the cleanup task: the library has one connection, and it
\* belongs to the session that holds the slot and is s_ActiveSession; a
\* callback in flight still finds the session it was made for.
SlotExclusive ==
    /\ conn.state # "down" => slot = conn.of /\ active = conn.of
    /\ cb.pc # "idle" => slot = cb.of /\ active = cb.of
    /\ active # NoSession => slot = active

\* Sessions, however their threads, callbacks and shutdown requests interleave,
\* are streams that take turns (StreamTurns).
ImplementsStreamTurns == Streams!Spec

\* "Neither UI completion nor a new Session may precede connection stop":
\* a session that was cleaned, or whose completion is queued, has neither a
\* connection nor a callback.
CompletionAfterStop ==
    \A s \in Sessions :
        "Cleaned" \in gate[s] \/ Queued("notify", s) \in Calls(inbox) => conn.of # s /\ cb.of # s

\* A deleted session is out of everybody's reach: its threads have ended,
\* no call for it is queued, the registry does not call it, and neither does
\* a shutdown request that is in the middle of calling it.
NoUseAfterDelete ==
    \A s \in deleted :
        /\ pc[s] = "done"
        /\ {slot, active, cb.of, conn.of, registered, cur} \cap {s} = {}
        /\ \A c \in Calls(inbox) : c.of # s

\* A shutdown request that holds the registry's lock calls a session that
\* is still registered, so its gate update is not lost.
NotifiedIsRegistered == spc = "terminate" => registered # NoSession

Ended == {"Cancelled", "ResumeTaken"}

\* While the Resume dialog is open its session is cleaned, the connection is
\* stopped and the slot free, and neither the user nor the application ended
\* it before the dialog or since, unless the process is leaving.
RecoveryOfferValid ==
    ui = "recovery" =>
        /\ cur \notin deleted /\ slot = NoSession /\ conn = Down
        /\ {"Recoverable", "Cleaned"} \subseteq gate[cur]
        /\ gate[cur] \cap Ended = {} \/ mpc # "loop"

\* The registry offers another process only a session that can be resumed,
\* unless this process was told to stop.
RecoverySnapshotFresh ==
    recoveryContext # NoSession /\ reason = "None" =>
        /\ recoveryContext \notin deleted
        /\ {"Recoverable", "Cleaned"} \subseteq gate[recoveryContext]
        /\ gate[recoveryContext] \cap Ended = {}

\* The cleanup of s decides to send the host a quit request.
QuitsHost(s) == pc[s] # "sendingQuit" /\ pc'[s] = "sendingQuit"

\* "Sleep/network loss does not quit the game on the PC, even when the
\* normal disconnect preference quits host apps": only Quit does.
TerminationKeepsHost ==
    [][\A s \in Sessions :
          QuitsHost(s) /\ "lost" \in told[s] => "ExitAfterQuit" \in flag[s]]_vars

\* A request to be replaced that has notified the registered session leaves
\* the host's app to the next process: whenever it comes, up to the last look
\* at the flag, no session decides to send a quit request, whether it was
\* registered before the request or after, and whatever else is ending it.
ReplaceKeepsHost ==
    [][\A s \in Sessions :
          ~(QuitsHost(s) /\ reason = "Replace" /\ spc \in {"terminate", "done"})]_vars

\* The first shutdown request ends the process, whatever it races with.
ShutdownCompletes == reason # "None" ~> mpc = "exited"

\* A session that is terminating gives up its slot and its segue.
EndingCompletes ==
    \A s \in Sessions :
        "Terminating" \in gate[s] ~>
            s \in deleted \/ (ui = "recovery" /\ cur = s) \/ mpc = "exited"

\* An unexpected end mid-stream surfaces the Resume dialog after cleanup,
\* unless the user ended the session or the application.
BreakOffersResume ==
    \A s \in Sessions :
        "Recoverable" \in gate[s] ~>
            (ui = "recovery" /\ cur = s) \/ "Cancelled" \in gate[s] \/ reason # "None"

\* "Four outcomes cover every termination the session can observe": a stream
\* whose connection is dead does not go on streaming.
DeadStreamEnds ==
    \A s \in Sessions :
        pc[s] = "streaming" /\ conn = [of |-> s, state |-> "dead"] ~> pc[s] \notin Windowed

\* "Unexpected failures preserve the host app": neither does a failure of
\* the decoder end the host's app.
DecoderFailureKeepsHost ==
    [][\A s \in Sessions :
          QuitsHost(s) /\ "decoder" \in told[s] => "ExitAfterQuit" \in flag[s]]_vars

=============================================================================
