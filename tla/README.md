# Verification of Vibertemis

TLA+ models of the parts of Vibertemis in which threads, callbacks, timeouts and
failures meet, the TLC runs that check them on small instances, and theorems about
them that TLAPS proves for every value of the constants.

`PROJECT.json` is the index: components, runs, the line ranges each definition
stands for (`map`), a plausible bug for every checked property (`mutants`),
hazards, findings and theorems.

## 1. The system

Vibertemis is a game-streaming client (C++/Qt, a fork of Artemis and Moonlight) with
a Quest side: a Go companion on the VR host, a C# manager on Windows and a Java
overlay on the headset.

| Component | State it keeps | Operations | Talks to | What makes it correct |
|---|---|---|---|---|
| Frame pacer (`app/streaming/video/ffmpeg-renderers/pacer`) | two bounded frame queues, length histories, stop and V-sync flags | submit, V-sync tick, render, destroy | decoder thread, V-sync source, render thread or SDL event loop | order, each frame freed once, no lost wakeup, destruction terminates |
| Session (`app/streaming/session.cpp`, `sessionrecovery`, `virtualdisplaylaunch`) | recovery gate bits, nine atomics, the one-session slot, the connection | launch, connect with retries, event loop, deferred cleanup, complete, resume | connection library callbacks, host, segue in QML, registry | cleanup before completion, no use after deletion, the host's application survives failures, a break offers Resume |
| Shutdown coordinator and registry (`app/backend/shutdowncoordinator.cpp`) | first reason, registered session, what can be resumed | request, register, unregister, notify, snapshot | session, instance guard, signals, Qt | every request ends the process and reaches the session that is there |
| Launch transaction (`quest/host/internal/server/start_pcvr.go`) | the gate, the receipts of finished requests | begin, preflight, launch, mark, wait, finish | HTTP handlers, `/status`, SteamVR | one launch at a time, a retry never launches, the gate opens again |
| Quest HTTP server (`server.go`, `steamvr.go`) | role and display sets, status | status, disconnect, display, launcher calls | overlay, ALVR | see above; the rest is not modelled |
| Replay cache and rate limiter (`state.go`, `security.go`) | nonces with request times, token buckets | check and add, take a token | every signed request, the registry of devices | no request taken for new twice in its window, none served to a device forgotten meanwhile |
| Enrollment and pairing (`enrollment`, `pairing`) | the attempt in the slot, two windows, suppression, devices paired, in memory and on disk | begin, poll, cancel, decide, forget, open, renew, suppress | overlay, manager, store | only what the owner was shown is approved; what is revoked stays out |
| Instance guard (`instanceguard.cpp`) | flock, generation, control socket, handoff | enter, serve status/activate/replace | a second process, registry, shutdown | only an older instance is replaced, it is not activated afterwards, what it handed on is resumed, every launch ends |
| Updater (`updatestatemachine`, `autoupdatechecker`, `pendingupdate`, `flatpakinstaller`) | the reducer's state, the pending record and file, the installer's transaction | check, download, verify, hand off, restore, cancel, retry | network, Flatpak on the host | never installs twice while an outcome is open, nor unverified data, nor what was not asked for |
| Host discovery and polling (`computermanager`) | known hosts, polling threads, delayed flush | add, poll, delete, save | mDNS, NvHTTP, settings | no polling of deleted hosts, saves are not lost |
| Host protocol (`nvhttp`, pairing managers) | certificates, pairing stage | sequential exchanges | host | authentication order |
| Decoder and renderers (`ffmpeg.cpp`), audio, input | device objects | decode, present, translate events | GPU, SDL, the connection | mostly calls to devices |
| Command line actions, UI, settings | one-shot state machines, models | start, pair, quit, list | computer manager, session | terminate with a result |
| Crash handling, diagnostics, crash endpoint | log ring, daily budget | write, scrub, upload | files, HTTP | bounded, scrubbed |
| Windows manager: updates (`UpdateRepository`, its disk cache, `UpdateFlowCoordinator`, `UpdateWorker`) | the snapshot of what is on offer and downloaded, the check in flight, the cached files; the attempt's place and transport | hydrate, check, record, verify, purge; click, cancel, hand off | signed release source, disk, elevated worker | one check at a time, what was recorded survives the process, an answer tells what its check found |
| Windows manager: the rest (SteamVR restart, pairing receive) | job files, phases | run, elevate, recover | worker processes, services | one restart at a time, recovery after a crash |
| Quest overlay (install sessions, PCVR return gate, host client) | persisted install state, return latch | install, resume, apply, retry | Android, the companion | no lost or doubled installation |
| Native VR client, anti-hooking, packaging; vendored libraries | none of the program's own | - | - | - |

How they interact. The decoder calls the pacer on its own thread. A session's exec
thread starts the connection through a library that calls back on threads of its
own; it ends in a cleanup task of the thread pool, which reports to the Qt thread by
queued calls. A shutdown request may come from any thread, takes the registry's lock
and calls into the registered session. The overlay retries requests to the companion,
whose handlers run concurrently and share the launch gate under one mutex; each request
passes the replay cache and is authorized against the registry of paired devices, which the
manager changes meanwhile. A second process of the client asks the first, over a control
socket, to come forward or to give way; giving way takes the registry's snapshot and
requests a shutdown. The updater runs on the Qt thread between replies of the network and
signals of the installer, and leaves a record on disk for the next run. The manager on Windows
checks for its own updates in the background, on tasks of the thread pool that share one
snapshot with the attempt the user starts.

What is hard: wakeups sent after the unlock and locks released around a free; a
termination callback against the exec thread, the cleanup and a shutdown; two
checks with a store of another thread between; a lease that expires under a slow
handler; an observation used after another blocking call; a request that reaches another
process than the one it was decided about; an installer whose outcome comes late, early
or never; a verification that is minutes old when it is used; a snapshot stored over one its writer
has not read; a file that a crash left half written.

## 2. The modules

| Module | Models | Kind |
|---|---|---|
| `Pacer` | `pacer.cpp` | detailed specification |
| `FrameChannel` | what the pacer promises: a lossy channel that keeps order | abstract specification |
| `RecoveryGate` | the operators of `sessionrecovery.*`: the gate as a set of bits, `cleanupDecision()` | pure operators |
| `Session` | sessions with the coordinator, the registry, the segue and the Qt thread | composition |
| `StreamTurns` | what the client promises of its streams: they take turns, each is judged once, and a broken one may be resumed | abstract specification |
| `StartPcvr` | the launch transaction with `/status`, time and SteamVR | detailed specification |
| `LaunchGate` | what the launch transaction promises a client: one launch per taking, and answers that stand | abstract specification |
| `InstanceGuard` | `instanceguard.cpp`: launches of the client against each other | detailed specification |
| `Succession` | what the single instance promises whoever launches the client: one instance at a time, and what each leaves to the next | abstract specification |
| `Updater` | the updater's reducer, its checker, the pending update on disk, the direct installer | composition |
| `Installation` | what the updater promises whoever presses "install": one asking at a time, and a dialog that says what has become of it | abstract specification |
| `Enrollment` | the companion's pairing service and its store | detailed specification |
| `Admission` | `Enrollment` with the signed requests, the skew check and the replay cache | composition |
| `Authorization` | what the companion promises its owner: who is let in, and which request is served | abstract specification |
| `AdmissionMC` | the symmetry of `Admission` for TLC | model checking |
| `UpdateRepository` | the Windows manager's update repository, its disk cache, and the attempt as their user | composition |
| `SharedCheck` | what the repository promises whoever asks for a check: one at a time, shared, and answered with its own outcome | abstract specification |
| `PacerProofs`, `SessionProofs`, `StartPcvrProofs`, `InstanceGuardProofs`, `UpdaterProofs`, `EnrollmentProofs`, `AdmissionProofs`, `UpdateRepositoryProofs` | theorems | proofs |

Definitions named `Bad...`, under a comment "Bug:", are not used by any
specification: each is a plausible mistake in the definition that follows it, kept to
show that the property it is listed with notices it.

### Pacer

One action is one critical section of `m_FrameQueueLock`, or one step taken without
it whose order matters: the `wakeOne()` after the unlock, a read of the atomic
`m_Stopping`, a frame being rendered or freed. `spc`, `vpc`, `rpc` and `dpc` are the
program counters of the decoder thread, the V-sync thread, the renderer (its own
thread, or the main thread taking `SDL_CODE_FRAME_READY` events) and the destructor.
`mode` is what `initialize()` found out; every combination is an initial state.
`asleep` holds the condition variables that have a waiter (each has at most one);
spurious wakeups are allowed. Frames are numbers in decode order. The catch-up
targets are computed from the two histories exactly as in the code. The waits of the
V-sync thread may expire at any time. `SDL_PushEvent()` is taken to succeed. The
model starts when `initialize()` has returned.

### Session

Five actors: the Qt thread (`mpc`, `inbox` for queued calls), per session its exec
thread which becomes its cleanup task (`pc`), the library's termination callback
(`cb`), the thread that requests a shutdown (`spc`) and the host. An action ends
where another actor can see what it did: an atomic store, the end of a critical
section, a queued call. `flag[s]` is the set of a session's atomics that are true, so
`"Preserve" \in flag[s]` is `m_PreserveHostOnExit`, and `gate[s]` the bits of its
`RecoveryGate`. `requestApplicationExit()` called under the registry's lock is two
steps (`ShutdownNotify`, `ShutdownTerminate`), because the session's own threads do
not take that lock to read their atomics. `slot` is `s_ActiveSessionSemaphore`,
`active` is `s_ActiveSession`. The host answers or does not, and somebody else may
start or end an application on it at any time; asking it what it runs and telling
it to quit are two steps, as in the code.

External assumptions: `LiStopConnection()` returns when no callback runs (the comment
at `session.cpp:1535`, "All producers have stopped"); a connection terminates at most
once; an `LiStartConnection()` that fails stops what it started.

`StreamTurns` has no threads, queues, locks or callback. A stream is asked for, gets its turn,
closes, and may be offered for resumption (`Stage`: its exec thread's place, and the dialog); it is
connected from the start of an attempt to the stop (`Linked`). What is known of its end are the
bits of the gate (`Marked`): it is judged, was broken, can be resumed, was ended by somebody. Its
`QuitHost` says when the host's application may be quit, its `Resume` that the old stream is gone
when the fresh one is asked for.

Only the Linux path with the threaded exec is modelled. Left out: the command line's
quit after the stream, the watchdog's forced exit (it cuts a behaviour short and adds
no state), the signal pipe, the SDL event queue other than the events that end the
stream, and everything about media, windows and devices. Two inputs of the segue are left out too.
A session that a handoff started (`automaticHandoff`, `main.qml:65`) drops its recovery text if it
never connected (`StreamSegue.qml:127`), so that no dialog opens; the model opens it for every
session, and its claims about Resume concern streams that had begun. And the user may leave the
segue while it connects (Escape, `main.qml:346`), which cancels the retries (`StreamSegue.qml:181`)
and takes the segue off the stack; in the model the retries are cancelled by a shutdown, and the
segue stays until its session has ended.

Three pairs of steps are one. A failed initialization leaves the registry (`session.cpp:2394`) and
completes the gate (`session.cpp:2396`): in between nobody reaches the session, which is in no
registry any more. The host's answer comes with the last look at `m_PreserveHostOnExit`
(`session.cpp:1558`): a request delivered between them is seen by that look, as one before both is.
And the callback reads `m_ConnectionStarted` as it marks the gate: nothing reads the gate where that
flag is set, so a callback that read before the store is one that marked the gate before it.

### StartPcvr

`inflight` and `results` are the two tables under `txMu`. A handler's places follow
`handleStartPcvr`: the peer, the probe of vrserver, the codec check, the launcher's
probe, the launch, the mark, the wait. The pointer comparison of `finishTxLocked()` is
the field `holder`: the handler whose `tx.owner` still points at the transaction in the
gate. A launcher that gives up while its goroutine runs on is `SpawnLate`, and the
launch may still be made (`LateSpawn`). `/status` is two steps, because it probes the
dashboard between its probe of vrserver and the use of it. Time is a `Tick` that may
fall anywhere; one tick stands for 30 seconds, so `txTTL` is 1 and the lease 2 ticks, and
because ticks are not tied to the handlers' steps a handler may be arbitrarily slow.
One `/status` request is under way at a time. Requests are those that passed authentication, rate
limits and validation. A panic in a
handler (whose deferred call finishes the transaction) and a restart of the companion
(which forgets both tables) are not modelled.

`LaunchGate` is the gate a client sees: free, preparing, starting, or over (a lease that has run
out). `Phase` calls a transaction starting from the launch on, although the code marks it a step
later: between the two no failure may be reported, because a retry would launch again. `Told` is
what a client that repeats its request would be answered.

### InstanceGuard

Every launch runs `enter()`: it tries the flock (`TakeLock`), else asks the holder of the
control socket for its status, and then asks it to come forward or to give way. `queue[q]`
holds the connections that wait for `accept4()` at `q`; a request stays there after its
client gave up (`live` is false), so a request is served late, by nobody's wish, or, once
the socket changed hands, is refused by the comparison of generations. Launches are
numbered by `launchTimeNs`, and the number is the generation. The service thread's
`serve()` of a replacement is five steps (`ServeReplace`, `Snapshot`, `Fallback`, `Answer`,
`Stop`): it takes the registry's lock, the guard's lock and the socket in turn, and the Qt
thread starts and ends streams between them. Six seconds of waiting are `Rounds` turns of
the loop. A process may die or hang in any state; an instance that hangs is one that takes
no more steps. A signal may end a wait. The stream is one target in the registry: what
the session does on the shutdown that `Stop` requests is `Session`'s subject
(`ReplaceRequest` is one of its inputs).

`Succession` has no sockets, deadlines or service threads. The instance is the holder of the
flock; it is `Closing` from the moment from which whoever asks is told so, which is the coordinator's
flag except while the service thread is deciding what to hand on, and starts when the answer
to the replacement goes out, one step before that flag is set (`Stop`). `HeardFrom` is what a
launch that still waits was told, and by whom.

### Updater

All of it runs on the Qt thread, so an action is a handler: a button (`User`), the reply of
a network stage (`Reply`), a signal of the installer. `u` is the record of the members of
`AutoUpdateChecker`; `Edge` is the reducer's table and `Go` is `applyTransition()`, which
ignores an event the state does not accept. A build stands for its commit, its manifest, its
file and its digest; the publisher's rolling release is the newest build and only moves
forward, which `ReadyIsOne` needs for its claim that what is ready follows what runs. The
disk is the record of the pending update and the set of downloaded files that are intact;
files may be lost at any time, and the removal of a file or of the record may fail. The direct installer's transaction
(`txn`) runs on the host: the exit may be reported before the reply that names the process
(`EarlyExit`), after a timeout, or never. `Restart` ends the application in any state and
starts the build the host has installed then; transactions of earlier runs (`others`) may
still be under way and may finish. The desktop portal is not modelled, since only a test builds
it, nor is the stable channel's check; `downloadUpdate()`, `openInstaller()` and
`discardPendingUpdate()` are reached only through the operations that are.

`Installation` has no checks, files or signals. What is wished for is the build that the
verification under way ends with (`m_InstallAfterVerification`, `WishedFor`); `Truth` is what has
become of the transaction on the host, whether the application has heard of it or not; `Told` is
what the dialog says. The host's refusal is heard in the reply to the call, so it happens and is told
in one step (`Refuse`); its end may be told long after or never, success is never guessed, and `unknown` is final
for the run.

### Enrollment

Every exported operation of `enrollment.Service` holds its mutex, so each is one action,
with the `expireLocked()` it begins with (`Live`, `After`). Deadlines are the time left of
them. The manager acts on the attempt of whichever answer it saw last (`shown`), which may
be out of date; the headset knows the result it polled (`known`). Saving to the store may
fail, and a restart, which may fall between any two operations, starts from what is stored.
An attempt is known by the order of its `Begin`, and so is its device; the cryptography of
proof and commitment is the identity of the caller. The comments at `enrollment.go:102`
and `215` say that a challenge lasts as long as the legacy window in legacy mode; the code
gives every challenge `ChallengeTTL`, and so does the model.

### Admission

`Admission` extends `Enrollment`: each step of `authenticateWithDevice()` is an action of
one of several goroutines (look up the device, check the timestamp, check and add the
nonce, look the device up again), and every operation of the pairing service may come
between them. `age[r]` is the clock less the timestamp of a request, which may be ahead of
the clock. Copies of a request may arrive at any time. A refusal by a rate limiter is a
step that is not taken. The clock is read twice, for the skew and for the cache: a copy whose
timestamp was verified at the very end of the skew and is checked after it may be taken
for new once more, outside the window the property names. A restart forgets the cache,
and `accepted` with it: the companion promises nothing across a restart. How the manager's
own requests are admitted is not composed.

`Authorization` is what the owner was promised of all this: devices ask, the owner approves what
asks or throws out any set of devices, the store remembers across restarts; a request has a date
that is early, good or late, is taken once while it is good, and is served if its device is let in
at that moment. It has no lease, window, challenge, lock or cache. `Owners` maps `Admission` to it:
`asking` is the attempt `Live` has pending, `date` the age against the skew, `hand` what a
goroutine took for new and did not answer.

### UpdateRepository

Three kinds of task replace `currentSnapshot`: the hydration at the start, the runner of a
check, and the update attempt. No lock covers the reading of the snapshot and the storing of the
one made from it, so each writer is two steps with its copy (`prev`) between: `HydrateRead` and
`HydrateWrite`, `RunInFlight` and `SetChecking`, `ToRecord` and `Record`, `FinishRead` and
`FinishWrite`, `PersistMetadata` and `RecordDownloaded`, `TryVerify` and `ClearDownloaded`. What the
code does under `inFlightLock` is one step (`RequestCheck`, `Complete`). A check is an element of
`jobs`, used again when it is complete; of `UpdateFlowCoordinator` the model has what it asks of
the repository: the click, the answer it waits for, the download it records, the verification
that may purge (`att`).

A release is a number. `available` is whose manifest and whose signature lie in
`updates/available`. A temporary file is not truncated (`UpdateRepositoryDiskCache.cs:189`), so the
manifest written over a longer one that a crash left is torn; the model writes it whole, since what the
hydration finds then, a manifest and a signature that do not fit, is also what a failed write of the
signature leaves, which the model has. In a version's directory a leftover is of the same release,
whose bytes are the same, and tears nothing. `disk` has the three files of each version, which are written and deleted one by one, and each of which may fail.
Damage is found only where bytes are hashed, so it is an input of the two verifications. The
hydration tries the directories from the newest, and one that it cannot read or delete ends its search
with nothing found (`hyd.stuck`, `UpdateRepository.cs:519`). `Restart` ends the process at any point; the next one may be any
release that is not older. The throttle's interval, the source's answer and the machine's being
busy are open too. `kept` and `clobbered` are history: the releases published as downloaded and not
since then found damaged, or deleted, and whether a store went over a snapshot its writer had not
read. `RequestCheck` looks for a shutdown outside its lock; both it and `Dispose()` are called by the
UI thread (`MainForm.cs:1534`, `1735`, `2113`), so nothing comes between. `Gate` reads the
token and the throttle in one step: a shutdown between the two changes nothing that the throttle reads.

`SharedCheck` is what is left of it for whoever asks for a check: no snapshot, disk, hydration or jobs,
only the check there is (`stage`), whether somebody who insists asked before it was decided to ask
the source, how the check ended, and what whoever waits was told. `Checking` maps the repository to
it: the check is `jobs[inFlight]` (`Flying`), its program counter tells the stage (`Stage`), its
`force` counts until the throttle was asked (`Insisted`), its outcome once there is one (`Ended`),
and the attempt is who waits (`Waiter`, `WasTold`). A job that joins late, a slot freed before the
last store, a force dropped while the hydration is waited for, or an answer from another check
would each be no step of `SharedCheck`.

## 3. The runs

| Run | Bounds | Distinct states | What it shows |
|---|---|---|---|
| `pacer` | 4 frames, queues of 3, a stream as fast as the display, windows of one sample | 244 thousand | ownership, wakeups, events, render context; the refinement of `FrameChannel`; the destructor returns and every frame goes back to the pool without later ones |
| `session_safety` | 2 sessions, 2 attempts | 3.2 million | the refinement of `StreamTurns`; slot, deletion, resume offer and snapshot, what may end the host's application |
| `session_live` | 1 session, 2 attempts | 135 thousand | a shutdown ends the process, an ending session gives everything up, a break offers Resume |
| `lost_termination` | 1 session, 2 attempts | violation | finding 1 |
| `decoder_failure` | 1 session, 1 attempt | violation | finding 2 |
| `pcvr_safety` | 2 handlers, 2 ids, 2 payloads, 1 slot | 190 thousand | gate, receipts, replays; the refinement of `LaunchGate`; the gate opens again and again |
| `second_launch` | 2 handlers, 2 ids, 2 slots | violation | finding 3 |
| `guard` | 3 launches, 2 rounds, 1 target | 1.3 million | the refinement of `Succession`, no activation of a replaced instance, the handoff reaches the successor, every launch ends |
| `handoff_race` | the same | violation | finding 4 |
| `updater` | 3 builds | 96 thousand | one verified update is ready, installed only when asked for; the refinement of `Installation`: not twice while an outcome is open, and told as it is; operations end |
| `admission` | 2 attempts, 1 device, 2 Begins, 1 request, 2 goroutines, 1 cache entry | 272 thousand (symmetry) | the refinement of `Authorization`: only what was shown is approved, what is gone stays out and is not served, nothing taken for new twice in its window |
| `repository` | 2 releases, 2 checks, 1 restart | 3.2 million | the refinement of `SharedCheck`: one check at a time, shared, answered as it ended; never stuck; hydration overwrites nothing; a recorded download stays on the disk and is offered by every process whose search gets that far; answers and purges are right unless a store was lost |

The type invariants are left out of the runs: they are proved, and TLC checked each while it was
written.

Why the bounds are enough for the cases that matter. Pacer: a queue of three fills with
four frames, so the drop on enqueue and the catch-up loops are reached, and with windows of one
sample the targets change from one V-sync to the next; the code's limit is 4 and its windows are
longer, and a stream slower than the display is left to the theorems, which hold for all of them.
Session: the hazards lie between a session and
its successor, so two sessions are enough to see a resume, a second launch and the
registry passing from one to the other; two attempts have a first and a last one, while
the code's three (`kVirtualDisplayConnectionAttempts`) add one that is neither and behaves
like the first. StartPcvr: an owner and a successor are two handlers; two ids and one slot
make the receipts full. InstanceGuard: three launches are the smallest number in which a
socket changes hands while a third still has a request for the one before; two rounds are
one before and one after the deadline is extended. Updater: three builds are the one that
runs, the one that was verified and the one that replaces it at the publisher. Admission:
the durations differ, so the lease may lapse under a live challenge and under the legacy window;
two attempts are one whose dialog is out of date and one in its place, and meet one place; one
tick of skew has an age at either end of the window, inside and outside it; a request is signed
again once its copies are gone. That a cache full of other requests refuses a new one, and
evicts none, is left to the theorem. UpdateRepository: two releases
are one cached and one newer; `SharedCheck` knows one check, so a second job is already one too many
and no third is needed; one restart has a process before and a process after it. The unbounded
arguments are in the proofs. Only `admission` uses symmetry, and it checks no liveness
property. Deadlock is checked in every run: the last states have explicit stuttering steps
(`Gone`, `Exited`, `Ended`), and the other models never end, except that `UpdateRepository` may
once its restarts are used up and the last process was shut down.

## 4. Fairness

Pacer: each thread that can step eventually does, rendering and waiting for the source
return, and the deadline of a timed wait expires even if wakeups are spurious. The
decoder need not submit, a source need not signal and nobody need destroy the pacer.

Session: one weak fairness per thread: the exec thread or cleanup task of a session, the
callback, the shutdown requester, the delivery of queued calls by the Qt thread, and
its leaving of the event loop. Calls to the library, SDL and the host return, which
the timeouts in the code ensure. Nothing is assumed of the user, the device, the
connection or the host.

StartPcvr: every call a handler makes has a timeout, so a handler goes on
(`WF_vars(Serve(h))`), and time passes (`WF_vars(Tick)`). Nothing is assumed of SteamVR
or of `/status`.

InstanceGuard: some process in `enter()` goes on while one can
(`WF_vars(\E p : Enter(p))`), because each of its waits has a deadline. Nothing is assumed
of the instance it asks, which may hang, nor of the user.

Updater: a request is answered, fails or runs into one of its timers (`WF_vars(Reply)`),
and the installer reports or its timer expires (`WF_vars(LoseInstaller)`). Nothing is
assumed of the user, the publisher or the host.

UpdateRepository, Enrollment and Admission are safety specifications: nothing there has to happen.
`NoCheckStuck` says of a check what fairness would need: that its runner, which only moves
forward, can always take its next step.

## 5. What is proved

All theorems hold for every value of the constants allowed by the modules' named
assumptions: positive queue limits and rates of at least two per second (`Pacer`), any
number of sessions and at least one attempt (`Session`), a finite set of ids and
positive capacity, TTL and lease (`StartPcvr`), any number of launches and targets and at
least one round (`InstanceGuard`), any number of builds (`Updater`), positive durations and
capacities (`Enrollment`, `Admission`), any sets of requests and goroutines (`Admission`), any
number of releases, checks and restarts (`UpdateRepository`).

**Pacer.** Types and queue bounds go together (`TypeInv`). `ControlInv` relates the
destructor's place, the source and the renderer's place to `stopping`, `cleaned` and
`asleep`; `NoLostWakeup` is inductive above both, since a thread goes to sleep only in the
critical section that saw nothing to do. `FrameInv` adds what a thread holds outside the
lock; it is needed because order and ownership would otherwise be lost while a catch-up loop
has released the lock. The refinement follows from the same facts: every critical section
is a `Send`, `Deliver` or `Lose` of the channel, or a stutter. `ChannelImplemented` is that
theorem. Three theorems (`QueuesBounded`, `OrderKept`, `NothingHandedOffAfterStop`) state
properties that no run lists, because the refinement or the type invariant subsumes them there.
`JoinsCountDown` is the safety half of `DestructorReturns`. After the stop nobody sleeps
(`JoinsAttended`, from `NoLostWakeup`), and each thread has a rank: the way from its place to its end
and the frames it may still drop, one by one. Its own steps lower that rank and nobody raises it; not
the decoder either, since a frame is submitted only before the destructor fires.

**Session.** No property of the run is inductive alone. `IInv` conjoins:
`TypeOK`; `AttemptsInv` (the attempt counter against the place);
`SlotInv`, `ConnInv` (who may hold the slot and the connection, and where);
`SegueInv`, `InboxInv` (the segue's session, at most one completion per session, no
call for a deleted one); `RegistryInv`, `CleanedInv`; `ReasonInv`, `TextInv`, `OfferInv`
and `KeptInv` (what a queued recovery text, the open dialog and the registry's offer
imply of the gate); and `PreserveInv` (once a replace request has notified the registry,
every session that may still decide about the host has the Preserve flag). The step
theorem has one case per action and one step per part the action can disturb. Safety
invariants and the two action properties about the host's application follow.

The refinement (`StreamTurnsImplemented`) needs no more of the invariant than these parts:
`SegueInv` makes the session of the segue the only one present, so that a new turn finds nobody;
`ConnInv` puts the connection and the callback into a turn; `CleanedInv` has a session judged before
its cleanup decides anything, and `KeptInv` says on what grounds it quits the host's application.
The proof sorts the steps by what the user sees: a step within a turn that changes nothing
(`QuietSeen`), one that sets bits of an end (`EndSeen`), one that loses the stream (`BreakSeen`);
what is left are the turn's own events. `StopsBeforeCompletion` is no property of the run any more,
since `Close` and `Fail` of `StreamTurns` say most of it; its theorem stays.

Two theorems say what the findings leave. A dead connection is known to its callback, to the gate,
or to the flag of the attempts (`DeathInv`), and that flag is raised only where terminations are
suppressed: so `OnlyRecordedIsMissed`, a stream goes on over a dead connection for no other reason
than finding 1. `HostQuitsWhenWanted` says that every quit request is the user's wish or
the preference of a session that reported nothing lost, so of the failures the user is told of only
a decoder's (finding 2) can end the host's application.

Three theorems are safety halves of the run's liveness properties, which TLC checks with one session
only. Nobody marks a session before it is exec'd, unless the process leaves, and one that is done has
its completion queued or the dialog open (`EndInv`). With that, `EndingsCountDown` (for
`EndingCompletes`) gives a terminating session the rank `StepsLeft`: the way from its place to the end
of its cleanup, and four steps for each connection attempt that may still be made. Its own steps lower
that rank; those of others leave it. It may have to wait for the callback or for the shutdown request it made, and these
have a rank as well (`OthersLeft`), which no step raises meanwhile. `LostStreamsOffered` (for
`BreakOffersResume`) says where a recoverable session may be deleted: from its dialog, because its
recovery text was queued before its completion (`TextInv`) and a done session is cleaned
(`FinishedInv`). `ShutdownIsHeard` (for `ShutdownCompletes`) follows a request past the notifier:
whoever is exec'd by then or later is terminating (`MarkedInv`), and the request to quit the event
loop is queued, done, or carried by a session whose flag says so (`HeardInv`).

**StartPcvr.** `IInv` is `TypeOK`, `PreflightHoldsGate`, `SlotReserved` and
`GateHasNoReceipt` (the request in the gate has no standing receipt, or a retry would have
been answered from it). Steps are sorted by what they do to the two tables: keep both, open
the gate, take it, finish a transaction. Each kind preserves the invariant by one lemma.
The refinement (`GateImplemented`) needs one fact more, `Prepared`: a transaction that is not
dispatched belongs to a handler that prepares its launch, so that only that handler can make the
gate start. With it, every action is one step of `LaunchGate` or a stutter: a refused request that
finds a lease run out is a `Leave`, the marks and the waits change nothing a client sees.
`FreshObservationsSuffice` isolates finding 3: if no transaction is declared started while a
launch is still to come up, then `LaunchHoldsGate` is inductive, and no second launch is made inside
a lease. TLC confirms that behaviours with launches satisfy the condition.
`GateCountsDown` is the safety half of `GateOpens`: by `Prepared` an undispatched transaction has a
handler on its way to `markDispatched()` or `completeTx()`, and a dispatched one a lease that time
runs down; `GateStepsLeft` counts both, and no other request, `/status` or SteamVR adds to it.

**InstanceGuard.** The safety properties are about the past of a request, so the invariant
is about the requests under way: `InvSlots` (what a request says was true of its sender and
still is, and a live one has a sender that waits for it), `InvOnce` (a launch has at most one live
request, wherever it is), `InvServe` (what the service thread serves past `accept` is a
replacement meant for it), `InvSafe` (a launch about to activate does not speak to the
instance it had replaced) and `InvTold` (who told a waiter that it closes will not look up
again what it hands on). `ReplacesOlder` and `NeverActivatesReplaced` follow from the
first four, `HandoffKept` is part of the last. The refinement (`SuccessionImplemented`) adds
`InvHolder`: the flock is held by the process that binds the socket or is the instance, and a
process that waits has nothing of its own but what an instance told it. The proof first brings the
steps of each thread into a common shape (`EntersAs`, `ServesAs`, `LivesAs`: what changes of
the state that users can see) and then maps the shapes: an answer is a `Close`, an `Activate`,
a `Forget` or a stutter by what its client hears. `ReplacesOlder` is no property of the run
any more, since a `Replace` of `Succession` says it; its theorem stays.

Two theorems stand beside properties that cannot be proved or do not hold. `WaitsCountDown` is the
safety half of `LaunchesEnd`: `StepsLeft`, a natural number, is lowered by every step of a launch
in `enter()` and raised by none of the others' steps or answers, so with the fairness of section 4
a launch takes finitely many steps there, whoever answers it and however often. `NoOtherHandedOn` is what
finding 4 leaves: between the two reads what was to be resumed can only be cleared, so the
answer may miss the session but never names another one.

**Updater.** `Inv` adds to the type invariant what each state promises of the update.
`Bounds` says that nothing the updater has read is newer than what is published, and that is
what carries the rest: the publisher only moves forward, so when it still names the expected
build, no candidate can be later. `Offer` (a candidate follows the build that runs and is no
older than what was expected), `Again` (the builds of an update that was verified before are one,
and not the one that runs), `Wish` (an installation to follow is of the candidate) and `Stage`
(which state waits for which reply) lead to `ReadyIsOne`. These parts take the updater's record
as a parameter, so that one lemma follows it through the several steps of a handler, and the
step theorem has one case per handler. `HostInv` relates the dialog, the installer and its
transaction: the dialog says that it installs exactly while the installer is in use, it cannot be
left (`Closed`) while what has become of the transaction may be open, and an exit that came before
the reply naming its process is the transaction's own.

The refinement (`InstallationImplemented`) sorts the steps by what they have to do with an
installation. A handler of a button or a reply that has nothing to do with it (`Quiet`) can only make,
change or drop a wish: a `Choose`. The verification that ends with a hand-off (`HandsOff`) is an
`Ask`, or a `CannotAsk` if the file cannot be handed over. The host's own steps are an `End` or a
stutter, what the installer hears of it (`Heard`) a `Tell` or a `Refuse`, and a restart is a
`Forget`. Here the invariant has to say that success is told only of a transaction
that is done, and failure only of one that failed, early exits included. `NoSecondInstall` is
no property of the run any more, since an `Ask` says it; its theorem (`NoSecondRequest`) stays.

`OperationsCountDown` is the safety half of `OperationsEnd`. The requests of an operation have one
order (`Follows`): the download, the three that verify it, and the four of a check, which is where a
verification that the publisher has overtaken begins again; an installer is left with its reply and
its exit. `StepsLeft` counts them. While the updater is busy one of them is waited for (`Attended`,
whose part for the network is in `Stage`), each answer, failure or timer lowers the rank, and a
publication, a lost file, the host or a button never raises it while the updater stays busy. What
fairness adds is that the answer or its timer comes.

**Enrollment.** `InvLapse` (an attempt that has seen pairing closed is approved, or sees it closed
still) and `InvGone` (what is gone was begun, and is not in the slot unless it was approved)
carry `GoneStaysGone` and the action property `ApprovedIsShown`.

**Admission.** Over the invariant of `Enrollment`: `InvServing` (a request past the skew
check is no further ahead than the skew) and `InvRemembered` (a request taken for new is in
the cache while it is within the skew). The two ends of the window meet there: the entry is
dropped only past the age at which the skew check refuses the request.
`AuthorizationImplemented` needs no more. An operation of the pairing service is one of four shapes
to the owner (`OperationSeen`: it asks, withdraws, approves or throws out), since the attempt that
can be approved is the one that `expireLocked()` leaves (`AskingKept`); a step of a goroutine is
seen when it takes a request or answers it, and `InvRemembered` says that what it took while the
date was good it had not taken before; time moves dates forward and may withdraw an asking.

**UpdateRepository.** `InvFlight` (a check exists while it is the one in flight, and a freed
slot has no runner left) gives `OneRunner` (`OneCheckRuns`, no property of the run any more, since a
second check is no step of `SharedCheck`); `InvStart` (nobody got past waiting for the
hydration before it stored) gives `NothingToOverwrite`. `InvFiles` says that the files of what
was recorded, and of what the hydration has found, are whole, and `InvFresh` that what was found
is newer than what runs; `DurableDownload` stands on both, the newest complete download being
found by well-foundedness of `<`, without induction. A failed deletion or an unreadable directory takes
nothing out of `kept` but what was found damaged: what it costs is that this process offers nothing,
which the theorem says (`hyd.stuck`), and the files remain for the one that follows. `InvSnap` is about the copies that tasks
hold between a read and a store: while every store was made from the snapshot it replaced, they
still say what the snapshot says. It carries `FaithfulUnlessClobbered`, and does so only under
that condition, as section 6 explains. `ChecksCountDown` is the safety half of `NoCheckStuck`, which
needs ENABLED: `CheckStepsLeft`, a natural number, is lowered by every step of a check's runner and
raised by no other step, whoever joins the check or shuts the window, and whoever waits for an answer
waits for a check that is not at its end. What stays with TLC is that the runner can always take a step.
The refinement (`SharedCheckImplemented`) needs one more invariant, `InvOpen`: a check that
has no answer yet has no outcome. Only the job in the slot is seen (`Flying`), so the proof follows that
one. A step of its runner within a stage is a stutter; `Gate` is a `CutOff`, a `Skip` or an
`AskSource`; what the source answered is a `Conclude`, where the store of a failure ends it too;
`Complete` is a `Tell`, since it frees the slot and answers the waiter at once. A request
is a `Wait` or a `Tick`, whether it joins a check or begins one. The hydration and the rest of
the attempt change nothing that is seen, but for the attempt's end, a `Leave`.

Only model-checked: the liveness properties, `NoCheckStuck`, and the findings, which are violations. The
first rest on fairness and the second on ENABLED. Of six of them the rest is proved, a rank that goes
down and somebody to lower it, by the theorems whose names end in `CountDown` or `CountsDown`:
`JoinsCountDown` for `DestructorReturns`, `GateCountsDown` for `GateOpens`, `WaitsCountDown` for
`LaunchesEnd`, `OperationsCountDown` for `OperationsEnd`, `ChecksCountDown` for `NoCheckStuck` and
`EndingsCountDown` for `EndingCompletes`. Of two more a safety half is proved: `LostStreamsOffered`
for `BreakOffersResume` and `ShutdownIsHeard` for `ShutdownCompletes`. `session_live` covers
one session only; the three theorems beside it cover any number.

## 6. Findings

1. `lost_termination` (`DeadStreamEnds`): `docs/STEAM_DECK.md` says that four outcomes cover every
   termination a session can observe. With the virtual display retry on, a termination that
   arrives after the last look at the attempt's flag and before the suppression ends is only
   recorded: nobody reads the record, and the window opens over a dead connection until the
   user leaves. Nothing else can cause it (`OnlyRecordedIsMissed`).
2. `decoder_failure` (`DecoderFailureKeepsHost`): the document says that unexpected failures
   preserve the host's application. A decoder that cannot be recreated leaves the loop without
   setting `m_UnexpectedTermination` or the gate, so with the preference to quit applications
   the cleanup quits the game; without the preference it does not (`HostQuitsWhenWanted`).
3. `second_launch` (`SingleLaunch`): `/status` uses an observation of vrserver that may be older
   than the transaction it resolves, so a launch in progress can be declared started and
   the next request launches SteamVR again inside the lease. Nothing else can cause it
   (`FreshObservationsSuffice`).
4. `handoff_race` (`PendingHandoffKept`): a test of the process lifecycle says that a replacement
   during a pending handoff keeps its target. `serve()` reads the registry and then the pending
   handoff, under two locks; `Session::exec()` registers the session and clears the handoff
   between the two reads, and the launch that takes over resumes nothing.

Smaller disagreements, without a run of their own. Of the manager's updates, four. A comment at
`UpdateFlowCoordinator.cs:71` says that only a cache whose bytes fail verification is purged: the
end of a check (`UpdateRepository.cs:643`) reads the snapshot before, and stores it after, a download
is recorded, the verification (`UpdateFlowCoordinator.cs:761`) finds the older release, and the good
file is deleted. A comment at `UpdateRepository.cs:167` says that a waiting click gets the terminal
snapshot of its check: a store by the attempt before may go over the outcome just recorded, and a
failed check is answered as an up-to-date machine. TLC finds both when `OnlyDamagedPurged` or
`FaithfulAnswer` is checked without the condition that `FaithfulUnlessClobbered` puts on them.
The search of the hydration is for the "newest valid" download (`UpdateRepository.cs:516`), and a
test describes that a fresh process "restores the downloaded slot" (`UpdateRepositoryTests.cs:799`): one newer
directory that cannot be read, or is damaged and cannot be deleted, ends it in the `catch` of
`UpdateRepository.cs:519`, and an older release, recorded and intact, is not offered by that process.
TLC finds this when the disjunct `hyd.stuck >= r` is dropped from `DurableDownload`.
And temporary files are opened without being truncated
(`UpdateRepositoryDiskCache.cs:189`): a manifest written over a longer one that a crash left there
is torn, and recorded as available all the same. The next hydration rejects it, and no
property speaks of an offer that has to survive the process.
In the companion, the comments at `server.go:204-206` and `244-248` say the
lease clears any forgotten transaction, while `start_pcvr.go:386` expires only dispatched
ones, as the comment at `start_pcvr.go:370-373` says it must; and the comment on the lifetime of a
challenge in legacy mode (see Enrollment above).

## 7. Not modelled, and the plan

The `not_modelled` components of `PROJECT.json` give the reason for each. Parsing, formatting,
device and process calls, and vendored code stay out. Of the partly modelled ones: the session's
media configuration, windows and input; the forced exit of the watchdog; the rate limiters
of the companion (token buckets whose only effect is a refusal); `roles.go` and the older
`pairing.go`; the updater's stable channel, and the desktop portal, which only a test builds.
The next modules, in this order:

1. `InstanceGuard` composed with `Session`, so that the target a session registers is the
   one a successor resumes.
2. `InstallSession` (overlay), `UpdateFlow` (Windows manager), `Polling` (computer manager):
   one run each.
3. The stable channel's check in `Updater`.
