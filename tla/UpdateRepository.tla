-------------------------- MODULE UpdateRepository --------------------------
(***************************************************************************)
(* The update repository of the Windows manager                            *)
(* (VibertemisManager.Core/Update/UpdateRepository.cs and its disk cache): *)
(* what is on offer and what is downloaded, kept in one snapshot that the  *)
(* hydration, the check runner and the update attempt replace, each on a   *)
(* pool thread, by reading it and storing a new one.  The two are separate *)
(* steps here, as no lock covers them.                                     *)
(*                                                                         *)
(* Releases are numbered by their sequence.  The process may end at any    *)
(* point; the next one finds what the disk holds.                          *)
(***************************************************************************)
EXTENDS Integers

CONSTANTS
    NumReleases,    \* releases that are published, in order
    MaxJobs,        \* checks that can be alive at once, if coalescing allowed it
    MaxRestarts     \* times the manager is started again

ASSUME RepositoryBounds == NumReleases \in Nat /\ MaxJobs \in Nat /\ MaxRestarts \in Nat

Releases == 1 .. NumReleases
NoRelease == 0
Slots == Releases \cup {NoRelease}
Jobs == 1 .. MaxJobs
NoJob == 0

\* UpdateRepository.Snapshot: last is the outcome its timestamps and LastError tell of
Snapshots == [avail : Slots, down : Slots, last : {"never", "ok", "failed"}, checking : BOOLEAN]

Empty == [avail |-> NoRelease, down |-> NoRelease, last |-> "never", checking |-> FALSE]

CheckKinds == {"open", "throttled", "failed", "nothing", "found"}

\* An InFlight and where its runner is; prev is the snapshot it has read last
CheckJobs == [pc : {"none", "queued", "mark", "gate", "fetch", "store", "sig",
                    "record", "finish", "publish", "complete"},
              force : BOOLEAN,
              kind : CheckKinds,
              rel : Slots, prev : Snapshots]

NoCheck == [pc |-> "none", force |-> FALSE, kind |-> "open", rel |-> NoRelease,
            prev |-> Empty]

\* The update attempt, as far as it uses the repository
Attempts == [pc : {"idle", "asked", "answered", "exe", "manifest", "signature", "record",
                   "verify", "delete", "clear"},
             rel : Slots, job : Jobs \cup {NoJob},
             damaged : BOOLEAN, prev : Snapshots, kind : CheckKinds]

NoAttempt == [pc |-> "idle", rel |-> NoRelease, job |-> NoJob,
              damaged |-> FALSE, prev |-> Empty, kind |-> "open"]

VARIABLES
    snap,       \* currentSnapshot
    inFlight,   \* the job RequestCheck() joins
    jobs, att,
    hyd,        \* the hydration task: where it is, what it found, where it failed, what it read
    shut,       \* Dispose() was called
    available,  \* updates/available: whose manifest and whose signature
    disk,       \* updates/downloaded/<version>
    installed,  \* what this process was built as
    restarts,
    \* History: a snapshot was stored over one its writer had not read; the releases published
    \* as downloaded and not since then found damaged, or deleted
    clobbered, kept

memory == <<snap, inFlight, jobs, att, hyd, shut>>
stored == <<available, disk, kept>>
vars == <<memory, stored, installed, restarts, clobbered>>

TypeOK ==
    /\ snap \in Snapshots
    /\ inFlight \in Jobs \cup {NoJob}
    /\ jobs \in [Jobs -> CheckJobs]
    /\ att \in Attempts
    /\ hyd \in [pc : {"read", "write", "done"}, avail : Slots, down : Slots, stuck : Slots,
                prev : Snapshots]
    /\ shut \in BOOLEAN /\ clobbered \in BOOLEAN
    /\ available \in [manifest : Slots, signature : Slots]
    /\ disk \in [Releases -> [exe : BOOLEAN, manifest : BOOLEAN, signature : BOOLEAN]]
    /\ installed \in Slots
    /\ restarts \in 0 .. MaxRestarts
    /\ kept \subseteq Releases

Absent == [exe |-> FALSE, manifest |-> FALSE, signature |-> FALSE]
Unread == [pc |-> "read", avail |-> NoRelease, down |-> NoRelease, stuck |-> NoRelease,
           prev |-> Empty]

Init ==
    /\ snap = Empty /\ inFlight = NoJob
    /\ jobs = [j \in Jobs |-> NoCheck]
    /\ att = NoAttempt /\ hyd = Unread
    /\ shut = FALSE /\ clobbered = FALSE
    /\ available = [manifest |-> NoRelease, signature |-> NoRelease]
    /\ disk = [r \in Releases |-> Absent]
    /\ installed = NoRelease /\ restarts = 0 /\ kept = {}

-----------------------------------------------------------------------------
(* The snapshot *)

\* currentSnapshot = new Snapshot(...), made from prev
Store(prev, new) ==
    /\ snap' = new
    /\ clobbered' = (clobbered \/ prev # snap)

\* What ShouldRunByThrottle(force) may say; whether the interval has passed is left open
Throttle(s, force) == IF force \/ s.last = "never" THEN {TRUE} ELSE BOOLEAN

\* Snapshot.HasDownloaded, and the slot as the attempt may use it
Downloaded(s) == IF s.down # NoRelease /\ disk[s.down].exe THEN s.down ELSE NoRelease

\* PinTarget(): the newest on offer, the cache only if it holds that one
PinTarget(s) ==
    LET newer(r) == IF r > installed THEN r ELSE NoRelease
    IN IF newer(s.avail) # NoRelease THEN s.avail ELSE newer(Downloaded(s))

-----------------------------------------------------------------------------
(* Hydration *)

Whole(r) == disk[r].exe /\ disk[r].manifest /\ disk[r].signature

\* Bug: the directories are tried in the order of their names, "0.1.0.10" before "0.1.0.9"
BadNewest(S) == IF S = {} THEN NoRelease ELSE CHOOSE r \in S : \A t \in S : r <= t
Newest(S) == IF S = {} THEN NoRelease ELSE CHOOSE r \in S : \A t \in S : t <= r

Hydrated(found, stuck) ==
    LET m == available.manifest
    IN [pc |-> "write", prev |-> snap, stuck |-> stuck,
        down |-> IF stuck = NoRelease THEN found ELSE NoRelease,
        avail |-> IF m = available.signature /\ m > installed THEN m ELSE NoRelease]

\* What is left when the manifest, the signature and the installer are deleted in the order of
\* their names, up to the first that cannot be
Remains(d, n) == [exe |-> d.exe /\ n < 3, manifest |-> d.manifest /\ n = 0,
                  signature |-> d.signature /\ n < 2]

\* Everything HydrateFromCache() reads.  The directories are tried from the newest, up to the
\* first that holds; those not newer than what runs are deleted, and so are the damaged ones
\* whose files have the right size.  A directory that cannot be read or deleted (stuck; the
\* newest also stands for a failure to list them) ends the search with nothing found.
HydrateRead ==
    /\ hyd.pc = "read"
    /\ \E bad \in SUBSET Releases :
         LET found == Newest({r \in Releases \ bad : Whole(r) /\ r > installed})
             failed == {r \in Releases : Whole(r) /\ r > found}
         IN \E skipped \in SUBSET (bad \cap failed), stuck \in Slots, n \in 0 .. 3 :
              /\ stuck = NoRelease \/ stuck >= found
              /\ n = 0 \/ stuck \in failed \ skipped
              /\ disk' = [r \in Releases |->
                            IF r > stuck /\ r \in failed \ skipped THEN Absent
                            ELSE IF r = stuck THEN Remains(disk[r], n) ELSE disk[r]]
              /\ kept' = kept \ {r \in bad \cap failed : r >= stuck}
              /\ hyd' = Hydrated(found, stuck)
    /\ UNCHANGED <<snap, inFlight, jobs, att, shut, available, installed, restarts, clobbered>>

HydrateWrite ==
    /\ hyd.pc = "write"
    /\ Store(hyd.prev, [hyd.prev EXCEPT !.avail = hyd.avail, !.down = hyd.down,
                                        !.checking = FALSE])
    /\ hyd' = [Unread EXCEPT !.pc = "done"]
    /\ UNCHANGED <<inFlight, jobs, att, shut, stored, installed, restarts>>

-----------------------------------------------------------------------------
(* Checks *)

Idle(j) == jobs[j].pc = "none"

\* Bug: the slot is not looked at, every request starts a check
BadJoined(j) == Idle(j) /\ \A i \in Jobs : i < j => ~Idle(i)
\* The InFlight a request gets: the one in the slot, or a new one
Joined(j) == IF inFlight # NoJob THEN j = inFlight
             ELSE Idle(j) /\ \A i \in Jobs : i < j => ~Idle(i)

\* RequestCheck(): under its lock, coalesce on the job in flight or start one.  It looks for a
\* shutdown before it takes the lock; the UI thread runs both, so none comes between.
RequestCheck(j, force) ==
    /\ ~shut
    /\ Joined(j)
    /\ inFlight' = j
    /\ jobs' = [jobs EXCEPT ![j] =
                  IF Idle(j) THEN [NoCheck EXCEPT !.pc = "queued", !.force = force]
                  ELSE [jobs[j] EXCEPT !.force = jobs[j].force \/ force]]

\* The timer asks the throttle, then for a check.  An attempt keeps it from asking.
Tick ==
    /\ att.pc = "idle" /\ TRUE \in Throttle(snap, FALSE)
    /\ \E j \in Jobs : RequestCheck(j, FALSE)
    /\ UNCHANGED <<snap, att, hyd, shut, stored, installed, restarts, clobbered>>

At(j, pc) == jobs[j].pc = pc
Others == <<inFlight, att, hyd, shut, installed, restarts>>

\* Bug: the runner does not wait for the hydration
BadRunInFlight(j) ==
    /\ At(j, "queued")
    /\ jobs' = [jobs EXCEPT ![j].pc = "mark", ![j].prev = snap]
    /\ UNCHANGED <<Others, snap, stored, clobbered>>
\* AwaitHydrationAsync(), then SetChecking(true) reads
RunInFlight(j) ==
    /\ At(j, "queued") /\ hyd.pc = "done"
    /\ jobs' = [jobs EXCEPT ![j].pc = "mark", ![j].prev = snap]
    /\ UNCHANGED <<Others, snap, stored, clobbered>>

SetChecking(j) ==
    /\ At(j, "mark")
    /\ Store(jobs[j].prev, [jobs[j].prev EXCEPT !.checking = TRUE])
    /\ jobs' = [jobs EXCEPT ![j].pc = "gate", ![j].prev = Empty]
    /\ UNCHANGED <<Others, stored>>

\* The step that follows a result: read the snapshot to record it in
ToRecord(j, kind, r) ==
    jobs' = [jobs EXCEPT ![j].pc = "record", ![j].kind = kind, ![j].rel = r, ![j].prev = snap]

\* Bug: the lifecycle token keeps the body from running, so that nobody finishes the job
BadGate(j) ==
    /\ At(j, "gate") /\ ~shut
    /\ \E run \in Throttle(snap, jobs[j].force) :
         jobs' = [jobs EXCEPT ![j].pc = IF run THEN "fetch" ELSE "finish",
                              ![j].kind = IF run THEN "open" ELSE "throttled"]
    /\ UNCHANGED <<Others, snap, stored, clobbered>>
\* The lifecycle token, then the throttle
Gate(j) ==
    /\ At(j, "gate")
    /\ \/ shut /\ ToRecord(j, "failed", NoRelease)
       \/ /\ ~shut
          /\ \E run \in Throttle(snap, jobs[j].force) :
               jobs' = [jobs EXCEPT ![j].pc = IF run THEN "fetch" ELSE "finish",
                                    ![j].kind = IF run THEN "open" ELSE "throttled"]
    /\ UNCHANGED <<Others, snap, stored, clobbered>>

\* The source answers, or cannot
CheckAsync(j) ==
    /\ At(j, "fetch")
    /\ \/ ToRecord(j, "failed", NoRelease)
       \/ ToRecord(j, "nothing", NoRelease)
       \/ \E r \in Releases :
            /\ r > installed
            /\ jobs' = [jobs EXCEPT ![j].pc = "store", ![j].kind = "found", ![j].rel = r]
    /\ UNCHANGED <<Others, snap, stored, clobbered>>

\* PersistAvailable(): the manifest is replaced, and then its signature.  A manifest torn by what
\* an earlier process left in the temporary file fits its signature no better than one whose
\* signature could not be written, which is what the hydration sees of it.
PersistAvailable(j) ==
    /\ At(j, "store")
    /\ \/ /\ available' = [available EXCEPT !.manifest = jobs[j].rel]
          /\ jobs' = [jobs EXCEPT ![j].pc = "sig"]
       \/ ToRecord(j, "failed", NoRelease) /\ UNCHANGED available
    /\ UNCHANGED <<Others, snap, disk, kept, clobbered>>

PersistSignature(j) ==
    /\ At(j, "sig")
    /\ \/ /\ available' = [available EXCEPT !.signature = jobs[j].rel]
          /\ ToRecord(j, "found", jobs[j].rel)
       \/ ToRecord(j, "failed", NoRelease) /\ UNCHANGED available
    /\ UNCHANGED <<Others, snap, disk, kept, clobbered>>

\* Bug: a failed check keeps the outcome of the one before it
BadRecorded(prev, kind, r) ==
    [prev EXCEPT !.avail = IF kind = "found" THEN r ELSE @,
                 !.last = IF kind = "failed" THEN @ ELSE "ok",
                 !.checking = FALSE]
\* RecordAvailable(), RecordNoNewerAvailable(), RecordFailure()
Recorded(prev, kind, r) ==
    [prev EXCEPT !.avail = IF kind = "found" THEN r ELSE @,
                 !.last = IF kind = "failed" THEN "failed" ELSE "ok",
                 !.checking = FALSE]

Record(j) ==
    /\ At(j, "record")
    /\ Store(jobs[j].prev, Recorded(jobs[j].prev, jobs[j].kind, jobs[j].rel))
    /\ jobs' = [jobs EXCEPT ![j].pc = "finish", ![j].prev = Empty]
    /\ UNCHANGED <<Others, stored>>

\* FinishInFlight(): the final snapshot is read, stored, and answered with
FinishRead(j) ==
    /\ At(j, "finish")
    /\ jobs' = [jobs EXCEPT ![j].pc = "publish", ![j].prev = snap]
    /\ UNCHANGED <<Others, snap, stored, clobbered>>

Final(j) == [jobs[j].prev EXCEPT !.checking = FALSE]

FinishWrite(j) ==
    /\ At(j, "publish")
    /\ Store(jobs[j].prev, Final(j))
    /\ jobs' = [jobs EXCEPT ![j].pc = "complete"]
    /\ UNCHANGED <<Others, stored>>

\* Under the lock: the slot is cleared and whoever waits gets the final snapshot
Complete(j) ==
    /\ At(j, "complete")
    /\ jobs' = [jobs EXCEPT ![j] = NoCheck]
    /\ inFlight' = IF inFlight = j THEN NoJob ELSE inFlight
    /\ att' = IF att.pc = "asked" /\ att.job = j
              THEN [att EXCEPT !.pc = "answered", !.job = NoJob, !.prev = Final(j),
                               !.kind = jobs[j].kind, !.rel = jobs[j].rel]
              ELSE att
    /\ UNCHANGED <<snap, hyd, shut, stored, installed, restarts, clobbered>>

Runner(j) ==
    \/ RunInFlight(j) \/ SetChecking(j) \/ Gate(j) \/ CheckAsync(j) \/ PersistAvailable(j)
    \/ PersistSignature(j) \/ Record(j) \/ FinishRead(j) \/ FinishWrite(j) \/ Complete(j)

-----------------------------------------------------------------------------
(* The attempt: UpdateFlowCoordinator as a user of the repository *)

Doing(pc) == att.pc = pc
Bystanders == <<inFlight, jobs, hyd, shut, installed, restarts>>
End == att' = NoAttempt

\* A target is pinned from s: verify the copy that is cached, or download
Pin(s) ==
    LET r == PinTarget(s)
    IN att' = [NoAttempt EXCEPT !.pc = IF Downloaded(s) = r THEN "verify" ELSE "exe", !.rel = r]

\* The click: with nothing to install it asks for a check of its own
Click ==
    /\ Doing("idle") /\ ~shut
    /\ IF PinTarget(snap) # NoRelease THEN Pin(snap) /\ UNCHANGED <<inFlight, jobs>>
       ELSE \E j \in Jobs :
              /\ RequestCheck(j, TRUE)
              /\ att' = [NoAttempt EXCEPT !.pc = "asked", !.job = j]
    /\ UNCHANGED <<snap, hyd, shut, stored, installed, restarts, clobbered>>

\* CheckThenPinAsync() goes on with the snapshot it was answered with
TakeAnswer ==
    /\ Doing("answered")
    /\ IF att.prev.last # "failed" /\ PinTarget(att.prev) # NoRelease THEN Pin(att.prev)
       ELSE End
    /\ UNCHANGED <<Bystanders, snap, stored, clobbered>>

\* Cancelled, refused for a busy machine, or failed before anything is recorded; a verified
\* update that is handed off leaves the repository alone too
GiveUp ==
    /\ att.pc \in {"asked", "answered", "exe", "verify"}
    /\ End
    /\ UNCHANGED <<Bystanders, snap, stored, clobbered>>

DeleteDownloaded(r) ==
    /\ \E n \in 0 .. 3 : disk' = [disk EXCEPT ![r] = Remains(@, n)]
    /\ kept' = kept \ {r}

\* RecordDownloaded(): the installer is copied and its digest compared
PersistInstaller ==
    /\ Doing("exe")
    /\ \/ /\ disk' = [disk EXCEPT ![att.rel].exe = TRUE]
          /\ att' = [att EXCEPT !.pc = "manifest"]
          /\ UNCHANGED kept
       \/ DeleteDownloaded(att.rel) /\ End
    /\ UNCHANGED <<Bystanders, snap, available, clobbered>>

PersistManifest ==
    /\ Doing("manifest")
    /\ \/ /\ disk' = [disk EXCEPT ![att.rel].manifest = TRUE]
          /\ att' = [att EXCEPT !.pc = "signature"]
          /\ UNCHANGED kept
       \/ DeleteDownloaded(att.rel) /\ End
    /\ UNCHANGED <<Bystanders, snap, available, clobbered>>

PersistMetadata ==
    /\ Doing("signature")
    /\ \/ /\ disk' = [disk EXCEPT ![att.rel].signature = TRUE]
          /\ att' = [att EXCEPT !.pc = "record", !.prev = snap]
          /\ UNCHANGED kept
       \/ DeleteDownloaded(att.rel) /\ End
    /\ UNCHANGED <<Bystanders, snap, available, clobbered>>

RecordDownloaded ==
    /\ Doing("record")
    /\ Store(att.prev, [att.prev EXCEPT !.down = att.rel, !.last = "ok",
                                        !.checking = FALSE])
    /\ att' = [att EXCEPT !.pc = "verify", !.prev = Empty]
    /\ kept' = kept \cup {att.rel}
    /\ UNCHANGED <<Bystanders, available, disk>>

\* TryVerify(): the bytes, which may be damaged, then the live snapshot
TryVerify ==
    /\ Doing("verify")
    /\ \E damaged \in BOOLEAN :
         /\ damaged \/ Downloaded(snap) \notin {NoRelease, att.rel}
         /\ att' = [att EXCEPT !.pc = "delete", !.damaged = damaged, !.prev = snap]
    /\ UNCHANGED <<Bystanders, snap, stored, clobbered>>

\* ClearDownloadedAfterInstall(): the files go between the read and the store
ClearFiles ==
    /\ Doing("delete")
    /\ DeleteDownloaded(att.rel)
    /\ att' = [att EXCEPT !.pc = "clear"]
    /\ UNCHANGED <<Bystanders, snap, available, clobbered>>

ClearDownloaded ==
    /\ Doing("clear")
    /\ IF att.prev.down = att.rel THEN Store(att.prev, [att.prev EXCEPT !.down = NoRelease])
       ELSE UNCHANGED <<snap, clobbered>>
    /\ End
    /\ UNCHANGED <<Bystanders, stored>>

Attempt ==
    \/ Click \/ TakeAnswer \/ GiveUp \/ PersistInstaller \/ PersistManifest \/ PersistMetadata
    \/ RecordDownloaded \/ TryVerify \/ ClearFiles \/ ClearDownloaded

-----------------------------------------------------------------------------
(* The environment *)

\* Dispose()
Shutdown ==
    /\ ~shut
    /\ shut' = TRUE
    /\ UNCHANGED <<snap, inFlight, jobs, att, hyd, stored, installed, restarts, clobbered>>

\* The process ends, at any point, and is started again, as the release it is by then
Restart ==
    /\ restarts < MaxRestarts
    /\ restarts' = restarts + 1
    /\ snap' = Empty /\ inFlight' = NoJob
    /\ jobs' = [j \in Jobs |-> NoCheck]
    /\ att' = NoAttempt /\ hyd' = Unread
    /\ shut' = FALSE /\ clobbered' = FALSE
    /\ \E r \in Slots : r >= installed /\ installed' = r
    /\ UNCHANGED <<available, disk, kept>>

Next ==
    \/ HydrateRead \/ HydrateWrite
    \/ Tick
    \/ \E j \in Jobs : Runner(j)
    \/ Attempt
    \/ Shutdown \/ Restart

Spec == Init /\ [][Next]_vars

-----------------------------------------------------------------------------
(* Properties *)

Running(j) == jobs[j].pc \notin {"none", "queued"}

\* One check runs at a time: the slot is freed after the last store of the check that had it,
\* so the next one cannot start while an earlier one may still write
OneRunner ==
    \A i, j \in Jobs : Running(i) /\ jobs[j].pc # "none" => i = j

\* Hydration replaces the whole snapshot; nothing has been recorded when it does
NothingToOverwrite == hyd.pc # "done" => snap = Empty

\* A release published as downloaded stays on the disk and is offered again by the next process,
\* whatever point the last one ended at, unless it was found damaged, or deleted, or is what runs
\* now.  A process whose search ended at that directory or at a newer one does not offer it, but
\* leaves it to the one that follows.
DurableDownload ==
    \A r \in kept : r > installed =>
        /\ Whole(r)
        /\ hyd.pc = "write" => hyd.down >= r \/ hyd.stuck >= r

\* A verified download is only deleted when its bytes fail verification
OnlyDamagedPurged == att.pc = "delete" => att.damaged

\* The answer the click waits for is the outcome of the check: a failure is never told as an
\* up-to-date machine, and what was found is what is offered
FaithfulAnswer ==
    att.pc = "answered" =>
        /\ att.kind = "failed" => att.prev.last = "failed"
        /\ att.kind = "found" => att.prev.avail = att.rel

\* "Checking" is only shown while a check is in flight
CheckingIsInFlight == snap.checking => inFlight # NoJob

\* These three hold as long as no store goes over a snapshot its writer has not read
FaithfulUnlessClobbered ==
    ~clobbered => OnlyDamagedPurged /\ FaithfulAnswer /\ CheckingIsInFlight

\* The check in flight and its waiter, in the terms of SharedCheck.tla
Flying == IF inFlight = NoJob THEN NoCheck ELSE jobs[inFlight]
Stage == CASE Flying.pc \in {"queued", "mark", "gate"} -> "requested"
           [] Flying.pc \in {"fetch", "store", "sig"} -> "asking"
           [] Flying.pc \in {"record", "finish", "publish", "complete"} -> "over"
           [] OTHER -> "none"
Insisted == Stage = "requested" /\ Flying.force
EndOf(x) == [kind |-> x.kind, rel |-> x.rel]
Ended == EndOf(IF Stage = "over" THEN Flying ELSE NoCheck)
Waiter == IF att.pc = "asked" THEN "waiting" ELSE IF att.pc = "answered" THEN "told" ELSE "nobody"
WasTold == EndOf(IF Waiter = "told" THEN att ELSE NoAttempt)

\* Requests share one check, which is not skipped when one that insists was there in time; its
\* waiter is told how that check ended, also when a join, a shutdown or the hydration comes
\* between (RequestCheck(), RunInFlight(), FinishInFlight())
Checking == INSTANCE SharedCheck WITH
                stage <- Stage, insisted <- Insisted, ending <- Ended,
                waiter <- Waiter, told <- WasTold, closed <- shut
ImplementsSharedCheck == Checking!Spec

\* A requested check is never stuck: once the hydration is over its runner can take a step,
\* also when the repository was shut down first, and each step takes it nearer its completion
NoCheckStuck == \A j \in Jobs : ~Idle(j) => hyd.pc # "done" \/ ENABLED Runner(j)

=============================================================================
