------------------------------- MODULE Updater -------------------------------
(***************************************************************************)
(* The in-app updater: AutoUpdateChecker (src/app/backend/                 *)
(* autoupdatechecker.cpp) with its reducer, the pending update it keeps    *)
(* on disk (pendingupdate.cpp) and the direct Flatpak installer            *)
(* (flatpakinstaller.cpp).                                                 *)
(*                                                                         *)
(* Everything runs on the Qt thread: an action is one handler.  Between    *)
(* handlers the publisher may move the rolling release on, the user may    *)
(* delete the downloaded file, the host's Flatpak may finish or not, and   *)
(* the application may be closed and started again.                        *)
(***************************************************************************)
EXTENDS Integers, FiniteSets

CONSTANTS Builds,    \* the builds there are, in the order of their publication
          None

ASSUME BuildsAssumption ==
    Builds = 1 .. Cardinality(Builds) /\ IsFiniteSet(Builds) /\ Builds # {}
ASSUME NoneAssumption == None \notin Builds

Build == Builds \cup {None}

\* AutoUpdateChecker::State, without HandOffRequested, the portal's
States == {"Idle", "RestoringPending", "Checking", "NoUpdate", "Available", "Downloading",
           "Verifying", "ReadyForDesktop", "ReadyToHandOff", "HandingOff", "CheckError",
           "DownloadError", "VerificationError", "RestoreError", "HandOffError", "Cancelled",
           "Installed", "InstallationUnknown"}
Busy == {"RestoringPending", "Checking", "Downloading", "Verifying", "HandingOff"}

\* RequestStage; a tag's chain of objects is one stage
CheckStages == {"release", "manifest", "tag", "compare"}
AgainStages == {"release again", "manifest again", "tag again"}
Stages == CheckStages \cup AgainStages \cup {"asset", "none"}

VARIABLES
    u,          \* the members of AutoUpdateChecker
    record,     \* pending-update.json, and
    payload,    \* the downloaded files that are intact, both on disk
    inst,       \* FlatpakInstaller: idle, waiting for the reply, for the exit, or unknown
    early,      \* an exit reported before the reply that names the process
    txn,        \* the transaction this run asked the host for
    others,     \* transactions of earlier runs, still under way
    deployed,   \* the build the host has installed, and
    own,        \* the one that runs (BuildInfo::commit())
    published,  \* the rolling release
    wanted      \* History: the build the user asked to install, in this run

disk == <<record, payload>>
host == <<inst, early, txn, others, deployed>>
world == <<own, published>>
vars == <<u, disk, host, world, wanted>>

Updaters == [state : States, reply : Stages,
             origin : {"none", "check", "download", "verification", "restore", "handoff"},
             changed : BOOLEAN,         \* m_LastError == PublisherChanged
             rel : Build,               \* m_Release
             cand : Build,              \* m_Candidate
             expected : Build,          \* m_ExpectedCandidate
             saved : Build,             \* m_RestoreRecord
             file : Build,              \* m_VerifiedFile and m_DownloadedPath
             restoring : BOOLEAN, reload : BOOLEAN,
             persisted : BOOLEAN,       \* m_RevalidatingPersistedCandidate or m_HandOffRetry
             install : BOOLEAN,         \* m_InstallAfterVerification
             capable : BOOLEAN]         \* canInstallInCurrentSession()

Transactions == [build : Build, phase : {"none", "asked", "running", "done", "failed"}]

TypeOK ==
    /\ u \in Updaters
    /\ record \in Build /\ payload \subseteq Builds
    /\ inst \in {"idle", "asked", "started", "unknown"}
    /\ early \in {"none", "done", "failed"}
    /\ txn \in Transactions
    /\ others \subseteq Builds
    /\ deployed \in Builds /\ own \in Builds /\ published \in Builds
    /\ wanted \in Build

NoTxn == [build |-> None, phase |-> "none"]

Fresh(capable) ==
    [state |-> "Idle", reply |-> "none", origin |-> "none", changed |-> FALSE, rel |-> None,
     cand |-> None, expected |-> None, saved |-> None, file |-> None, restoring |-> FALSE,
     reload |-> FALSE, persisted |-> FALSE, install |-> FALSE, capable |-> capable]

Init ==
    /\ u \in {Fresh(c) : c \in BOOLEAN}
    /\ record = None /\ payload = {}
    /\ inst = "idle" /\ early = "none" /\ txn = NoTxn /\ others = {}
    /\ deployed = 1 /\ own = 1 /\ published = 1
    /\ wanted = None

-----------------------------------------------------------------------------
(* The reducer.  Edge(e) maps the states that accept an event to their successors. *)

From(S, s) == [x \in S |-> s]

\* Bug: an installation whose outcome is unknown counts as failed
BadOutcome == "HandOffError"
Outcome == "InstallationUnknown"

Edge(e) ==
    CASE e = "BeginRestore" -> From({"Idle"}, "RestoringPending")
      [] e = "BeginCheck" -> From(States \ {"Checking", "Downloading", "Verifying", "HandingOff",
                                            "HandOffError", "Installed", "InstallationUnknown"},
                                  "Checking")
      [] e = "CandidateCurrent" -> From({"RestoringPending", "Checking"}, "NoUpdate")
      [] e = "CandidateAvailable" -> From({"Checking"}, "Available")
      [] e = "BeginDownload" -> From({"Available"}, "Downloading")
      [] e = "DownloadComplete" -> From({"Downloading"}, "Verifying")
      [] e = "VerificationPassedDesktop" -> From({"RestoringPending", "Verifying"}, "ReadyToHandOff")
      [] e = "VerificationPassedNonDesktop" -> From({"RestoringPending", "Verifying"}, "ReadyForDesktop")
      [] e = "CheckFailed" -> From({"Checking"}, "CheckError")
      [] e = "DownloadFailed" -> From({"Downloading"}, "DownloadError")
      [] e = "VerificationFailed" -> From({"Verifying"}, "VerificationError")
      [] e = "RestoreFailed" -> From({"RestoringPending"}, "RestoreError")
      [] e = "BeginHandOff" -> From({"ReadyToHandOff"}, "HandingOff")
      [] e = "HandOffFailed" -> From({"HandingOff"}, "HandOffError")
      [] e = "InstallCompleted" -> From({"HandingOff"}, "Installed")
      [] e = "InstallOutcomeUnknown" -> From({"HandingOff"}, Outcome)
      [] e = "Retry" -> [x \in {"ReadyForDesktop", "ReadyToHandOff", "HandOffError", "CheckError",
                                "DownloadError", "VerificationError", "RestoreError"} |->
                           CASE x = "CheckError" -> "Checking"
                             [] x \in {"DownloadError", "VerificationError"} -> "Available"
                             [] x = "RestoreError" -> "RestoringPending"
                             [] OTHER -> "Verifying"]
      [] e = "Cancel" -> From({"RestoringPending", "Checking", "Available", "Downloading", "Verifying",
                               "ReadyForDesktop", "ReadyToHandOff", "RestoreError"}, "Cancelled")

Reduce(s, e) == IF s \in DOMAIN Edge(e) THEN Edge(e)[s] ELSE s

\* applyTransition(): a rejected event changes nothing
Go(v, e) ==
    LET s == Reduce(v.state, e)
        forget == s # v.state /\ s \in {"Checking", "Cancelled", "Installed", "InstallationUnknown"}
    IN [v EXCEPT !.state = s, !.install = @ /\ ~forget]

SetError(v, origin, changed) ==
    [v EXCEPT !.install = FALSE, !.origin = origin, !.changed = changed]
ClearError(v) == [v EXCEPT !.changed = FALSE]

Issue(v, stage) == [v EXCEPT !.reply = stage]
StopRequest(v) == [v EXCEPT !.reply = "none"]

-----------------------------------------------------------------------------
(* PendingUpdateStore *)

DiskSame == UNCHANGED disk

\* Either removal may fail, and nobody looks
Clear(removePayload) ==
    /\ record' \in {None, record}
    /\ payload' \in {payload} \cup (IF removePayload THEN {payload \ {record}} ELSE {})

\* load() verifies the payload, and removes a record that has none, or tries to
Loaded == record # None /\ record \in payload
LoadDrops == Clear(TRUE)

-----------------------------------------------------------------------------
(* What several handlers do *)

BeginRollingCheck(v) == Issue([v EXCEPT !.rel = None], "release")

\* invalidatePendingAndCheck(), which also clears the disk
InvalidateAndCheck(v) ==
    LET w == [StopRequest(ClearError(v)) EXCEPT
                !.file = None, !.saved = None, !.expected = None, !.cand = None,
                !.restoring = FALSE, !.reload = FALSE, !.persisted = FALSE]
    IN IF Reduce(w.state, "BeginCheck") # w.state THEN BeginRollingCheck(Go(w, "BeginCheck")) ELSE w

\* failForActiveOperation(); changed: the error is PublisherChanged
Failed(v0, changed) ==
    LET v == StopRequest(v0)
        failed == SetError(Go(v, "VerificationFailed"), "verification", changed)
    IN CASE v.state = "Downloading" -> SetError(Go(v, "DownloadFailed"), "download", changed)
         [] v.state = "Verifying" -> IF v.persisted /\ changed THEN InvalidateAndCheck(failed) ELSE failed
         [] v.state = "RestoringPending" ->
                IF changed THEN InvalidateAndCheck(v) ELSE SetError(Go(v, "RestoreFailed"), "restore", FALSE)
         [] v.state = "Checking" ->
                SetError(Go([v EXCEPT !.cand = None], "CheckFailed"), "check", changed)
         [] OTHER -> v

Invalidates(v, changed) ==
    changed /\ (v.state = "RestoringPending" \/ (v.state = "Verifying" /\ v.persisted))

Fail(v, changed) ==
    /\ u' = Failed(v, changed)
    /\ IF Invalidates(v, changed) THEN Clear(TRUE) ELSE DiskSame

BeginRevalidation(v, restoring) == Issue([v EXCEPT !.restoring = restoring], "release again")

\* beginRestoration()
Restored(v) ==
    BeginRevalidation([v EXCEPT !.reload = FALSE, !.saved = record, !.expected = record,
                                !.cand = record], TRUE)

\* checkNow(), when it is not turned down
Checks(v) ==
    BeginRollingCheck([ClearError(Go(v, "BeginCheck")) EXCEPT
        !.restoring = FALSE, !.reload = FALSE, !.persisted = FALSE, !.cand = None])
MayCheck(v) ==
    /\ v.reply = "none" /\ v.state \notin {"Downloading", "Verifying", "RestoringPending"}
    /\ v.state \in DOMAIN Edge("BeginCheck")

HostSame == UNCHANGED <<host, world, wanted>>

-----------------------------------------------------------------------------
(* FlatpakInstaller *)

\* openFlatpak(): it returns without a word while a transaction is busy or unknown
Accepts == inst \notin {"asked", "started", "unknown"}

\* openInstaller() for the verified file.  The installer cannot take the file or start, asks
\* the host, or says nothing.
OpenInstaller(v) ==
    LET w == ClearError(Go(v, "BeginHandOff"))
    IN \/ /\ v.file = None \/ Accepts
          /\ u' = SetError(Go(w, "HandOffFailed"), "handoff", FALSE)
          /\ UNCHANGED <<inst, early, txn>>
       \/ /\ v.file # None /\ Accepts
          /\ u' = w
          /\ inst' = "asked" /\ early' = "none"
          /\ txn' = [build |-> v.file, phase |-> "asked"]
       \/ /\ v.file # None /\ ~Accepts
          /\ u' = w
          /\ UNCHANGED <<inst, early, txn>>

\* Bug: a timeout of the installer is taken for a failure
BadFinish(unknown) == inst' = "idle"
Finish(unknown) == inst' = IF unknown THEN "unknown" ELSE "idle"

\* finish() and the handler of response(); ok: the exit status was 0
Respond(ok, unknown) ==
    /\ Finish(unknown)
    /\ early' = "none"
    /\ IF u.state # "HandingOff" THEN UNCHANGED <<u, disk>>
       ELSE IF ok
       THEN /\ u' = Go([ClearError(u) EXCEPT !.file = None], "InstallCompleted")
            /\ Clear(TRUE)
       ELSE /\ u' = SetError(Go(u, IF inst' = "unknown" THEN "InstallOutcomeUnknown" ELSE "HandOffFailed"),
                             "handoff", FALSE)
            /\ DiskSame

\* The host starts the command, or refuses to
HostStarts ==
    /\ txn.phase = "asked"
    /\ txn' = [txn EXCEPT !.phase = "running"]
    /\ UNCHANGED <<u, disk, inst, early, others, deployed, world, wanted>>

\* The D-Bus call fails, and nothing was started
HostRefuses ==
    /\ txn.phase = "asked" /\ inst = "asked"
    /\ txn' = [txn EXCEPT !.phase = "failed"]
    /\ Respond(FALSE, FALSE)
    /\ UNCHANGED <<others, deployed, world, wanted>>

HostEnds ==
    /\ txn.phase = "running"
    /\ \/ txn' = [txn EXCEPT !.phase = "done"] /\ deployed' = txn.build
       \/ txn' = [txn EXCEPT !.phase = "failed"] /\ deployed' = deployed
    /\ UNCHANGED <<u, disk, inst, early, others, world, wanted>>

\* HostCommandExited before the reply that names the process: kept, if there is room
EarlyExit ==
    /\ inst = "asked" /\ txn.phase \in {"done", "failed"} /\ early = "none"
    /\ early' = txn.phase
    /\ UNCHANGED <<u, disk, inst, txn, others, deployed, world, wanted>>

\* The reply of HostCommand with the process's number
Started ==
    /\ inst = "asked" /\ txn.phase \in {"running", "done", "failed"}
    /\ IF early = "none" THEN /\ inst' = "started" /\ early' = "none"
                              /\ UNCHANGED <<u, disk>>
                         ELSE Respond(early = "done", FALSE)
    /\ UNCHANGED <<txn, others, deployed, world, wanted>>

Exited ==
    /\ inst = "started" /\ txn.phase \in {"done", "failed"}
    /\ Respond(txn.phase = "done", FALSE)
    /\ UNCHANGED <<txn, others, deployed, world, wanted>>

\* The installer's timer, a lost bus, a reply without a process or none in time
LoseInstaller ==
    /\ inst \in {"asked", "started"}
    /\ Respond(FALSE, TRUE)
    /\ UNCHANGED <<txn, others, deployed, world, wanted>>

\* A transaction of an earlier run ends
OtherEnds ==
    \E b \in others :
        /\ others' = others \ {b}
        /\ deployed' \in {deployed, b}
        /\ UNCHANGED <<u, disk, inst, early, txn, world, wanted>>

-----------------------------------------------------------------------------
(* What the user does *)

\* load(): the record is there with its file, or it is not (and what is left is removed), or
\* one of the two cannot be read
Start ==
    /\ u.state = "Idle"
    /\ \/ Loaded /\ record = own /\ u' = Go(Go(u, "BeginRestore"), "CandidateCurrent") /\ Clear(FALSE)
       \/ Loaded /\ record # own /\ u' = Restored(Go(u, "BeginRestore")) /\ DiskSame
       \/ ~Loaded /\ u' = Checks(u) /\ LoadDrops
       \/ /\ record # None
          /\ \E known \in {None, record} :
                u' = SetError(Go([Go(u, "BeginRestore") EXCEPT !.restoring = TRUE, !.reload = TRUE,
                                    !.saved = known, !.expected = known, !.cand = known],
                                 "RestoreFailed"), "restore", FALSE)
          /\ DiskSame
    /\ HostSame

CheckNow ==
    /\ u.state # "Idle" /\ MayCheck(u)
    /\ u' = Checks(u)
    /\ DiskSame /\ HostSame

\* installUpdate() of an update that is offered: downloadUpdate()
Download ==
    /\ u.state = "Available"
    /\ LET v == ClearError(Go([u EXCEPT !.install = u.capable], "BeginDownload"))
       IN u' \in {Issue(v, "asset"), SetError(Go(v, "DownloadFailed"), "download", FALSE)}
    /\ wanted' = u.cand
    /\ DiskSame /\ UNCHANGED <<host, world>>

\* Verify again what was verified before: retry() of a state that holds a file
VerifyAgain(install) ==
    u' = BeginRevalidation([ClearError(Go(u, "Retry")) EXCEPT !.install = install,
                                                              !.persisted = TRUE], FALSE)

\* installUpdate() of an update that is ready
InstallReady ==
    /\ u.state = "ReadyToHandOff"
    /\ VerifyAgain(u.capable)
    /\ wanted' = u.cand
    /\ DiskSame /\ UNCHANGED <<host, world>>

Cancel ==
    /\ u.state \in DOMAIN Edge("Cancel")
    /\ u' = SetError(Go([StopRequest(u) EXCEPT !.file = None, !.reload = FALSE], "Cancel"),
                     "none", FALSE)
    /\ IF u.state \in {"ReadyForDesktop", "ReadyToHandOff", "RestoringPending", "RestoreError"}
       THEN Clear(TRUE) ELSE DiskSame
    /\ HostSame

RetryCheck ==
    /\ \/ u.state = "CheckError"
       \/ u.state \in {"DownloadError", "VerificationError"} /\ u.changed
    /\ MayCheck(u)
    /\ u' = Checks(u)
    /\ DiskSame /\ HostSame

\* Back to the offer, or, with a verified file at hand, to its verification
RetryUpdate ==
    /\ u.state \in {"DownloadError", "VerificationError"} /\ ~u.changed
    /\ LET v == Go(u, "Retry")
       IN u' = IF u.origin = "verification" /\ u.file # None
               THEN BeginRevalidation(Go(Go(v, "BeginDownload"), "DownloadComplete"), FALSE)
               ELSE v
    /\ DiskSame /\ HostSame

RetryRestore ==
    /\ u.state = "RestoreError"
    /\ LET v == ClearError(Go(u, "Retry")) IN
         \/ ~u.reload /\ u' = BeginRevalidation(v, TRUE) /\ DiskSame
         \/ /\ u.reload /\ Loaded /\ record = own
            /\ u' = Go([v EXCEPT !.reload = FALSE, !.cand = None], "CandidateCurrent")
            /\ Clear(FALSE)
         \/ u.reload /\ Loaded /\ record # own /\ u' = Restored(v) /\ DiskSame
         \/ u.reload /\ ~Loaded /\ u' = InvalidateAndCheck(v) /\ LoadDrops
         \/ /\ u.reload /\ record # None
            /\ \E w \in {v, [v EXCEPT !.saved = record, !.expected = record, !.cand = record]} :
                  u' = SetError(Go(w, "RestoreFailed"), "restore", FALSE)
            /\ DiskSame
    /\ HostSame

RetryHandOff ==
    /\ u.state = "HandOffError"
    /\ VerifyAgain(u.capable)
    /\ wanted' = u.cand
    /\ DiskSame /\ UNCHANGED <<host, world>>

RetryReady ==
    /\ u.state \in {"ReadyForDesktop", "ReadyToHandOff"}
    /\ VerifyAgain(u.install)
    /\ DiskSame /\ HostSame

-----------------------------------------------------------------------------
(* Replies of the network *)

\* The rest of a stage: the answer cannot be used, or did not come in time
ReplyFails ==
    /\ u.reply # "none"
    /\ Fail(u, FALSE)
    /\ HostSame

ReleaseArrives ==
    /\ u.reply = "release"
    /\ u' = Issue([u EXCEPT !.rel = published], "manifest")
    /\ DiskSame /\ HostSame

ManifestArrives ==
    /\ u.reply = "manifest"
    /\ u' = Issue([u EXCEPT !.cand = u.rel], "tag")
    /\ DiskSame /\ HostSame

\* bindTagResolution(): the tag must name the commit of the manifest
TagArrives ==
    /\ u.reply = "tag"
    /\ u' = IF published = u.cand THEN Issue(u, "compare") ELSE Failed(u, FALSE)
    /\ DiskSame /\ HostSame

\* finishCompare(): only a build that follows the one that runs is offered
CompareArrives ==
    /\ u.reply = "compare"
    /\ LET v == StopRequest(u)
       IN u' = IF u.cand > own THEN Go(v, "CandidateAvailable")
               ELSE Go([v EXCEPT !.cand = None], "CandidateCurrent")
    /\ DiskSame /\ HostSame

\* finishFlatpakDownload(): a wrong size, a wrong digest, a disk that fails, or the file is
\* where its build's file belongs and is verified there
AssetArrives ==
    /\ u.reply = "asset"
    /\ LET v == StopRequest(u)
           w == Go(v, "DownloadComplete")
       IN \/ u' = Failed(v, FALSE) /\ DiskSame
          \/ u' = Failed(w, FALSE) /\ DiskSame
          \/ /\ u' = BeginRevalidation([w EXCEPT !.file = u.cand, !.expected = u.cand], FALSE)
             /\ payload' = payload \cup {u.cand} /\ record' = record
    /\ HostSame

\* Bug: the publisher's release is not compared with the verified one
BadMatches == TRUE
\* matchesRelease() and matchesTagResolution()
Matches == published = u.expected

ReleaseAgainArrives ==
    /\ u.reply = "release again"
    /\ IF Matches THEN u' = Issue(u, "manifest again") /\ DiskSame ELSE Fail(u, TRUE)
    /\ HostSame

ManifestAgainArrives ==
    /\ u.reply = "manifest again"
    /\ \/ u' = Issue(u, "tag again") /\ DiskSame
       \/ Fail(u, TRUE)
    /\ HostSame

\* The verification has passed: to the installer at once if the user asked for it
Passed(v) ==
    LET w == Go([v EXCEPT !.install = FALSE],
                IF v.capable THEN "VerificationPassedDesktop" ELSE "VerificationPassedNonDesktop")
    IN /\ IF v.install /\ w.state = "ReadyToHandOff" THEN OpenInstaller(w)
          ELSE u' = w /\ UNCHANGED <<inst, early, txn>>
       /\ UNCHANGED <<others, deployed, world, wanted>>

\* Bug: the payload on disk is not opened and verified again
BadReopens == u.saved = u.expected
\* reopenAndVerify(): the record is for the expected build and its file is intact
Reopens == u.saved # None /\ u.saved = u.expected /\ u.saved \in payload

\* finishRevalidation() of a persisted update
Reopen(v) ==
    /\ v.restoring \/ v.persisted
    /\ \/ Reopens /\ DiskSame /\ Passed([v EXCEPT !.file = v.saved, !.persisted = FALSE])
       \/ /\ ~Reopens
          /\ u' = InvalidateAndCheck(
                     IF v.persisted
                     THEN SetError(Go(v, "VerificationFailed"), "verification", FALSE) ELSE v)
          /\ Clear(TRUE) /\ HostSame
       \/ Fail(v, FALSE) /\ HostSame

\* finishRevalidation() of a fresh download: saveVerifiedPending() verifies the file on disk and
\* writes the record
Save(v) ==
    /\ ~v.restoring /\ ~v.persisted
    /\ \/ /\ v.file # None /\ v.file = v.expected /\ v.expected \in payload
          /\ record' = v.expected /\ payload' = payload
          /\ Passed([v EXCEPT !.saved = v.expected])
       \/ Fail(v, FALSE) /\ HostSame

TagAgainArrives ==
    /\ u.reply = "tag again"
    /\ LET v == StopRequest(u) IN
         \/ Matches /\ Reopen(v)
         \/ Matches /\ Save(v)
         \/ ~Matches /\ Fail(u, TRUE) /\ HostSame

Reply ==
    \/ ReleaseArrives \/ ManifestArrives \/ TagArrives \/ CompareArrives \/ AssetArrives
    \/ ReleaseAgainArrives \/ ManifestAgainArrives \/ TagAgainArrives \/ ReplyFails

-----------------------------------------------------------------------------
(* The world *)

Publish ==
    /\ published + 1 \in Builds
    /\ published' = published + 1
    /\ UNCHANGED <<u, disk, host, own, wanted>>

\* The user deletes or damages a downloaded file
LoseFile ==
    /\ \E b \in payload : payload' = payload \ {b}
    /\ UNCHANGED <<u, record, host, world, wanted>>

\* The application ends, in any state, and the installed build is started.  The host goes on.
Restart ==
    /\ u.state # "Idle"
    /\ u' = Fresh(u.capable)
    /\ inst' = "idle" /\ early' = "none" /\ txn' = NoTxn
    /\ others' = others \cup (IF txn.phase \in {"asked", "running"} THEN {txn.build} ELSE {})
    /\ own' = deployed /\ wanted' = None
    /\ UNCHANGED <<disk, deployed, published>>

User ==
    \/ Start \/ CheckNow \/ Download \/ InstallReady \/ Cancel
    \/ RetryCheck \/ RetryUpdate \/ RetryRestore \/ RetryHandOff \/ RetryReady

Host == HostStarts \/ HostRefuses \/ HostEnds \/ EarlyExit \/ OtherEnds

Next ==
    \/ User \/ Reply \/ Host \/ Started \/ Exited \/ LoseInstaller
    \/ Publish \/ LoseFile \/ Restart

\* A request ends in an answer, an error or one of its three timers; the installer reports or
\* its timer expires.  Nothing is assumed of the user, the publisher or the host.
Spec == Init /\ [][Next]_vars /\ WF_vars(Reply) /\ WF_vars(LoseInstaller)

-----------------------------------------------------------------------------

(* An update that is ready, or being handed off, is one update: the candidate the dialog    *)
(* shows, the one the publisher was asked about, the record that a restart would restore    *)
(* and the open file are the same build, and it follows the build that runs.                *)
ReadyIsOne ==
    u.state \in {"ReadyForDesktop", "ReadyToHandOff", "HandingOff", "HandOffError"} =>
        /\ u.file # None /\ u.file > own
        /\ u.cand = u.file /\ u.expected = u.file /\ u.saved = u.file /\ record = u.file

(* The host is asked to install only what the user asked for in this run, for the build     *)
(* the dialog shows, and only after its file on disk was verified again: neither a restored *)
(* update nor a background check installs by itself (installUpdate()).                      *)
InstallAsked ==
    [][(txn' # txn /\ txn'.phase = "asked") =>
          txn'.build = wanted /\ wanted = u.cand /\ wanted \in payload]_vars

(* Within a run, the host is asked again only when the transaction before is known to have  *)
(* failed: not after a timeout, a lost connection or a success.                             *)
NoSecondInstall ==
    [][(txn' # txn /\ txn'.phase = "asked") => txn.phase \in {"none", "failed"}]_vars

(* What the dialog and the host say of an installation, in the terms of Installation.tla.   *)
WishedFor == IF u.install THEN wanted ELSE None
Truth == IF txn.phase \in {"asked", "running"} THEN "open" ELSE txn.phase
Told == CASE u.state = "HandingOff" -> "installing"
          [] u.state = "Installed" -> "installed"
          [] u.state = "HandOffError" -> "failed"
          [] u.state = "InstallationUnknown" -> "unknown"
          [] OTHER -> "nothing"

(* An installation is as Installation.tla promises: the host is asked for the build that    *)
(* the verification under way is to end with, once while it may still be at it, and the     *)
(* dialog then tells what has become of that or that it is not known, for good (openFlatpak,*)
(* finish, and the reducer, which lets go of no hand-off whose end is not known).           *)
Installing == INSTANCE Installation WITH
                  wish <- WishedFor, build <- txn.build, truth <- Truth, told <- Told
ImplementsInstallation == Installing!Spec

(* Whatever the updater is busy with ends, and leaves a state with a button in it: no       *)
(* outcome of the installer, however late or lost, keeps the dialog waiting.                *)
OperationsEnd == (u.state \in Busy) ~> (u.state \notin Busy)

=============================================================================
