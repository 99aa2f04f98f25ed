---------------------------- MODULE UpdaterProofs ----------------------------
(***************************************************************************)
(* What the updater promises, for any number of builds.  The publisher     *)
(* only moves forward (Bounds): when it still names the expected build, no *)
(* candidate can be a later one.  The builds of an update verified before  *)
(* are one (Again), an offer follows the build that runs and is no older   *)
(* than what was expected (Offer), and the dialog says that it installs    *)
(* while the installer is in use, and cannot be left while nobody knows    *)
(* what has become of the transaction (HostInv).                           *)
(*                                                                         *)
(* The parts about the updater take its record v, the record on disk, the  *)
(* build that runs o, the published one p and the one that is wanted w, so *)
(* that they can be followed through the steps of one handler.             *)
(***************************************************************************)
EXTENDS Updater, TLAPS, FiniteSetTheorems

Ready == {"ReadyForDesktop", "ReadyToHandOff", "HandingOff", "HandOffError"}
Offered == {"Available", "Downloading", "Verifying", "DownloadError", "VerificationError"} \cup Ready

\* A build that is none, or out by now
Out(b, p) == b = None \/ b <= p

Bounds(v, rec, p) ==
    /\ Out(v.rel, p) /\ Out(v.cand, p) /\ Out(v.expected, p) /\ Out(v.saved, p) /\ Out(v.file, p)
    /\ Out(rec, p)

Offer(v, o) ==
    v.state \in Offered =>
        v.cand # None /\ v.cand > o /\ (v.expected = None \/ v.expected <= v.cand)

\* The update verified before is the candidate, and another build than the one that runs
Four(v, rec, o) ==
    /\ v.saved # None /\ v.saved # o
    /\ v.saved = v.expected /\ v.saved = v.cand /\ v.saved = rec

Again(v, rec, o) ==
    /\ v.persisted => v.state \in {"Verifying", "VerificationError", "Cancelled"}
    /\ v.persisted /\ v.state # "Cancelled" => Four(v, rec, o) /\ v.file # None
    /\ v.state = "RestoringPending" => Four(v, rec, o) /\ v.restoring
    /\ v.state = "RestoreError" /\ ~v.reload => Four(v, rec, o)
    /\ v.state = "VerificationError" => v.origin = "verification"

Wish(v, w) == v.install => v.state \in {"Downloading", "Verifying"} /\ w = v.cand

OneUpdate(v, rec, o) ==
    v.state \in Ready =>
        /\ v.file # None /\ v.file > o
        /\ v.cand = v.file /\ v.expected = v.file /\ v.saved = v.file /\ rec = v.file

Core(v, rec, o, p, w) ==
    /\ v \in Updaters /\ rec \in Build
    /\ Bounds(v, rec, p) /\ Offer(v, o) /\ Again(v, rec, o) /\ Wish(v, w) /\ OneUpdate(v, rec, o)

\* Which state waits for which reply, and what the reply will need
Stage(v) ==
    /\ v.reply \in CheckStages => v.state = "Checking"
    /\ v.reply = "asset" => v.state = "Downloading"
    /\ v.reply \in AgainStages => v.state \in {"Verifying", "RestoringPending"}
    /\ v.state = "RestoringPending" => v.reply \in AgainStages
    /\ v.state \in {"Checking", "Downloading", "Verifying"} => v.reply # "none"
    /\ v.reply \in AgainStages /\ v.restoring => v.state = "RestoringPending"
    /\ v.reply = "manifest" => v.rel # None
    /\ v.reply \in {"tag", "compare"} => v.cand # None
    /\ v.reply = "compare" => v.expected = None \/ v.expected <= v.cand

\* The states that tell of an installation, and those that the user cannot leave
Final == {"HandingOff", "HandOffError", "Installed", "InstallationUnknown"}
Closed == Final \ {"HandOffError"}

\* An updater that is at something else
Calm(v) == Stage(v) /\ v.state \notin Final

WorldInv ==
    /\ own <= published /\ deployed <= published
    /\ Out(txn.build, published) /\ \A b \in others : b <= published

\* What the dialog tells of the installation, and what has become of it
HostInv ==
    /\ u.state = "HandingOff" <=> inst \in {"asked", "started"}
    /\ u.state = "InstallationUnknown" <=> inst = "unknown"
    /\ u.state = "Installed" => txn.phase = "done"
    /\ u.state \notin Closed => txn.phase \in {"none", "failed"}
    /\ inst \in {"asked", "started"} => txn.phase # "none"
    /\ inst = "started" => txn.phase \in {"running", "done", "failed"}
    /\ early # "none" => inst = "asked" /\ txn.phase = early
    /\ txn.phase # "none" => txn.build # None

Inv == TypeOK /\ Core(u, record, own, published, wanted) /\ Stage(u) /\ WorldInv /\ HostInv

-----------------------------------------------------------------------------
(* Builds and states *)

\* A step that has nothing to do with an installation
Quiet == UNCHANGED <<host, world>> /\ u.state \notin Closed /\ u'.state \notin Final

LEMMA BuildsAreNumbers == Builds \subseteq Nat /\ 1 \in Builds
<1>1. Cardinality(Builds) \in Nat
  BY BuildsAssumption, FS_CardinalityType
<1> QED
  BY <1>1, BuildsAssumption

\* What the reducer does with each event
LEMMA ReduceFacts ==
    ASSUME NEW s \in States
    PROVE  /\ Reduce(s, "BeginRestore") = IF s = "Idle" THEN "RestoringPending" ELSE s
           /\ Reduce(s, "BeginCheck") =
                IF s \in {"Checking", "Downloading", "Verifying", "HandingOff", "HandOffError",
                          "Installed", "InstallationUnknown"} THEN s ELSE "Checking"
           /\ Reduce(s, "CandidateCurrent") =
                IF s \in {"RestoringPending", "Checking"} THEN "NoUpdate" ELSE s
           /\ Reduce(s, "CandidateAvailable") = IF s = "Checking" THEN "Available" ELSE s
           /\ Reduce(s, "BeginDownload") = IF s = "Available" THEN "Downloading" ELSE s
           /\ Reduce(s, "DownloadComplete") = IF s = "Downloading" THEN "Verifying" ELSE s
           /\ Reduce(s, "VerificationPassedDesktop") =
                IF s \in {"RestoringPending", "Verifying"} THEN "ReadyToHandOff" ELSE s
           /\ Reduce(s, "VerificationPassedNonDesktop") =
                IF s \in {"RestoringPending", "Verifying"} THEN "ReadyForDesktop" ELSE s
           /\ Reduce(s, "CheckFailed") = IF s = "Checking" THEN "CheckError" ELSE s
           /\ Reduce(s, "DownloadFailed") = IF s = "Downloading" THEN "DownloadError" ELSE s
           /\ Reduce(s, "VerificationFailed") = IF s = "Verifying" THEN "VerificationError" ELSE s
           /\ Reduce(s, "RestoreFailed") = IF s = "RestoringPending" THEN "RestoreError" ELSE s
           /\ Reduce(s, "BeginHandOff") = IF s = "ReadyToHandOff" THEN "HandingOff" ELSE s
           /\ Reduce(s, "HandOffFailed") = IF s = "HandingOff" THEN "HandOffError" ELSE s
           /\ Reduce(s, "InstallCompleted") = IF s = "HandingOff" THEN "Installed" ELSE s
           /\ Reduce(s, "InstallOutcomeUnknown") = IF s = "HandingOff" THEN "InstallationUnknown" ELSE s
<1> USE DEF Reduce, Edge, From
<1>1. /\ Reduce(s, "BeginRestore") = IF s = "Idle" THEN "RestoringPending" ELSE s
      /\ Reduce(s, "CandidateAvailable") = IF s = "Checking" THEN "Available" ELSE s
      /\ Reduce(s, "BeginDownload") = IF s = "Available" THEN "Downloading" ELSE s
      /\ Reduce(s, "DownloadComplete") = IF s = "Downloading" THEN "Verifying" ELSE s
  OBVIOUS
<1>2. Reduce(s, "BeginCheck") =
                IF s \in {"Checking", "Downloading", "Verifying", "HandingOff", "HandOffError",
                          "Installed", "InstallationUnknown"} THEN s ELSE "Checking"
  OBVIOUS
<1>3. /\ Reduce(s, "CandidateCurrent") =
                IF s \in {"RestoringPending", "Checking"} THEN "NoUpdate" ELSE s
      /\ Reduce(s, "VerificationPassedDesktop") =
           IF s \in {"RestoringPending", "Verifying"} THEN "ReadyToHandOff" ELSE s
      /\ Reduce(s, "VerificationPassedNonDesktop") =
           IF s \in {"RestoringPending", "Verifying"} THEN "ReadyForDesktop" ELSE s
  OBVIOUS
<1>4. /\ Reduce(s, "CheckFailed") = IF s = "Checking" THEN "CheckError" ELSE s
      /\ Reduce(s, "DownloadFailed") = IF s = "Downloading" THEN "DownloadError" ELSE s
      /\ Reduce(s, "VerificationFailed") = IF s = "Verifying" THEN "VerificationError" ELSE s
      /\ Reduce(s, "RestoreFailed") = IF s = "RestoringPending" THEN "RestoreError" ELSE s
  OBVIOUS
<1>5. /\ Reduce(s, "BeginHandOff") = IF s = "ReadyToHandOff" THEN "HandingOff" ELSE s
      /\ Reduce(s, "HandOffFailed") = IF s = "HandingOff" THEN "HandOffError" ELSE s
      /\ Reduce(s, "InstallCompleted") = IF s = "HandingOff" THEN "Installed" ELSE s
      /\ Reduce(s, "InstallOutcomeUnknown") = IF s = "HandingOff" THEN "InstallationUnknown" ELSE s
  BY DEF Outcome
<1> QED
  BY <1>1, <1>2, <1>3, <1>4, <1>5

LEMMA ReduceRetry ==
    ASSUME NEW s \in States
    PROVE  /\ Reduce(s, "Retry") =
                IF s \in {"ReadyForDesktop", "ReadyToHandOff", "HandOffError"} THEN "Verifying"
                ELSE IF s = "CheckError" THEN "Checking"
                ELSE IF s \in {"DownloadError", "VerificationError"} THEN "Available"
                ELSE IF s = "RestoreError" THEN "RestoringPending" ELSE s
           /\ s \in DOMAIN Edge("Cancel") <=>
                s \in {"RestoringPending", "Checking", "Available", "Downloading", "Verifying",
                       "ReadyForDesktop", "ReadyToHandOff", "RestoreError"}
           /\ Reduce(s, "Cancel") = IF s \in DOMAIN Edge("Cancel") THEN "Cancelled" ELSE s
           /\ s \in DOMAIN Edge("BeginCheck") <=>
                s \notin {"Checking", "Downloading", "Verifying", "HandingOff", "HandOffError",
                          "Installed", "InstallationUnknown"}
BY DEF Reduce, Edge, From

\* What stays in the updater when only its state, reply, error or wish changes
Keeps(v, w) ==
    /\ w.rel = v.rel /\ w.cand = v.cand /\ w.expected = v.expected /\ w.saved = v.saved
    /\ w.file = v.file /\ w.restoring = v.restoring /\ w.reload = v.reload
    /\ w.persisted = v.persisted /\ w.capable = v.capable

LEMMA GoFacts ==
    ASSUME NEW v \in Updaters, NEW e, Reduce(v.state, e) \in States
    PROVE  /\ Go(v, e) \in Updaters /\ Keeps(v, Go(v, e))
           /\ Go(v, e).state = Reduce(v.state, e)
           /\ Go(v, e).reply = v.reply /\ Go(v, e).origin = v.origin /\ Go(v, e).changed = v.changed
           /\ Go(v, e).install => v.install
           /\ Reduce(v.state, e) # v.state /\ Reduce(v.state, e) \in {"Checking", "Cancelled"}
                => ~Go(v, e).install
<1> DEFINE s == Reduce(v.state, e)
           forget == s # v.state /\ s \in {"Checking", "Cancelled", "Installed", "InstallationUnknown"}
           b == v.install /\ ~forget
<1>1. Go(v, e) = [v EXCEPT !.state = s, !.install = b]
  BY DEF Go
<1>2. b \in BOOLEAN /\ (b => v.install) /\ (s # v.state /\ s \in {"Checking", "Cancelled"} => ~b)
  BY DEF Updaters
<1> HIDE DEF s, b
<1>3. s \in States
  BY DEF s
<1> QED
  BY <1>1, <1>2, <1>3 DEF Updaters, Keeps, s

Origins == {"none", "check", "download", "verification", "restore", "handoff"}

LEMMA SetErrorFacts ==
    ASSUME NEW v \in Updaters, NEW o \in Origins, NEW c, c \in BOOLEAN
    PROVE  /\ SetError(v, o, c) \in Updaters /\ Keeps(v, SetError(v, o, c))
           /\ SetError(v, o, c).state = v.state /\ SetError(v, o, c).reply = v.reply
           /\ SetError(v, o, c).origin = o /\ ~SetError(v, o, c).install
BY DEF SetError, Updaters, Keeps, Origins

LEMMA SmallFacts ==
    ASSUME NEW v \in Updaters
    PROVE  /\ ClearError(v) \in Updaters /\ Keeps(v, ClearError(v)) /\ ClearError(v).state = v.state
           /\ ClearError(v).reply = v.reply /\ ClearError(v).install = v.install
           /\ ClearError(v).origin = v.origin
           /\ \A r \in Stages :
                /\ Issue(v, r) \in Updaters /\ Keeps(v, Issue(v, r)) /\ Issue(v, r).state = v.state
                /\ Issue(v, r).reply = r /\ Issue(v, r).install = v.install
                /\ Issue(v, r).origin = v.origin
           /\ StopRequest(v) \in Updaters /\ Keeps(v, StopRequest(v)) /\ StopRequest(v).state = v.state
           /\ StopRequest(v).reply = "none" /\ StopRequest(v).install = v.install
           /\ StopRequest(v).origin = v.origin
<1>2. /\ ClearError(v) \in Updaters /\ Keeps(v, ClearError(v)) /\ ClearError(v).state = v.state
      /\ ClearError(v).reply = v.reply /\ ClearError(v).install = v.install
      /\ ClearError(v).origin = v.origin
  BY DEF ClearError, Updaters, Keeps
<1>3. \A r \in Stages :
                /\ Issue(v, r) \in Updaters /\ Keeps(v, Issue(v, r)) /\ Issue(v, r).state = v.state
                /\ Issue(v, r).reply = r /\ Issue(v, r).install = v.install
                /\ Issue(v, r).origin = v.origin
  BY DEF Issue, Updaters, Keeps
<1>4. "none" \in Stages
  BY DEF Stages
<1>5. /\ StopRequest(v) \in Updaters /\ Keeps(v, StopRequest(v)) /\ StopRequest(v).state = v.state
      /\ StopRequest(v).reply = "none" /\ StopRequest(v).install = v.install
      /\ StopRequest(v).origin = v.origin
  BY <1>4 DEF StopRequest, Updaters, Keeps
<1> QED
  BY <1>2, <1>3, <1>5

-----------------------------------------------------------------------------
(* What several handlers do *)

LEMMA BeginRollingCheckFacts ==
    ASSUME NEW v \in Updaters
    PROVE  LET w == BeginRollingCheck(v) IN
             /\ w \in Updaters /\ w.state = v.state /\ w.reply = "release" /\ w.rel = None
             /\ w.cand = v.cand /\ w.expected = v.expected /\ w.saved = v.saved /\ w.file = v.file
             /\ w.restoring = v.restoring /\ w.reload = v.reload /\ w.persisted = v.persisted
             /\ w.install = v.install /\ w.capable = v.capable /\ w.origin = v.origin
<1>1. "release" \in Stages /\ None \in Build
  BY DEF Stages, CheckStages, Build
<1> QED
  BY <1>1 DEF BeginRollingCheck, Issue, Updaters

\* Everything about an update is forgotten
Forgotten(w) ==
    /\ w.file = None /\ w.saved = None /\ w.expected = None /\ w.cand = None
    /\ ~w.restoring /\ ~w.reload /\ ~w.persisted

LEMMA InvalidateFacts ==
    ASSUME NEW v \in Updaters, v.state \in {"VerificationError", "RestoringPending"}
    PROVE  LET w == InvalidateAndCheck(v) IN
             /\ w \in Updaters /\ Forgotten(w) /\ w.state = "Checking" /\ w.reply = "release"
             /\ w.rel = None /\ ~w.install
<1> DEFINE x == [StopRequest(ClearError(v)) EXCEPT
                !.file = None, !.saved = None, !.expected = None, !.cand = None,
                !.restoring = FALSE, !.reload = FALSE, !.persisted = FALSE]
<1>1. /\ StopRequest(ClearError(v)) \in Updaters
      /\ StopRequest(ClearError(v)).state = v.state
  BY SmallFacts
<1> HIDE DEF x
<1>2. x \in Updaters /\ Forgotten(x) /\ x.state = v.state
  <2> DEFINE y == StopRequest(ClearError(v))
  <2>1. y \in Updaters /\ y.state = v.state
    BY <1>1
  <2>2. x = [y EXCEPT !.file = None, !.saved = None, !.expected = None, !.cand = None,
                      !.restoring = FALSE, !.reload = FALSE, !.persisted = FALSE]
    BY DEF x
  <2> HIDE DEF y
  <2> QED
    BY <2>1, <2>2 DEF Updaters, Build, Forgotten
<1>3. x.state \in States /\ Reduce(x.state, "BeginCheck") = "Checking" /\ x.state # "Checking"
  BY <1>2, ReduceFacts DEF Updaters
<1>4. InvalidateAndCheck(v) = BeginRollingCheck(Go(x, "BeginCheck"))
  BY <1>3 DEF InvalidateAndCheck, x
<1>5. "Checking" \in States
  BY DEF States
<1>6. /\ Go(x, "BeginCheck") \in Updaters /\ Keeps(x, Go(x, "BeginCheck"))
      /\ Go(x, "BeginCheck").state = "Checking" /\ ~Go(x, "BeginCheck").install
  BY <1>2, <1>3, <1>5, GoFacts
<1> QED
  BY <1>2, <1>4, <1>6, BeginRollingCheckFacts DEF Keeps, Forgotten

LEMMA ChecksFacts ==
    ASSUME NEW v \in Updaters, v.state \in DOMAIN Edge("BeginCheck")
    PROVE  LET w == Checks(v) IN
             /\ w \in Updaters /\ w.state = "Checking" /\ w.reply = "release"
             /\ w.rel = None /\ w.cand = None /\ ~w.persisted /\ ~w.restoring /\ ~w.reload
             /\ w.expected = v.expected /\ w.saved = v.saved /\ w.file = v.file
             /\ w.capable = v.capable /\ ~w.install
<1> DEFINE y == ClearError(Go(v, "BeginCheck"))
           x == [y EXCEPT !.restoring = FALSE, !.reload = FALSE, !.persisted = FALSE, !.cand = None]
<1>1. v.state \in States /\ Reduce(v.state, "BeginCheck") = "Checking" /\ v.state # "Checking"
      /\ "Checking" \in States
  BY ReduceFacts, ReduceRetry DEF Updaters, States
<1>2. /\ Go(v, "BeginCheck") \in Updaters /\ Keeps(v, Go(v, "BeginCheck"))
      /\ Go(v, "BeginCheck").state = "Checking" /\ ~Go(v, "BeginCheck").install
  BY <1>1, GoFacts
<1>3. y \in Updaters /\ Keeps(v, y) /\ y.state = "Checking" /\ ~y.install
  BY <1>2, SmallFacts DEF Keeps
<1>4. Checks(v) = BeginRollingCheck(x)
  BY DEF Checks
<1> HIDE DEF y
<1>5. /\ x \in Updaters /\ x.state = "Checking" /\ ~x.install /\ x.cand = None /\ ~x.persisted
      /\ ~x.restoring /\ ~x.reload /\ x.expected = y.expected /\ x.saved = y.saved /\ x.file = y.file
      /\ x.capable = y.capable
  BY <1>3 DEF Updaters, Build
<1> HIDE DEF x
<1> QED
  BY <1>3, <1>4, <1>5, BeginRollingCheckFacts DEF Keeps

\* A failed download, verification, restoration and check
LEMMA FailedDownload ==
    ASSUME NEW v \in Updaters, NEW c, c \in BOOLEAN, v.state = "Downloading"
    PROVE  LET w == Failed(v, c) IN
             /\ w \in Updaters /\ w.state = "DownloadError" /\ w.reply = "none" /\ Keeps(v, w)
             /\ ~w.install
<1> DEFINE x == StopRequest(v)
           y == Go(x, "DownloadFailed")
<1>1. x \in Updaters /\ Keeps(v, x) /\ x.state = "Downloading" /\ x.reply = "none"
  BY SmallFacts
<1>2. Failed(v, c) = SetError(y, "download", c)
  BY <1>1 DEF Failed
<1>3. x.state \in States /\ "DownloadError" \in States
  BY <1>1 DEF States
<1> HIDE DEF x
<1>4. Reduce(x.state, "DownloadFailed") = "DownloadError"
  BY <1>1, <1>3, ReduceFacts
<1>5. y \in Updaters /\ Keeps(x, y) /\ y.state = "DownloadError" /\ y.reply = "none"
  BY <1>1, <1>3, <1>4, GoFacts
<1> HIDE DEF y
<1>6. LET w == SetError(y, "download", c) IN
        /\ w \in Updaters /\ Keeps(y, w) /\ w.state = y.state /\ w.reply = y.reply /\ ~w.install
  BY <1>5 DEF SetError, Updaters, Keeps
<1> QED
  BY <1>1, <1>2, <1>5, <1>6 DEF Keeps

\* A verification that failed, before it is decided whether the update is kept
FailedCheckOf(v, c) == SetError(Go(StopRequest(v), "VerificationFailed"), "verification", c)

LEMMA FailedVerification ==
    ASSUME NEW v \in Updaters, NEW c, c \in BOOLEAN, v.state = "Verifying"
    PROVE  LET w == FailedCheckOf(v, c) IN
             /\ w \in Updaters /\ w.state = "VerificationError" /\ w.reply = "none" /\ Keeps(v, w)
             /\ ~w.install /\ w.origin = "verification"
             /\ Failed(v, c) = IF v.persisted /\ c THEN InvalidateAndCheck(w) ELSE w
<1> DEFINE x == StopRequest(v)
           y == Go(x, "VerificationFailed")
<1>1. x \in Updaters /\ Keeps(v, x) /\ x.state = "Verifying" /\ x.reply = "none"
  BY SmallFacts
<1>2. Failed(v, c) = IF x.persisted /\ c THEN InvalidateAndCheck(FailedCheckOf(v, c))
                                        ELSE FailedCheckOf(v, c)
  BY <1>1 DEF Failed, FailedCheckOf
<1>3. FailedCheckOf(v, c) = SetError(y, "verification", c)
  BY DEF FailedCheckOf
<1>4. x.state \in States /\ "VerificationError" \in States
  BY <1>1 DEF States
<1> HIDE DEF x
<1>5. Reduce(x.state, "VerificationFailed") = "VerificationError"
  BY <1>1, <1>4, ReduceFacts
<1>6. y \in Updaters /\ Keeps(x, y) /\ y.state = "VerificationError" /\ y.reply = "none"
  BY <1>1, <1>4, <1>5, GoFacts
<1> HIDE DEF y
<1>7. LET w == SetError(y, "verification", c) IN
        /\ w \in Updaters /\ Keeps(y, w) /\ w.state = y.state /\ w.reply = y.reply /\ ~w.install
        /\ w.origin = "verification"
  BY <1>6 DEF SetError, Updaters, Keeps
<1> QED
  BY <1>1, <1>2, <1>3, <1>6, <1>7 DEF Keeps

LEMMA FailedRestoration ==
    ASSUME NEW v \in Updaters, v.state = "RestoringPending"
    PROVE  LET w == Failed(v, FALSE) IN
             /\ w \in Updaters /\ w.state = "RestoreError" /\ w.reply = "none" /\ Keeps(v, w)
             /\ ~w.install
<1> DEFINE x == StopRequest(v)
           y == Go(x, "RestoreFailed")
<1>1. x \in Updaters /\ Keeps(v, x) /\ x.state = "RestoringPending" /\ x.reply = "none"
  BY SmallFacts
<1>2. Failed(v, FALSE) = SetError(y, "restore", FALSE)
  BY <1>1 DEF Failed
<1>3. x.state \in States /\ "RestoreError" \in States
  BY <1>1 DEF States
<1> HIDE DEF x
<1>4. Reduce(x.state, "RestoreFailed") = "RestoreError"
  BY <1>1, <1>3, ReduceFacts
<1>5. y \in Updaters /\ Keeps(x, y) /\ y.state = "RestoreError" /\ y.reply = "none"
  BY <1>1, <1>3, <1>4, GoFacts
<1> HIDE DEF y
<1>6. LET w == SetError(y, "restore", FALSE) IN
        /\ w \in Updaters /\ Keeps(y, w) /\ w.state = y.state /\ w.reply = y.reply /\ ~w.install
  BY <1>5 DEF SetError, Updaters, Keeps
<1> QED
  BY ZenonT(60), <1>1, <1>2, <1>5, <1>6 DEF Keeps

LEMMA FailedCheck ==
    ASSUME NEW v \in Updaters, NEW c, c \in BOOLEAN, v.state = "Checking"
    PROVE  LET w == Failed(v, c) IN
             /\ w \in Updaters /\ w.state = "CheckError" /\ w.reply = "none" /\ ~w.install
             /\ w.cand = None /\ w.rel = v.rel /\ w.expected = v.expected /\ w.saved = v.saved
             /\ w.file = v.file /\ w.persisted = v.persisted
<1> DEFINE x == StopRequest(v)
           z == [x EXCEPT !.cand = None]
           y == Go(z, "CheckFailed")
<1>1. x \in Updaters /\ Keeps(v, x) /\ x.state = "Checking" /\ x.reply = "none"
  BY SmallFacts
<1>2. Failed(v, c) = SetError(y, "check", c)
  BY <1>1 DEF Failed
<1> HIDE DEF x
<1>3. /\ z \in Updaters /\ z.cand = None /\ z.state = "Checking" /\ z.reply = "none"
      /\ z.rel = x.rel /\ z.expected = x.expected /\ z.saved = x.saved /\ z.file = x.file
      /\ z.persisted = x.persisted
  BY <1>1 DEF Updaters, Build
<1> HIDE DEF z
<1>4. z.state \in States /\ "CheckError" \in States
  BY <1>3 DEF States
<1>5. Reduce(z.state, "CheckFailed") = "CheckError"
  BY <1>3, <1>4, ReduceFacts
<1>6. y \in Updaters /\ Keeps(z, y) /\ y.state = "CheckError" /\ y.reply = "none"
  BY <1>3, <1>4, <1>5, GoFacts
<1> HIDE DEF y
<1>7. LET w == SetError(y, "check", c) IN
        /\ w \in Updaters /\ Keeps(y, w) /\ w.state = y.state /\ w.reply = y.reply /\ ~w.install
  BY <1>6 DEF SetError, Updaters, Keeps
<1> QED
  BY <1>1, <1>2, <1>3, <1>6, <1>7 DEF Keeps

\* A publisher that changed: what was verified before is dropped
LEMMA FailedChanged ==
    ASSUME NEW v \in Updaters, NEW c, c \in BOOLEAN, Invalidates(v, c)
    PROVE  LET w == Failed(v, c) IN
             /\ w \in Updaters /\ Forgotten(w) /\ w.state = "Checking" /\ w.reply = "release"
             /\ w.rel = None /\ ~w.install
<1>1. c /\ (v.state = "RestoringPending" \/ (v.state = "Verifying" /\ v.persisted))
  BY DEF Invalidates
<1>2. CASE v.state = "RestoringPending"
  <2>1. c = TRUE /\ StopRequest(v).state = "RestoringPending"
    BY <1>1, <1>2, SmallFacts
  <2>3. Failed(v, TRUE) = InvalidateAndCheck(StopRequest(v))
    BY <2>1 DEF Failed
  <2>2. StopRequest(v) \in Updaters /\ StopRequest(v).state = "RestoringPending"
    BY <1>2, SmallFacts
  <2>4. Failed(v, c) = InvalidateAndCheck(StopRequest(v))
    BY <2>1, <2>3
  <2> QED
    BY <2>2, <2>4, InvalidateFacts
<1>3. CASE v.state = "Verifying" /\ v.persisted
  <2>1. /\ c = TRUE /\ StopRequest(v).state = "Verifying"
        /\ Keeps(v, StopRequest(v))
    BY <1>1, <1>3, SmallFacts
  <2>2. StopRequest(v).persisted
    BY <1>3, <2>1 DEF Keeps
  <2>3. Failed(v, TRUE) = InvalidateAndCheck(FailedCheckOf(v, TRUE))
    BY <2>1, <2>2 DEF Failed, FailedCheckOf
  <2>4. FailedCheckOf(v, TRUE) \in Updaters /\ FailedCheckOf(v, TRUE).state = "VerificationError"
    BY <1>3, FailedVerification
  <2>5. Failed(v, c) = InvalidateAndCheck(FailedCheckOf(v, TRUE))
    BY <2>1, <2>3
  <2> QED
    BY <2>4, <2>5, InvalidateFacts
<1> QED
  BY <1>1, <1>2, <1>3

-----------------------------------------------------------------------------
(* The invariant of the updater through the steps of a handler *)

USE DEF Out

\* A state in which nothing is promised of the update
LEMMA QuietCore ==
    ASSUME NEW v \in Updaters, NEW rec \in Build, NEW o, NEW p, NEW w,
           Bounds(v, rec, p), v.state \notin Offered \cup {"RestoringPending"},
           v.state = "RestoreError" => v.reload,
           ~v.install, v.persisted => v.state = "Cancelled"
    PROVE  Core(v, rec, o, p, w)
<1>1. Offer(v, o) /\ OneUpdate(v, rec, o) /\ Wish(v, w)
  BY DEF Offer, OneUpdate, Wish, Offered
<1>2. Again(v, rec, o)
  BY DEF Again, Offered
<1> QED
  BY <1>1, <1>2 DEF Core

\* A request, or an error that is cleared, makes no difference
LEMMA SameCore ==
    ASSUME NEW v, NEW x \in Updaters, NEW rec, NEW o, NEW p, NEW w,
           Core(v, rec, o, p, w), Keeps(v, x), x.state = v.state, x.origin = v.origin,
           x.install => v.install
    PROVE  Core(x, rec, o, p, w)
<1>1. /\ Bounds(x, rec, p) /\ Offer(x, o) /\ OneUpdate(x, rec, o)
  BY DEF Core, Keeps, Bounds, Offer, OneUpdate
<1>2. Wish(x, w)
  BY DEF Core, Keeps, Wish
<1>3. Again(x, rec, o)
  BY DEF Core, Keeps, Again, Four
<1> QED
  BY <1>1, <1>2, <1>3 DEF Core

\* clear() leaves no other record than before, and no file that was not there
LEMMA ClearFacts ==
    ASSUME NEW b, b \in BOOLEAN, Clear(b), payload \subseteq Builds, record \in Build
    PROVE  record' \in {None, record} /\ record' \in Build /\ payload' \subseteq Builds
<1>1. record' \in {None, record} /\ (payload' = payload \/ payload' = payload \ {record})
  BY DEF Clear
<1> QED
  BY <1>1 DEF Build

LEMMA LoadDropsFacts ==
    ASSUME LoadDrops, payload \subseteq Builds, record \in Build
    PROVE  record' \in {None, record} /\ record' \in Build /\ payload' \subseteq Builds
BY ClearFacts DEF LoadDrops

Failures == {"DownloadError", "VerificationError", "RestoreError", "CheckError", "Checking"}

\* A failure of what the updater is busy with keeps the invariant
LEMMA FailKeeps ==
    ASSUME NEW v, NEW c, c \in BOOLEAN, Core(v, record, own, published, wanted),
           v.state \in {"Downloading", "Verifying", "RestoringPending", "Checking"},
           payload \subseteq Builds, Fail(v, c)
    PROVE  /\ Core(u', record', own, published, wanted) /\ Calm(u') /\ payload' \subseteq Builds
           /\ u'.state \in Failures
           /\ u'.state = "Checking" => u'.reply = "release" /\ Invalidates(v, c)
<1>1. v \in Updaters /\ record \in Build /\ Bounds(v, record, published)
  BY DEF Core
<1>2. u' = Failed(v, c)
  BY DEF Fail
<1>3. CASE Invalidates(v, c)
  <2>1. /\ u' \in Updaters /\ Forgotten(u') /\ u'.state = "Checking" /\ u'.reply = "release"
        /\ ~u'.install /\ u'.rel = None
    BY <1>1, <1>2, <1>3, FailedChanged
  <2>2. record' \in {None, record} /\ record' \in Build /\ payload' \subseteq Builds
    BY <1>1, <1>3, ClearFacts DEF Fail
  <2>3. Bounds(u', record', published)
    BY <1>1, <2>1, <2>2 DEF Bounds, Forgotten
  <2>4. Core(u', record', own, published, wanted)
    BY <2>1, <2>2, <2>3, QuietCore DEF Forgotten, Offered, Ready
  <2>5. Calm(u')
    BY <2>1 DEF Calm, Final, Stage, CheckStages, AgainStages
  <2> QED
    BY <1>3, <2>1, <2>2, <2>4, <2>5 DEF Failures
<1>4. CASE ~Invalidates(v, c)
  <2>1. record' = record /\ payload' = payload
    BY <1>4 DEF Fail, DiskSame, disk
  <2>2. CASE v.state = "Downloading"
    <3>1. /\ u' \in Updaters /\ u'.state = "DownloadError" /\ u'.reply = "none" /\ Keeps(v, u')
          /\ ~u'.install
      BY <1>1, <1>2, <2>2, FailedDownload
    <3>2. Bounds(u', record, published) /\ Wish(u', wanted) /\ OneUpdate(u', record, own)
      BY <3>1 DEF Core, Keeps, Bounds, Wish, OneUpdate, Ready
    <3>3. Offer(u', own)
      BY <2>2, <3>1 DEF Core, Keeps, Offer, Offered
    <3>4. Again(u', record, own)
      BY <2>2, <3>1 DEF Core, Keeps, Again
    <3>5. Calm(u')
      BY <3>1 DEF Calm, Final, Stage, CheckStages, AgainStages
    <3> QED
      BY <1>1, <2>1, <3>1, <3>2, <3>3, <3>4, <3>5 DEF Core, Failures
  <2>3. CASE v.state = "Verifying"
    <3> DEFINE x == FailedCheckOf(v, c)
    <3>0. ~(v.persisted /\ c)
      BY <1>4, <2>3 DEF Invalidates
    <3>1. /\ x \in Updaters /\ x.state = "VerificationError" /\ x.reply = "none" /\ Keeps(v, x)
          /\ ~x.install /\ x.origin = "verification"
          /\ Failed(v, c) = IF v.persisted /\ c THEN InvalidateAndCheck(x) ELSE x
      BY <1>1, <2>3, FailedVerification
    <3>2. u' = x
      BY <1>2, <3>0, <3>1
    <3> HIDE DEF x
    <3>3. Bounds(x, record, published) /\ Wish(x, wanted) /\ OneUpdate(x, record, own)
      BY <3>1 DEF Core, Keeps, Bounds, Wish, OneUpdate, Ready
    <3>4. Offer(x, own)
      BY <2>3, <3>1 DEF Core, Keeps, Offer, Offered
    <3>5. Again(x, record, own)
      BY <2>3, <3>1 DEF Core, Keeps, Again, Four
    <3>6. Calm(x)
      BY <3>1 DEF Calm, Final, Stage, CheckStages, AgainStages
    <3> QED
      BY <1>1, <2>1, <3>1, <3>2, <3>3, <3>4, <3>5, <3>6 DEF Core, Failures
  <2>4. CASE v.state = "RestoringPending"
    <3>1. c = FALSE
      BY <1>4, <2>4 DEF Invalidates
    <3>2. /\ u' \in Updaters /\ u'.state = "RestoreError" /\ u'.reply = "none" /\ Keeps(v, u')
          /\ ~u'.install
      BY <1>1, <1>2, <2>4, <3>1, FailedRestoration
    <3>3. Bounds(u', record, published) /\ Wish(u', wanted) /\ OneUpdate(u', record, own)
      BY <3>2 DEF Core, Keeps, Bounds, Wish, OneUpdate, Ready
    <3>4. Offer(u', own)
      BY <3>2 DEF Offer, Offered, Ready
    <3>5. Again(u', record, own)
      BY <2>4, <3>2 DEF Core, Keeps, Again, Four
    <3>6. Calm(u')
      BY <3>2 DEF Calm, Final, Stage, CheckStages, AgainStages
    <3> QED
      BY <1>1, <2>1, <3>2, <3>3, <3>4, <3>5, <3>6 DEF Core, Failures
  <2>5. CASE v.state = "Checking"
    <3>1. /\ u' \in Updaters /\ u'.state = "CheckError" /\ u'.reply = "none" /\ ~u'.install
          /\ u'.cand = None /\ u'.rel = v.rel /\ u'.expected = v.expected /\ u'.saved = v.saved
          /\ u'.file = v.file /\ u'.persisted = v.persisted
      BY <1>1, <1>2, <2>5, FailedCheck
    <3>2. Bounds(u', record, published)
      BY <1>1, <3>1 DEF Bounds
    <3>3. ~u'.persisted
      BY <2>5, <3>1 DEF Core, Again
    <3>4. Core(u', record, own, published, wanted)
      BY <1>1, <3>1, <3>2, <3>3, QuietCore DEF Offered, Ready
    <3>5. Calm(u')
      BY <3>1 DEF Calm, Final, Stage, CheckStages, AgainStages
    <3> QED
      BY <2>1, <3>1, <3>4, <3>5 DEF Failures
  <2> QED
    BY <2>2, <2>3, <2>4, <2>5
<1> QED
  BY <1>3, <1>4

LEMMA RevalidationFacts ==
    ASSUME NEW v \in Updaters, NEW b, b \in BOOLEAN
    PROVE  LET x == BeginRevalidation(v, b) IN
             /\ x \in Updaters /\ x.state = v.state /\ x.reply = "release again"
             /\ x.restoring = b /\ x.rel = v.rel /\ x.cand = v.cand /\ x.expected = v.expected
             /\ x.saved = v.saved /\ x.file = v.file /\ x.reload = v.reload
             /\ x.persisted = v.persisted /\ x.install = v.install /\ x.origin = v.origin
<1>1. "release again" \in Stages
  BY DEF Stages, AgainStages
<1> QED
  BY <1>1 DEF BeginRevalidation, Issue, Updaters

\* A verification that begins
LEMMA RevalidationCore ==
    ASSUME NEW v, NEW rec, NEW o, NEW p, NEW w, Core(v, rec, o, p, w), v.state = "Verifying"
    PROVE  LET x == BeginRevalidation(v, FALSE) IN
             Core(x, rec, o, p, w) /\ Calm(x) /\ x.state = "Verifying"
<1> DEFINE x == BeginRevalidation(v, FALSE)
<1>1. /\ x \in Updaters /\ x.state = v.state /\ x.reply = "release again"
      /\ ~x.restoring /\ x.rel = v.rel /\ x.cand = v.cand /\ x.expected = v.expected
      /\ x.saved = v.saved /\ x.file = v.file /\ x.reload = v.reload
      /\ x.persisted = v.persisted /\ x.install = v.install /\ x.origin = v.origin
  BY RevalidationFacts DEF Core
<1> HIDE DEF x
<1>2. Bounds(x, rec, p) /\ Wish(x, w) /\ OneUpdate(x, rec, o) /\ Offer(x, o)
  BY <1>1 DEF Core, Bounds, Wish, OneUpdate, Offer
<1>3. Again(x, rec, o)
  BY <1>1 DEF Core, Again, Four
<1>4. Calm(x)
  BY <1>1 DEF Calm, Final, Stage, CheckStages, AgainStages
<1> QED
  BY <1>1, <1>2, <1>3, <1>4 DEF Core, x

\* A restoration that begins, or begins again
LEMMA RestorationCore ==
    ASSUME NEW v \in Updaters, NEW rec \in Build, NEW o, NEW p, NEW w,
           Bounds(v, rec, p), v.state = "RestoringPending", Four(v, rec, o),
           ~v.persisted, ~v.install
    PROVE  LET x == BeginRevalidation(v, TRUE) IN
             Core(x, rec, o, p, w) /\ Calm(x) /\ x.state = "RestoringPending"
<1> DEFINE x == BeginRevalidation(v, TRUE)
<1>1. /\ x \in Updaters /\ x.state = v.state /\ x.reply = "release again"
      /\ x.restoring /\ x.rel = v.rel /\ x.cand = v.cand /\ x.expected = v.expected
      /\ x.saved = v.saved /\ x.file = v.file /\ x.reload = v.reload
      /\ x.persisted = v.persisted /\ x.install = v.install /\ x.origin = v.origin
  BY RevalidationFacts
<1> HIDE DEF x
<1>2. Bounds(x, rec, p) /\ Wish(x, w)
  BY <1>1 DEF Bounds, Wish
<1>3. OneUpdate(x, rec, o) /\ Offer(x, o)
  BY <1>1 DEF OneUpdate, Offer, Offered, Ready
<1>4. Again(x, rec, o)
  BY <1>1 DEF Again, Four
<1>5. Calm(x)
  BY <1>1 DEF Calm, Final, Stage, CheckStages, AgainStages
<1> QED
  BY <1>1, <1>2, <1>3, <1>4, <1>5 DEF Core, x

\* beginRestoration() of a record that is there
LEMMA RestoredCore ==
    ASSUME NEW v \in Updaters, record \in Build, Bounds(v, record, published),
           v.state = "RestoringPending", record # None, record # own, ~v.persisted, ~v.install
    PROVE  LET x == Restored(v) IN
             Core(x, record, own, published, wanted) /\ Calm(x) /\ x.state = "RestoringPending"
<1> DEFINE y == [v EXCEPT !.reload = FALSE, !.saved = record, !.expected = record, !.cand = record]
<1>1. /\ y \in Updaters /\ y.state = "RestoringPending" /\ ~y.persisted /\ ~y.install
      /\ y.saved = record /\ y.expected = record /\ y.cand = record /\ y.rel = v.rel
      /\ y.file = v.file
  BY DEF Updaters
<1>2. Restored(v) = BeginRevalidation(y, TRUE)
  BY DEF Restored
<1> HIDE DEF y
<1>3. Bounds(y, record, published) /\ Four(y, record, own)
  BY <1>1 DEF Bounds, Four
<1> QED
  BY <1>1, <1>2, <1>3, RestorationCore

\* checkNow() drops what was offered
LEMMA ChecksCore ==
    ASSUME NEW v, NEW rec, NEW o, NEW p, NEW w, Core(v, rec, o, p, w),
           v.state \in DOMAIN Edge("BeginCheck"), NEW rec2 \in Build, Out(rec2, p)
    PROVE  LET x == Checks(v) IN Core(x, rec2, o, p, w) /\ Calm(x)
<1> DEFINE x == Checks(v)
<1>1. /\ x \in Updaters /\ x.state = "Checking" /\ x.reply = "release"
      /\ x.rel = None /\ x.cand = None /\ ~x.persisted /\ ~x.restoring /\ ~x.reload
      /\ x.expected = v.expected /\ x.saved = v.saved /\ x.file = v.file /\ ~x.install
  BY ChecksFacts DEF Core
<1> HIDE DEF x
<1>2. Bounds(x, rec2, p)
  BY <1>1 DEF Core, Bounds
<1>3. Core(x, rec2, o, p, w)
  BY <1>1, <1>2, QuietCore DEF Offered, Ready
<1>4. Calm(x)
  BY <1>1 DEF Calm, Final, Stage, CheckStages, AgainStages
<1> QED
  BY <1>3, <1>4 DEF x

\* invalidatePendingAndCheck() too
LEMMA InvalidateCore ==
    ASSUME NEW v \in Updaters, v.state \in {"VerificationError", "RestoringPending"},
           NEW rec2 \in Build, NEW o, NEW p, NEW w, Out(rec2, p)
    PROVE  LET x == InvalidateAndCheck(v) IN
             Core(x, rec2, o, p, w) /\ Calm(x) /\ x.state = "Checking" /\ x.reply = "release"
<1> DEFINE x == InvalidateAndCheck(v)
<1>1. /\ x \in Updaters /\ Forgotten(x) /\ x.state = "Checking" /\ x.reply = "release"
      /\ x.rel = None /\ ~x.install
  BY InvalidateFacts
<1> HIDE DEF x
<1>2. Bounds(x, rec2, p)
  BY <1>1 DEF Bounds, Forgotten
<1>3. Core(x, rec2, o, p, w)
  BY <1>1, <1>2, QuietCore DEF Forgotten, Offered, Ready
<1>4. Calm(x)
  BY <1>1 DEF Calm, Final, Stage, CheckStages, AgainStages
<1> QED
  BY <1>1, <1>3, <1>4 DEF x

\* The states that wait for a reply
Awaiting == {"Checking", "Downloading", "Verifying", "RestoringPending"}

\* In the others nothing is waited for, and then nothing is needed
LEMMA StageIdle ==
    ASSUME NEW v \in Updaters, Stage(v),
           v.state \notin {"Checking", "Downloading", "Verifying", "RestoringPending"}
    PROVE  v.reply = "none"
BY DEF Stage, Updaters, Stages

LEMMA StageNone ==
    ASSUME NEW v, v.reply = "none", v.state \notin Awaiting
    PROVE  Stage(v)
BY DEF Stage, CheckStages, AgainStages, Awaiting

LEMMA CalmNone ==
    ASSUME NEW v, v.reply = "none", v.state \notin Final \cup Awaiting
    PROVE  Calm(v)
BY StageNone DEF Calm

\* A step of the updater alone, in a state in which the installer is not in use
LEMMA UserStep ==
    ASSUME Inv, UNCHANGED <<host, world>>, wanted' \in Build, payload' \subseteq Builds,
           Core(u', record', own, published, wanted'), Calm(u'), u.state \notin Closed
    PROVE  Inv' /\ Quiet
<1>1. /\ inst' = inst /\ early' = early /\ txn' = txn /\ others' = others /\ deployed' = deployed
      /\ own' = own /\ published' = published
  BY DEF host, world
<1>2. u' \in Updaters /\ record' \in Build
  BY DEF Core
<1>3. TypeOK'
  BY <1>1, <1>2 DEF Inv, TypeOK
<1>4. Core(u', record', own', published', wanted')
  BY <1>1
<1>5. WorldInv'
  BY <1>1 DEF Inv, WorldInv
<1>6. HostInv'
  BY <1>1 DEF Inv, HostInv, Calm, Final, Closed
<1>7. Stage(u)'
  BY DEF Calm, Stage
<1>8. Quiet
  BY DEF Quiet, Calm
<1> QED
  BY <1>3, <1>4, <1>5, <1>6, <1>7, <1>8 DEF Inv

-----------------------------------------------------------------------------
(* What the user does *)

\* What Inv says of the state u, in the terms of the lemmas above
LEMMA InvFacts ==
    ASSUME Inv
    PROVE  /\ u \in Updaters /\ u.state \in States /\ record \in Build /\ payload \subseteq Builds
           /\ wanted \in Build /\ own \in Builds /\ published \in Builds /\ own <= published
           /\ Bounds(u, record, published) /\ Core(u, record, own, published, wanted) /\ Stage(u)
           /\ u.capable \in BOOLEAN
BY DEF Inv, TypeOK, Core, WorldInv, Updaters

LEMMA StartKeeps == ASSUME Inv, Start PROVE Inv' /\ Quiet
<1> DEFINE v == Go(u, "BeginRestore")
<1>1. u.state = "Idle" /\ ~u.install /\ ~u.persisted /\ u.reply = "none"
  BY InvFacts, StageIdle DEF Start, Core, Wish, Again
<1>2. UNCHANGED <<host, world>> /\ wanted' = wanted
  BY DEF Start, HostSame
<1>3. Reduce(u.state, "BeginRestore") = "RestoringPending" /\ "RestoringPending" \in States
  BY <1>1, InvFacts, ReduceFacts DEF States
<1>4. /\ v \in Updaters /\ v.state = "RestoringPending" /\ Keeps(u, v) /\ v.reply = "none"
      /\ (v.install => u.install)
  BY <1>1, <1>3, InvFacts, GoFacts
<1> HIDE DEF v
<1>5. ~v.persisted /\ ~v.install /\ Bounds(v, record, published)
  BY <1>1, <1>4, InvFacts DEF Keeps, Bounds
<1>6. SUFFICES Core(u', record', own, published, wanted) /\ Calm(u') /\ payload' \subseteq Builds
  BY <1>1, <1>2, InvFacts, UserStep DEF Closed, Final
<1>7. CASE Loaded /\ record = own /\ u' = Go(v, "CandidateCurrent") /\ Clear(FALSE)
  <2>1. record' \in {None, record} /\ record' \in Build /\ payload' \subseteq Builds
    BY <1>7, InvFacts, ClearFacts
  <2>2. v.state \in States /\ Reduce(v.state, "CandidateCurrent") = "NoUpdate" /\ "NoUpdate" \in States
    BY <1>4, ReduceFacts DEF States
  <2>3. /\ u' \in Updaters /\ u'.state = "NoUpdate" /\ Keeps(v, u') /\ u'.reply = "none" /\ ~u'.install
    BY <1>4, <1>5, <1>7, <2>2, GoFacts
  <2>4. Bounds(u', record', published) /\ ~u'.persisted
    BY <1>5, <2>1, <2>3 DEF Bounds, Keeps
  <2> QED
    BY <2>1, <2>3, <2>4, QuietCore, CalmNone DEF Final, Awaiting, Offered, Ready
<1>8. CASE Loaded /\ record # own /\ u' = Restored(v) /\ DiskSame
  <2>1. record # None /\ record' = record /\ payload' = payload
    BY <1>8 DEF Loaded, DiskSame, disk
  <2> QED
    BY <1>4, <1>5, <1>8, <2>1, InvFacts, RestoredCore
<1>9. CASE ~Loaded /\ u' = Checks(u) /\ LoadDrops
  <2>1. record' \in {None, record} /\ record' \in Build /\ payload' \subseteq Builds
    BY <1>9, InvFacts, LoadDropsFacts
  <2>2. u.state \in DOMAIN Edge("BeginCheck")
    BY <1>1, InvFacts, ReduceRetry
  <2> QED
    BY <1>9, <2>1, <2>2, InvFacts, ChecksCore DEF Bounds
<1>10. ASSUME NEW known \in {None, record}, DiskSame,
              u' = SetError(Go([v EXCEPT !.restoring = TRUE, !.reload = TRUE, !.saved = known,
                                         !.expected = known, !.cand = known],
                               "RestoreFailed"), "restore", FALSE)
       PROVE  Core(u', record', own, published, wanted) /\ Calm(u') /\ payload' \subseteq Builds
  <2> DEFINE x == [v EXCEPT !.restoring = TRUE, !.reload = TRUE, !.saved = known,
                            !.expected = known, !.cand = known]
             y == Go(x, "RestoreFailed")
  <2>1. known \in Build /\ (known = None \/ known = record)
    BY InvFacts DEF Build
  <2>2. /\ x \in Updaters /\ x.state = "RestoringPending" /\ x.saved = known /\ x.cand = known
        /\ x.expected = known /\ x.rel = v.rel /\ x.file = v.file /\ x.reload /\ ~x.persisted
        /\ x.reply = "none"
    BY <1>4, <1>5, <2>1 DEF Updaters
  <2>3. u' = SetError(y, "restore", FALSE)
    BY <1>10
  <2> HIDE DEF x
  <2>4. x.state \in States /\ Reduce(x.state, "RestoreFailed") = "RestoreError" /\ "RestoreError" \in States
    BY <2>2, ReduceFacts DEF States
  <2>5. y \in Updaters /\ y.state = "RestoreError" /\ Keeps(x, y) /\ y.reply = "none"
    BY <2>2, <2>4, GoFacts
  <2> HIDE DEF y
  <2>6. /\ u' \in Updaters /\ u'.state = "RestoreError" /\ Keeps(y, u') /\ ~u'.install
        /\ u'.reply = "none"
    BY <2>3, <2>5 DEF SetError, Updaters, Keeps
  <2>7. record' = record /\ payload' = payload
    BY <1>10 DEF DiskSame, disk
  <2>8. Bounds(u', record', published) /\ ~u'.persisted /\ u'.reload
    BY <1>5, <2>1, <2>2, <2>5, <2>6, <2>7 DEF Bounds, Keeps
  <2> QED
    BY <2>6, <2>7, <2>8, InvFacts, QuietCore, CalmNone DEF Final, Awaiting, Offered, Ready
<1> QED
  BY <1>7, <1>8, <1>9, <1>10 DEF Start, v

LEMMA CheckNowKeeps == ASSUME Inv, CheckNow \/ RetryCheck PROVE Inv' /\ Quiet
<1>1. /\ u.state \in DOMAIN Edge("BeginCheck") /\ u' = Checks(u) /\ DiskSame
      /\ UNCHANGED <<host, world>> /\ wanted' = wanted
  BY DEF CheckNow, RetryCheck, MayCheck, HostSame
<1>2. record' = record /\ payload' = payload
  BY <1>1 DEF DiskSame, disk
<1>3. u.state \notin Closed
  BY <1>1, InvFacts, ReduceRetry DEF Closed, Final
<1>4. Out(record, published)
  BY InvFacts DEF Bounds
<1>5. Core(u', record', own, published, wanted) /\ Calm(u')
  BY <1>1, <1>2, <1>4, InvFacts, ChecksCore
<1> QED
  BY <1>1, <1>2, <1>3, <1>5, InvFacts, UserStep DEF Closed, Final

LEMMA DownloadKeeps == ASSUME Inv, Download PROVE Inv' /\ Quiet
<1> DEFINE x == [u EXCEPT !.install = u.capable]
           y == Go(x, "BeginDownload")
           v == ClearError(y)
           z == Go(v, "DownloadFailed")
<1>1. /\ u.state = "Available" /\ wanted' = u.cand /\ record' = record /\ payload' = payload
      /\ UNCHANGED <<host, world>>
      /\ u' \in {Issue(v, "asset"), SetError(z, "download", FALSE)}
  BY DEF Download, DiskSame, disk
<1>2. /\ x \in Updaters /\ Keeps(u, x) /\ x.state = "Available"
  BY <1>1, InvFacts DEF Updaters, Keeps
<1>3. ~u.persisted /\ u.cand \in Build
  BY <1>1, InvFacts DEF Core, Again, Updaters
<1> HIDE DEF x
<1>4. x.state \in States /\ Reduce(x.state, "BeginDownload") = "Downloading" /\ "Downloading" \in States
      /\ Reduce("Downloading", "DownloadFailed") = "DownloadError" /\ "DownloadError" \in States
  BY <1>2, ReduceFacts DEF States
<1>5. y \in Updaters /\ Keeps(x, y) /\ y.state = "Downloading"
  BY <1>2, <1>4, GoFacts
<1> HIDE DEF y
<1>6. v \in Updaters /\ Keeps(y, v) /\ v.state = "Downloading"
  BY <1>5, SmallFacts
<1> HIDE DEF v
<1>7. Keeps(u, v)
  BY <1>2, <1>5, <1>6 DEF Keeps
<1>8. CASE u' = Issue(v, "asset")
  <2>1. "asset" \in Stages
    BY DEF Stages
  <2>2. u' \in Updaters /\ Keeps(v, u') /\ u'.state = "Downloading" /\ u'.reply = "asset"
    BY <1>6, <1>8, <2>1, SmallFacts
  <2>3. Keeps(u, u')
    BY <1>7, <2>2 DEF Keeps
  <2>4. Bounds(u', record, published) /\ Wish(u', u.cand) /\ OneUpdate(u', record, own)
    BY <2>2, <2>3, InvFacts DEF Bounds, Keeps, Wish, OneUpdate, Ready
  <2>5. Offer(u', own)
    BY <1>1, <2>2, <2>3, InvFacts DEF Core, Offer, Offered, Keeps
  <2>6. Again(u', record, own)
    BY <1>3, <2>2, <2>3 DEF Again, Keeps
  <2>7. Core(u', record', own, published, wanted')
    BY <1>1, <2>2, <2>4, <2>5, <2>6, InvFacts DEF Core
  <2>8. Calm(u')
    BY <2>2 DEF Calm, Final, Stage, CheckStages, AgainStages
  <2> QED
    BY <1>1, <1>3, <2>7, <2>8, InvFacts, UserStep DEF Closed, Final
<1>9. CASE u' = SetError(z, "download", FALSE)
  <2>1. z \in Updaters /\ Keeps(v, z) /\ z.state = "DownloadError" /\ z.reply = v.reply
    BY <1>4, <1>6, GoFacts
  <2> HIDE DEF z
  <2>2. u' \in Updaters /\ Keeps(z, u') /\ u'.state = "DownloadError" /\ ~u'.install /\ u'.reply = z.reply
    BY <1>9, <2>1 DEF SetError, Updaters, Keeps
  <2>3. Keeps(u, u')
    BY <1>7, <2>1, <2>2 DEF Keeps
  <2>4. Bounds(u', record, published) /\ Wish(u', u.cand) /\ OneUpdate(u', record, own)
    BY <2>2, <2>3, InvFacts DEF Bounds, Keeps, Wish, OneUpdate, Ready
  <2>5. Offer(u', own)
    BY <1>1, <2>2, <2>3, InvFacts DEF Core, Offer, Offered, Keeps
  <2>6. Again(u', record, own)
    BY <1>3, <2>2, <2>3 DEF Again, Keeps
  <2>7. Core(u', record', own, published, wanted')
    BY <1>1, <2>2, <2>4, <2>5, <2>6, InvFacts DEF Core
  <2>8. u.reply = "none"
    BY <1>1, InvFacts, StageIdle
  <2>9. u'.reply = "none"
    <3>1. x.reply = u.reply
      BY InvFacts DEF x, Updaters
    <3>2. y.reply = x.reply
      BY <1>2, <1>4, GoFacts DEF y
    <3>3. v.reply = y.reply
      BY <1>5, SmallFacts DEF v
    <3> QED
      BY <2>1, <2>2, <2>8, <3>1, <3>2, <3>3
  <2>10. Calm(u')
    BY <2>2, <2>9, CalmNone DEF Final, Awaiting
  <2> QED
    BY <1>1, <1>3, <2>7, <2>10, InvFacts, UserStep DEF Closed, Final
<1> QED
  BY <1>1, <1>8, <1>9

\* A verification of what was verified before
LEMMA VerifyAgainKeeps ==
    ASSUME Inv, NEW b, b \in BOOLEAN, NEW w, b => w = u.cand, VerifyAgain(b),
           u.state \in {"ReadyForDesktop", "ReadyToHandOff", "HandOffError"}
    PROVE  Core(u', record, own, published, w) /\ Calm(u')
<1> DEFINE y == Go(u, "Retry")
           z == ClearError(y)
           v == [z EXCEPT !.install = b, !.persisted = TRUE]
<1>1. Reduce(u.state, "Retry") = "Verifying" /\ "Verifying" \in States
  BY InvFacts, ReduceRetry DEF States
<1>2. y \in Updaters /\ Keeps(u, y) /\ y.state = "Verifying"
  BY <1>1, InvFacts, GoFacts
<1> HIDE DEF y
<1>3. z \in Updaters /\ Keeps(y, z) /\ z.state = "Verifying"
  BY <1>2, SmallFacts
<1> HIDE DEF z
<1>4. /\ v \in Updaters /\ v.state = "Verifying" /\ v.rel = z.rel /\ v.cand = z.cand
      /\ v.expected = z.expected /\ v.saved = z.saved /\ v.file = z.file /\ v.persisted
      /\ (v.install => b)
  BY <1>3 DEF Updaters
<1>5. u' = BeginRevalidation(v, FALSE)
  BY DEF VerifyAgain, v, y, z
<1> HIDE DEF v
<1>6. v.rel = u.rel /\ v.cand = u.cand /\ v.expected = u.expected /\ v.saved = u.saved /\ v.file = u.file
  BY <1>2, <1>3, <1>4 DEF Keeps
<1>7. /\ u.file # None /\ u.file > own
      /\ u.cand = u.file /\ u.expected = u.file /\ u.saved = u.file /\ record = u.file
  BY InvFacts DEF Core, OneUpdate, Ready
<1>8. u.file \in Nat /\ own \in Nat
  BY <1>7, InvFacts, BuildsAreNumbers DEF Updaters, Build
<1>9. Bounds(v, record, published) /\ Wish(v, w) /\ OneUpdate(v, record, own)
  BY <1>4, <1>6, InvFacts DEF Bounds, Wish, OneUpdate, Ready
<1>10. Offer(v, own) /\ Again(v, record, own)
  BY <1>4, <1>6, <1>7, <1>8 DEF Offer, Again, Four
<1>11. Core(v, record, own, published, w)
  BY <1>4, <1>9, <1>10, InvFacts DEF Core
<1> QED
  BY <1>4, <1>5, <1>11, RevalidationCore

LEMMA InstallKeeps == ASSUME Inv, InstallReady \/ RetryHandOff PROVE Inv' /\ Quiet
<1>1. /\ u.state \in {"ReadyToHandOff", "HandOffError"} /\ VerifyAgain(u.capable) /\ wanted' = u.cand
      /\ record' = record /\ payload' = payload /\ UNCHANGED <<host, world>>
  BY DEF InstallReady, RetryHandOff, DiskSame, disk
<1>2. Core(u', record, own, published, wanted') /\ Calm(u')
  BY <1>1, InvFacts, VerifyAgainKeeps
<1>3. u.cand \in Build
  BY InvFacts DEF Updaters
<1> QED
  BY <1>1, <1>2, <1>3, InvFacts, UserStep DEF Closed, Final

LEMMA RetryReadyKeeps == ASSUME Inv, RetryReady PROVE Inv' /\ Quiet
<1>1. /\ u.state \in {"ReadyForDesktop", "ReadyToHandOff"} /\ VerifyAgain(u.install)
      /\ record' = record /\ payload' = payload /\ UNCHANGED <<host, world>> /\ wanted' = wanted
  BY DEF RetryReady, DiskSame, disk, HostSame
<1>2. u.install \in BOOLEAN /\ ~u.install
  BY <1>1, InvFacts DEF Core, Wish, Updaters
<1>3. Core(u', record, own, published, wanted) /\ Calm(u')
  BY <1>1, <1>2, VerifyAgainKeeps
<1> QED
  BY <1>1, <1>3, InvFacts, UserStep DEF Closed, Final

LEMMA CancelKeeps == ASSUME Inv, Cancel PROVE Inv' /\ Quiet /\ u'.state = "Cancelled"
<1> DEFINE x == StopRequest(u)
           y == [x EXCEPT !.file = None, !.reload = FALSE]
           z == Go(y, "Cancel")
<1>1. /\ u.state \in DOMAIN Edge("Cancel") /\ u' = SetError(z, "none", FALSE)
      /\ UNCHANGED <<host, world>> /\ wanted' = wanted
  BY DEF Cancel, HostSame
<1>2. /\ record' \in Build /\ Out(record', published) /\ payload' \subseteq Builds
  <2>1. CASE Clear(TRUE)
    BY <2>1, InvFacts, ClearFacts DEF Bounds
  <2>2. CASE DiskSame
    BY <2>2, InvFacts DEF DiskSame, disk, Bounds
  <2> QED
    BY <2>1, <2>2 DEF Cancel
<1>3. x \in Updaters /\ Keeps(u, x) /\ x.state = u.state /\ x.reply = "none"
  BY InvFacts, SmallFacts
<1> HIDE DEF x
<1>4. /\ y \in Updaters /\ y.rel = x.rel /\ y.cand = x.cand /\ y.expected = x.expected
      /\ y.saved = x.saved /\ y.file = None /\ y.state = x.state /\ y.reply = "none"
  BY <1>3 DEF Updaters, Build
<1> HIDE DEF y
<1>5. y.state \in States /\ Reduce(y.state, "Cancel") = "Cancelled" /\ "Cancelled" \in States
  BY <1>1, <1>3, <1>4, InvFacts, ReduceRetry DEF States
<1>6. z \in Updaters /\ Keeps(y, z) /\ z.state = "Cancelled" /\ z.reply = "none"
  BY <1>4, <1>5, GoFacts
<1> HIDE DEF z
<1>7. u' \in Updaters /\ Keeps(z, u') /\ u'.state = "Cancelled" /\ u'.reply = "none" /\ ~u'.install
  BY <1>1, <1>6 DEF SetError, Updaters, Keeps
<1>8. Bounds(u', record', published)
  BY <1>2, <1>3, <1>4, <1>6, <1>7, InvFacts DEF Bounds, Keeps
<1>9. Core(u', record', own, published, wanted) /\ Calm(u')
  BY <1>2, <1>7, <1>8, QuietCore, CalmNone DEF Final, Awaiting, Offered, Ready
<1>10. u.state \notin Closed
  BY <1>1, InvFacts, ReduceRetry DEF Closed, Final
<1> QED
  BY <1>1, <1>2, <1>7, <1>9, <1>10, InvFacts, UserStep DEF Closed, Final

LEMMA RetryUpdateKeeps == ASSUME Inv, RetryUpdate PROVE Inv' /\ Quiet
<1> DEFINE v == Go(u, "Retry")
           y == Go(v, "BeginDownload")
           z == Go(y, "DownloadComplete")
<1>1. /\ u.state \in {"DownloadError", "VerificationError"} /\ record' = record /\ payload' = payload
      /\ UNCHANGED <<host, world>> /\ wanted' = wanted
      /\ u' = IF u.origin = "verification" /\ u.file # None THEN BeginRevalidation(z, FALSE) ELSE v
  BY DEF RetryUpdate, HostSame, DiskSame, disk
<1>2. /\ Reduce(u.state, "Retry") = "Available" /\ "Available" \in States
      /\ Reduce("Available", "BeginDownload") = "Downloading" /\ "Downloading" \in States
      /\ Reduce("Downloading", "DownloadComplete") = "Verifying" /\ "Verifying" \in States
  BY <1>1, InvFacts, ReduceRetry, ReduceFacts DEF States
<1>3. /\ v \in Updaters /\ Keeps(u, v) /\ v.state = "Available" /\ v.reply = u.reply
      /\ (v.install => u.install)
  BY <1>2, InvFacts, GoFacts
<1> HIDE DEF v
<1>4. ~u.install /\ u.reply = "none"
  BY <1>1, InvFacts, StageIdle DEF Core, Wish
<1>5. CASE u.origin = "verification" /\ u.file # None
  <2>1. y \in Updaters /\ Keeps(v, y) /\ y.state = "Downloading" /\ (y.install => v.install)
    BY <1>2, <1>3, GoFacts
  <2> HIDE DEF y
  <2>2. z \in Updaters /\ Keeps(y, z) /\ z.state = "Verifying" /\ (z.install => y.install)
    BY <1>2, <2>1, GoFacts
  <2> HIDE DEF z
  <2>3. Keeps(u, z) /\ ~z.install
    BY <1>3, <1>4, <2>1, <2>2 DEF Keeps
  <2>4. Bounds(z, record, published) /\ Wish(z, wanted) /\ OneUpdate(z, record, own)
    BY <2>2, <2>3, InvFacts DEF Bounds, Keeps, Wish, OneUpdate, Ready
  <2>5. Offer(z, own)
    BY <1>1, <2>2, <2>3, InvFacts DEF Core, Offer, Offered, Keeps
  <2>6. Again(z, record, own)
    BY <1>1, <2>2, <2>3, InvFacts DEF Core, Again, Four, Keeps
  <2>7. Core(z, record, own, published, wanted)
    BY <2>2, <2>4, <2>5, <2>6, InvFacts DEF Core
  <2> QED
    BY <1>1, <1>5, <2>2, <2>7, InvFacts, RevalidationCore, UserStep DEF Closed, Final
<1>6. CASE ~(u.origin = "verification" /\ u.file # None)
  <2>1. u' = v /\ u'.reply = "none"
    BY <1>1, <1>3, <1>4, <1>6
  <2>2. ~u.persisted
    BY <1>1, <1>6, InvFacts DEF Core, Again
  <2>3. Bounds(v, record, published) /\ Wish(v, wanted) /\ OneUpdate(v, record, own)
    BY <1>3, <1>4, InvFacts DEF Bounds, Keeps, Wish, OneUpdate, Ready
  <2>4. Offer(v, own) /\ Again(v, record, own)
    BY <1>1, <1>3, <2>2, InvFacts DEF Core, Offer, Offered, Keeps, Again
  <2>5. Core(v, record, own, published, wanted) /\ Calm(v)
    BY <1>3, <2>1, <2>3, <2>4, InvFacts, CalmNone DEF Final, Awaiting, Core
  <2> QED
    BY <1>1, <2>1, <2>5, InvFacts, UserStep DEF Closed, Final
<1> QED
  BY <1>5, <1>6

LEMMA RetryRestoreKeeps == ASSUME Inv, RetryRestore PROVE Inv' /\ Quiet
<1> DEFINE y == Go(u, "Retry")
           v == ClearError(y)
<1>1. u.state = "RestoreError" /\ UNCHANGED <<host, world>> /\ wanted' = wanted
  BY DEF RetryRestore, HostSame
<1>2. Reduce(u.state, "Retry") = "RestoringPending" /\ "RestoringPending" \in States
  BY <1>1, InvFacts, ReduceRetry DEF States
<1>3. y \in Updaters /\ Keeps(u, y) /\ y.state = "RestoringPending" /\ y.reply = u.reply
      /\ (y.install => u.install)
  BY <1>2, InvFacts, GoFacts
<1> HIDE DEF y
<1>4. v \in Updaters /\ Keeps(y, v) /\ v.state = "RestoringPending" /\ v.reply = y.reply
      /\ v.install = y.install
  BY <1>3, SmallFacts
<1> HIDE DEF v
<1>5. ~u.install /\ ~u.persisted /\ u.reply = "none"
  BY <1>1, InvFacts, StageIdle DEF Core, Wish, Again
<1>6. Keeps(u, v) /\ ~v.install /\ ~v.persisted /\ v.reply = "none" /\ Bounds(v, record, published)
  BY <1>3, <1>4, <1>5, InvFacts DEF Keeps, Bounds
<1>7. SUFFICES Core(u', record', own, published, wanted) /\ Calm(u') /\ payload' \subseteq Builds
  BY <1>1, InvFacts, UserStep DEF Closed, Final
<1>8. CASE ~u.reload /\ u' = BeginRevalidation(v, TRUE) /\ DiskSame
  <2>1. Four(v, record, own) /\ record' = record /\ payload' = payload
    BY <1>1, <1>6, <1>8, InvFacts DEF Core, Again, Four, Keeps, DiskSame, disk
  <2> QED
    BY <1>4, <1>6, <1>8, <2>1, InvFacts, RestorationCore
<1>9. CASE u' = Go([v EXCEPT !.reload = FALSE, !.cand = None], "CandidateCurrent") /\ Clear(FALSE)
  <2> DEFINE x == [v EXCEPT !.reload = FALSE, !.cand = None]
  <2>1. record' \in {None, record} /\ record' \in Build /\ payload' \subseteq Builds
    BY <1>9, InvFacts, ClearFacts
  <2>2. /\ x \in Updaters /\ x.state = "RestoringPending" /\ x.cand = None /\ x.rel = v.rel
        /\ x.expected = v.expected /\ x.saved = v.saved /\ x.file = v.file /\ ~x.install
        /\ ~x.persisted /\ x.reply = "none"
    BY <1>4, <1>6 DEF Updaters, Build
  <2>3. u' = Go(x, "CandidateCurrent")
    BY <1>9
  <2> HIDE DEF x
  <2>4. x.state \in States /\ Reduce(x.state, "CandidateCurrent") = "NoUpdate" /\ "NoUpdate" \in States
    BY <2>2, ReduceFacts DEF States
  <2>5. /\ u' \in Updaters /\ u'.state = "NoUpdate" /\ Keeps(x, u') /\ u'.reply = "none" /\ ~u'.install
    BY <2>2, <2>3, <2>4, GoFacts
  <2>6. Bounds(u', record', published) /\ ~u'.persisted
    BY <1>6, <2>1, <2>2, <2>5 DEF Bounds, Keeps
  <2> QED
    BY <2>1, <2>5, <2>6, QuietCore, CalmNone DEF Final, Awaiting, Offered, Ready
<1>10. CASE Loaded /\ record # own /\ u' = Restored(v) /\ DiskSame
  <2>1. record # None /\ record' = record /\ payload' = payload
    BY <1>10 DEF Loaded, DiskSame, disk
  <2> QED
    BY <1>4, <1>6, <1>10, <2>1, InvFacts, RestoredCore
<1>11. CASE u' = InvalidateAndCheck(v) /\ LoadDrops
  <2>1. record' \in {None, record} /\ record' \in Build /\ payload' \subseteq Builds
    BY <1>11, InvFacts, LoadDropsFacts
  <2> QED
    BY <1>4, <1>11, <2>1, InvFacts, InvalidateCore DEF Bounds
<1>12. ASSUME u.reload, DiskSame,
              NEW w \in {v, [v EXCEPT !.saved = record, !.expected = record, !.cand = record]},
              u' = SetError(Go(w, "RestoreFailed"), "restore", FALSE)
       PROVE  Core(u', record', own, published, wanted) /\ Calm(u') /\ payload' \subseteq Builds
  <2> DEFINE x == Go(w, "RestoreFailed")
  <2>1. /\ w \in Updaters /\ w.state = "RestoringPending" /\ w.rel = v.rel /\ w.file = v.file
        /\ w.reload = v.reload /\ ~w.persisted /\ w.reply = "none"
        /\ w.saved \in {v.saved, record} /\ w.expected \in {v.expected, record}
        /\ w.cand \in {v.cand, record}
    BY <1>4, <1>6, InvFacts DEF Updaters
  <2>2. w.state \in States /\ Reduce(w.state, "RestoreFailed") = "RestoreError" /\ "RestoreError" \in States
    BY <2>1, ReduceFacts DEF States
  <2>3. x \in Updaters /\ x.state = "RestoreError" /\ Keeps(w, x) /\ x.reply = "none"
    BY <2>1, <2>2, GoFacts
  <2>4. u' = SetError(x, "restore", FALSE)
    BY <1>12
  <2> HIDE DEF x
  <2>5. /\ u' \in Updaters /\ u'.state = "RestoreError" /\ Keeps(x, u') /\ ~u'.install
        /\ u'.reply = "none"
    BY <2>3, <2>4 DEF SetError, Updaters, Keeps
  <2>6. record' = record /\ payload' = payload
    BY <1>12 DEF DiskSame, disk
  <2>7. v.reload
    BY <1>6, <1>12 DEF Keeps
  <2>8. Bounds(u', record', published) /\ ~u'.persisted /\ u'.reload
    BY <1>6, <2>1, <2>3, <2>5, <2>6, <2>7 DEF Bounds, Keeps
  <2> QED
    BY <2>5, <2>6, <2>8, InvFacts, QuietCore, CalmNone DEF Final, Awaiting, Offered, Ready
<1> QED
  BY <1>8, <1>9, <1>10, <1>11, <1>12 DEF RetryRestore, v, y

-----------------------------------------------------------------------------
(* The replies of the network *)

LEMMA ReplyFailsKeeps == ASSUME Inv, ReplyFails PROVE Inv' /\ Quiet
<1>1. u.reply # "none" /\ Fail(u, FALSE) /\ UNCHANGED <<host, world>> /\ wanted' = wanted
  BY DEF ReplyFails, HostSame
<1>2. u.state \in {"Downloading", "Verifying", "RestoringPending", "Checking"}
  BY <1>1, InvFacts DEF Stage, Updaters, Stages
<1>3. Core(u', record', own, published, wanted) /\ Calm(u') /\ payload' \subseteq Builds
  BY <1>1, <1>2, InvFacts, FailKeeps
<1> QED
  BY <1>1, <1>2, <1>3, InvFacts, UserStep DEF Closed, Final

LEMMA CheckingFacts ==
    ASSUME Inv, u.reply \in CheckStages
    PROVE  u.state = "Checking" /\ ~u.install /\ ~u.persisted
BY InvFacts DEF Stage, Core, Wish, Again

LEMMA ReleaseKeeps == ASSUME Inv, ReleaseArrives PROVE Inv' /\ Quiet
<1> DEFINE x == [u EXCEPT !.rel = published]
<1>1. /\ u.reply = "release" /\ u' = Issue(x, "manifest") /\ record' = record /\ payload' = payload
      /\ UNCHANGED <<host, world>> /\ wanted' = wanted
  BY DEF ReleaseArrives, DiskSame, disk, HostSame
<1>2. u.state = "Checking" /\ ~u.install /\ ~u.persisted
  BY <1>1, CheckingFacts DEF CheckStages
<1>3. /\ x \in Updaters /\ x.rel = published /\ x.state = "Checking" /\ x.cand = u.cand
      /\ x.expected = u.expected /\ x.saved = u.saved /\ x.file = u.file /\ ~x.install
      /\ ~x.persisted
  BY <1>2, InvFacts DEF Updaters, Build
<1> HIDE DEF x
<1>4. "manifest" \in Stages
  BY DEF Stages, CheckStages
<1>5. /\ u' \in Updaters /\ Keeps(x, u') /\ u'.state = "Checking" /\ u'.reply = "manifest"
      /\ ~u'.install
  BY <1>1, <1>3, <1>4, SmallFacts
<1>6. published \in Nat /\ published # None
  BY InvFacts, BuildsAreNumbers, NoneAssumption
<1>7. Bounds(u', record, published) /\ ~u'.persisted /\ u'.rel # None
  BY <1>3, <1>5, <1>6, InvFacts DEF Bounds, Keeps
<1>8. Core(u', record, own, published, wanted)
  BY <1>5, <1>7, InvFacts, QuietCore DEF Offered, Ready
<1>9. Calm(u')
  BY <1>5, <1>7 DEF Calm, Final, Stage, CheckStages, AgainStages
<1> QED
  BY <1>1, <1>2, <1>8, <1>9, InvFacts, UserStep DEF Closed, Final

LEMMA ManifestKeeps == ASSUME Inv, ManifestArrives PROVE Inv' /\ Quiet
<1> DEFINE x == [u EXCEPT !.cand = u.rel]
<1>1. /\ u.reply = "manifest" /\ u' = Issue(x, "tag") /\ record' = record /\ payload' = payload
      /\ UNCHANGED <<host, world>> /\ wanted' = wanted
  BY DEF ManifestArrives, DiskSame, disk, HostSame
<1>2. u.state = "Checking" /\ ~u.install /\ ~u.persisted /\ u.rel # None
  BY <1>1, InvFacts, CheckingFacts DEF CheckStages, Stage
<1>3. /\ x \in Updaters /\ x.rel = u.rel /\ x.state = "Checking" /\ x.cand = u.rel
      /\ x.expected = u.expected /\ x.saved = u.saved /\ x.file = u.file /\ ~x.install
      /\ ~x.persisted
  BY <1>2, InvFacts DEF Updaters
<1> HIDE DEF x
<1>4. "tag" \in Stages
  BY DEF Stages, CheckStages
<1>5. /\ u' \in Updaters /\ Keeps(x, u') /\ u'.state = "Checking" /\ u'.reply = "tag"
      /\ ~u'.install
  BY <1>1, <1>3, <1>4, SmallFacts
<1>6. Bounds(u', record, published) /\ ~u'.persisted /\ u'.cand # None
  BY <1>2, <1>3, <1>5, InvFacts DEF Bounds, Keeps
<1>7. Core(u', record, own, published, wanted)
  BY <1>5, <1>6, InvFacts, QuietCore DEF Offered, Ready
<1>8. Calm(u')
  BY <1>5, <1>6 DEF Calm, Final, Stage, CheckStages, AgainStages
<1> QED
  BY <1>1, <1>2, <1>7, <1>8, InvFacts, UserStep DEF Closed, Final

\* The tag names the newest build, which no earlier expectation exceeds
LEMMA TagKeeps == ASSUME Inv, TagArrives PROVE Inv' /\ Quiet
<1>1. /\ u.reply = "tag" /\ record' = record /\ payload' = payload
      /\ UNCHANGED <<host, world>> /\ wanted' = wanted /\ DiskSame
      /\ u' = IF published = u.cand THEN Issue(u, "compare") ELSE Failed(u, FALSE)
  BY DEF TagArrives, DiskSame, disk, HostSame
<1>2. u.state = "Checking" /\ ~u.install /\ ~u.persisted /\ u.cand # None
  BY <1>1, InvFacts, CheckingFacts DEF CheckStages, Stage
<1>3. CASE published = u.cand
  <2>1. "compare" \in Stages
    BY DEF Stages, CheckStages
  <2>2. /\ u' \in Updaters /\ Keeps(u, u') /\ u'.state = "Checking" /\ u'.reply = "compare"
        /\ ~u'.install
    BY <1>1, <1>2, <1>3, <2>1, InvFacts, SmallFacts
  <2>3. Bounds(u', record, published) /\ ~u'.persisted /\ u'.cand # None
    BY <1>2, <2>2, InvFacts DEF Bounds, Keeps
  <2>4. Core(u', record, own, published, wanted)
    BY <2>2, <2>3, InvFacts, QuietCore DEF Offered, Ready
  <2>5. u'.expected = None \/ u'.expected <= u'.cand
    BY <1>3, <2>2, <2>3 DEF Bounds, Keeps
  <2>6. Calm(u')
    BY <2>2, <2>3, <2>5 DEF Calm, Final, Stage, CheckStages, AgainStages
  <2> QED
    BY <1>1, <1>2, <2>4, <2>6, InvFacts, UserStep DEF Closed, Final
<1>4. CASE published # u.cand
  <2>1. Fail(u, FALSE)
    BY <1>1, <1>4 DEF Fail, Invalidates
  <2>2. Core(u', record', own, published, wanted) /\ Calm(u')
    BY <1>2, <2>1, InvFacts, FailKeeps
  <2> QED
    BY <1>1, <1>2, <2>2, InvFacts, UserStep DEF Closed, Final
<1> QED
  BY <1>3, <1>4

LEMMA CompareKeeps ==
    ASSUME Inv, CompareArrives
    PROVE  Inv' /\ Quiet /\ u'.state \in {"Available", "NoUpdate"}
<1> DEFINE v == StopRequest(u)
           x == [v EXCEPT !.cand = None]
<1>1. /\ u.reply = "compare" /\ record' = record /\ payload' = payload
      /\ UNCHANGED <<host, world>> /\ wanted' = wanted
      /\ u' = IF u.cand > own THEN Go(v, "CandidateAvailable") ELSE Go(x, "CandidateCurrent")
  BY DEF CompareArrives, DiskSame, disk, HostSame
<1>2. /\ u.state = "Checking" /\ ~u.install /\ ~u.persisted /\ u.cand # None
      /\ (u.expected = None \/ u.expected <= u.cand)
  BY <1>1, InvFacts, CheckingFacts DEF CheckStages, Stage
<1>3. /\ v \in Updaters /\ Keeps(u, v) /\ v.state = "Checking" /\ v.reply = "none" /\ ~v.install
  BY <1>2, InvFacts, SmallFacts
<1> HIDE DEF v
<1>4. /\ Reduce("Checking", "CandidateAvailable") = "Available" /\ "Available" \in States
      /\ Reduce("Checking", "CandidateCurrent") = "NoUpdate" /\ "NoUpdate" \in States
      /\ "Checking" \in States
  BY <1>2, InvFacts, ReduceFacts DEF States
<1>5. CASE u.cand > own
  <2>1. /\ u' \in Updaters /\ Keeps(v, u') /\ u'.state = "Available" /\ u'.reply = "none"
        /\ ~u'.install
    BY <1>1, <1>3, <1>4, <1>5, GoFacts
  <2>2. Keeps(u, u')
    BY <1>3, <2>1 DEF Keeps
  <2>3. Bounds(u', record, published) /\ Wish(u', wanted) /\ OneUpdate(u', record, own)
    BY <2>1, <2>2, InvFacts DEF Bounds, Keeps, Wish, OneUpdate, Ready
  <2>4. Offer(u', own) /\ Again(u', record, own)
    BY <1>2, <1>5, <2>1, <2>2 DEF Offer, Again, Keeps
  <2>5. Core(u', record, own, published, wanted) /\ Calm(u')
    BY <2>1, <2>3, <2>4, InvFacts, CalmNone DEF Final, Awaiting, Core
  <2> QED
    BY <1>1, <1>2, <2>1, <2>5, InvFacts, UserStep DEF Closed, Final
<1>6. CASE ~(u.cand > own)
  <2>1. /\ x \in Updaters /\ x.state = "Checking" /\ x.reply = "none" /\ ~x.install
        /\ x.cand = None /\ x.rel = u.rel /\ x.expected = u.expected /\ x.saved = u.saved
        /\ x.file = u.file /\ ~x.persisted
    BY <1>2, <1>3 DEF Updaters, Build, Keeps
  <2> HIDE DEF x
  <2>2. /\ u' \in Updaters /\ Keeps(x, u') /\ u'.state = "NoUpdate" /\ u'.reply = "none"
        /\ ~u'.install
    BY <1>1, <1>4, <1>6, <2>1, GoFacts
  <2>3. Bounds(u', record, published) /\ ~u'.persisted
    BY <2>1, <2>2, InvFacts DEF Bounds, Keeps
  <2>4. Core(u', record, own, published, wanted) /\ Calm(u')
    BY <2>2, <2>3, InvFacts, QuietCore, CalmNone DEF Final, Awaiting, Offered, Ready
  <2> QED
    BY <1>1, <1>2, <2>2, <2>4, InvFacts, UserStep DEF Closed, Final
<1> QED
  BY <1>5, <1>6

LEMMA AssetKeeps ==
    ASSUME Inv, AssetArrives
    PROVE  Inv' /\ Quiet /\ (u'.state \in Busy => u'.reply = "release again")
<1> DEFINE v == StopRequest(u)
           w == Go(v, "DownloadComplete")
           x == [w EXCEPT !.file = u.cand, !.expected = u.cand]
<1>1. u.reply = "asset" /\ UNCHANGED <<host, world>> /\ wanted' = wanted
  BY DEF AssetArrives, HostSame
<1>2. u.state = "Downloading" /\ ~u.persisted /\ u.cand # None /\ u.cand > own
  BY <1>1, InvFacts DEF Stage, Core, Again, Offer, Offered
<1>3. /\ v \in Updaters /\ Keeps(u, v) /\ v.state = "Downloading" /\ v.origin = u.origin
      /\ v.install = u.install
  BY <1>2, InvFacts, SmallFacts
<1> HIDE DEF v
<1>4. Core(v, record, own, published, wanted)
  BY <1>2, <1>3, InvFacts, SameCore
<1>5. /\ Reduce(v.state, "DownloadComplete") = "Verifying" /\ "Verifying" \in States
  BY <1>2, <1>3, InvFacts, ReduceFacts DEF States
<1>6. w \in Updaters /\ Keeps(v, w) /\ w.state = "Verifying" /\ (w.install => v.install)
  BY <1>3, <1>5, GoFacts
<1> HIDE DEF w
<1>7. Keeps(u, w)
  BY <1>3, <1>6 DEF Keeps
<1>8. Core(w, record, own, published, wanted)
  <2>1. Bounds(w, record, published) /\ OneUpdate(w, record, own)
    BY <1>6, <1>7, InvFacts DEF Bounds, Keeps, OneUpdate, Ready
  <2>2. Wish(w, wanted)
    BY <1>3, <1>6, <1>7, InvFacts DEF Core, Wish, Keeps
  <2>3. Offer(w, own)
    BY <1>2, <1>6, <1>7, InvFacts DEF Core, Offer, Offered, Keeps
  <2>4. Again(w, record, own)
    BY <1>2, <1>6, <1>7 DEF Again, Keeps
  <2> QED
    BY <1>6, <2>1, <2>2, <2>3, <2>4, InvFacts DEF Core
<1>9. CASE u' = Failed(v, FALSE) /\ DiskSame
  <2>1. Fail(v, FALSE)
    BY <1>9 DEF Fail, Invalidates
  <2>2. /\ Core(u', record', own, published, wanted) /\ Calm(u') /\ payload' \subseteq Builds
        /\ u'.state \notin Busy
    BY <1>3, <1>4, <2>1, InvFacts, FailKeeps DEF Invalidates, Failures, Busy
  <2> QED
    BY <1>1, <1>2, <2>2, InvFacts, UserStep DEF Closed, Final
<1>10. CASE u' = Failed(w, FALSE) /\ DiskSame
  <2>1. Fail(w, FALSE)
    BY <1>10 DEF Fail, Invalidates
  <2>2. /\ Core(u', record', own, published, wanted) /\ Calm(u') /\ payload' \subseteq Builds
        /\ u'.state \notin Busy
    BY <1>6, <1>8, <2>1, InvFacts, FailKeeps DEF Invalidates, Failures, Busy
  <2> QED
    BY <1>1, <1>2, <2>2, InvFacts, UserStep DEF Closed, Final
<1>11. CASE /\ u' = BeginRevalidation(x, FALSE)
            /\ payload' = payload \cup {u.cand} /\ record' = record
  <2>1. u.cand \in Builds /\ u.cand \in Nat
    BY <1>2, InvFacts, BuildsAreNumbers DEF Updaters, Build
  <2>2. /\ x \in Updaters /\ x.state = "Verifying" /\ x.cand = w.cand /\ x.rel = w.rel
        /\ x.saved = w.saved /\ x.file = u.cand /\ x.expected = u.cand /\ x.install = w.install
        /\ x.persisted = w.persisted
    BY <1>6, <2>1 DEF Updaters, Build
  <2> HIDE DEF x
  <2>3. Bounds(x, record, published) /\ OneUpdate(x, record, own) /\ Wish(x, wanted)
    BY <1>6, <1>7, <1>8, <2>2, InvFacts DEF Core, Bounds, Keeps, OneUpdate, Ready, Wish
  <2>4. Offer(x, own) /\ Again(x, record, own)
    BY <1>2, <1>7, <2>1, <2>2 DEF Offer, Again, Keeps
  <2>5. Core(x, record, own, published, wanted)
    BY <2>2, <2>3, <2>4, InvFacts DEF Core
  <2>6. Core(u', record', own, published, wanted) /\ Calm(u') /\ u'.reply = "release again"
    BY <1>11, <2>2, <2>5, RevalidationCore, RevalidationFacts
  <2>7. payload' \subseteq Builds
    BY <1>11, <2>1, InvFacts
  <2> QED
    BY <1>1, <1>2, <2>6, <2>7, InvFacts, UserStep DEF Closed, Final
<1> QED
  BY <1>9, <1>10, <1>11 DEF AssetArrives, v, w, x

\* The next request of a verification
LEMMA NextRequest ==
    ASSUME Inv, u.reply \in AgainStages, NEW r \in {"manifest again", "tag again"},
           u' = Issue(u, r), DiskSame
    PROVE  Core(u', record', own, published, wanted) /\ Calm(u') /\ payload' \subseteq Builds
<1>1. record' = record /\ payload' = payload
  BY DEF DiskSame, disk
<1>2. r \in Stages /\ r \in AgainStages /\ r \notin CheckStages /\ r # "asset"
  BY DEF Stages, AgainStages, CheckStages
<1>3. /\ u' \in Updaters /\ Keeps(u, u') /\ u'.state = u.state /\ u'.reply = r
      /\ u'.install = u.install /\ u'.origin = u.origin
  BY ZenonT(60), <1>2, InvFacts, SmallFacts
<1>4. Core(u', record, own, published, wanted)
  BY <1>3, InvFacts, SameCore
<1>5. Calm(u')
  BY <1>2, <1>3, InvFacts DEF Calm, Final, Stage, Keeps, AgainStages, CheckStages
<1> QED
  BY <1>1, <1>4, <1>5, InvFacts

LEMMA ReleaseAgainKeeps == ASSUME Inv, ReleaseAgainArrives \/ ManifestAgainArrives PROVE Inv' /\ Quiet
<1>1. /\ u.reply \in AgainStages /\ UNCHANGED <<host, world>> /\ wanted' = wanted
  BY DEF ReleaseAgainArrives, ManifestAgainArrives, HostSame, AgainStages
<1>2. u.state \in {"Verifying", "RestoringPending"}
  BY <1>1, InvFacts DEF Stage
<1>3. CASE \E r \in {"manifest again", "tag again"} : u' = Issue(u, r) /\ DiskSame
  <2>1. Core(u', record', own, published, wanted) /\ Calm(u') /\ payload' \subseteq Builds
    BY <1>1, <1>3, NextRequest
  <2> QED
    BY <1>1, <1>2, <2>1, InvFacts, UserStep DEF Closed, Final
<1>4. CASE Fail(u, TRUE)
  <2>1. Core(u', record', own, published, wanted) /\ Calm(u') /\ payload' \subseteq Builds
    BY <1>2, <1>4, InvFacts, FailKeeps
  <2> QED
    BY <1>1, <1>2, <2>1, InvFacts, UserStep DEF Closed, Final
<1> QED
  BY <1>3, <1>4 DEF ReleaseAgainArrives, ManifestAgainArrives

-----------------------------------------------------------------------------
(* The end of a verification, and the request to the installer *)

\* The host is asked, if at all, for the build the user wants, with its file verified, and when
\* the transaction before is known to have failed
Asks ==
    \/ txn' = txn
    \/ /\ txn'.phase = "asked" /\ txn.phase \in {"none", "failed"}
       /\ txn'.build = wanted /\ wanted = u.cand /\ wanted \in payload

\* What the user sees of it: nothing, an installer that cannot start, or one that does
HandsOff ==
    \/ UNCHANGED txn /\ u'.state \notin Final
    \/ UNCHANGED txn /\ u.install /\ u'.state = "HandOffError"
    \/ txn' # txn /\ txn'.phase = "asked" /\ u.install /\ u'.state = "HandingOff"

\* What is busy then is the installer, or a check from its beginning
Settles == u'.state \in Busy => u'.state = "HandingOff" \/ u'.reply = "release"

\* An update that is ready
LEMMA ReadyCore ==
    ASSUME NEW v \in Updaters, NEW rec \in Build, NEW o \in Nat, NEW p, NEW w,
           v.state \in Ready, Bounds(v, rec, p), OneUpdate(v, rec, o), ~v.install, ~v.persisted,
           v.reply = "none", v.file \in Nat
    PROVE  Core(v, rec, o, p, w) /\ Stage(v)
<1>1. Offer(v, o)
  BY DEF Offer, OneUpdate
<1>2. Again(v, rec, o) /\ Wish(v, w)
  BY DEF Again, Wish, Ready
<1> QED
  BY <1>1, <1>2, StageNone DEF Core, Ready, Awaiting

\* What Passed(y) needs of the updater y it is called with
Verified(y) ==
    /\ y \in Updaters /\ y.state \in {"Verifying", "RestoringPending"} /\ y.reply = "none"
    /\ ~y.persisted /\ y.file \in Nat /\ y.file # None /\ y.file > own /\ y.file <= published
    /\ y.cand = y.file /\ y.expected = y.file /\ y.saved = y.file /\ record' = y.file
    /\ Out(y.rel, published) /\ (y.install => u.install /\ wanted = y.cand)
    /\ y.cand = u.cand /\ y.file \in payload /\ y.file \in Builds

\* What is kept from there to the installer
Checked(y, z) ==
    /\ z \in Updaters /\ Keeps(y, z) /\ ~z.install /\ z.reply = "none"

LEMMA CheckedCore ==
    ASSUME Inv, NEW y, Verified(y), NEW z, Checked(y, z), z.state \in Ready
    PROVE  Core(z, record', own, published, wanted) /\ Stage(z)
<1>1. own \in Nat
  BY InvFacts, BuildsAreNumbers
<1>2. OneUpdate(z, record', own) /\ Bounds(z, record', published) /\ z.file \in Nat /\ ~z.persisted
  BY DEF Verified, Checked, Keeps, OneUpdate, Bounds
<1>3. record' \in Build
  BY DEF Verified, Build
<1> QED
  BY <1>1, <1>2, <1>3, ReadyCore DEF Checked

\* With the host as it was, or asked anew
LEMMA ReadyStep ==
    ASSUME Inv, u.state \in {"Verifying", "RestoringPending"}, NEW y, Verified(y), Checked(y, u'),
           u'.state \in Ready, payload' = payload, UNCHANGED <<others, deployed, world, wanted>>,
           \/ /\ UNCHANGED <<inst, early, txn>>
              /\ u'.state \notin Final \/ (y.install /\ u'.state = "HandOffError")
           \/ /\ Accepts /\ y.install /\ u'.state = "HandingOff"
              /\ inst' = "asked" /\ early' = "none" /\ txn' = [build |-> y.file, phase |-> "asked"]
    PROVE  Inv' /\ Asks /\ HandsOff /\ Settles
<1>0. Settles
  BY DEF Settles, Busy, Ready
<1>1. /\ own' = own /\ published' = published /\ wanted' = wanted /\ deployed' = deployed
      /\ others' = others
  BY DEF world
<1>2. Core(u', record', own, published, wanted) /\ Stage(u')
  BY CheckedCore
<1>3. u' \in Updaters /\ record' \in Build /\ y.file \in Build /\ y.file <= published
  BY DEF Verified, Checked, Build
<1>4. CASE /\ UNCHANGED <<inst, early, txn>>
           /\ u'.state \notin Final \/ (y.install /\ u'.state = "HandOffError")
  <2>1. TypeOK'
    BY <1>1, <1>3, <1>4 DEF Inv, TypeOK
  <2>2. WorldInv' /\ HostInv'
    BY <1>1, <1>4 DEF Inv, WorldInv, HostInv, Closed, Final
  <2>3. Asks /\ HandsOff
    BY <1>4 DEF Asks, HandsOff, Verified
  <2> QED
    BY <1>0, <1>1, <1>2, <2>1, <2>2, <2>3 DEF Inv, Stage
<1>5. CASE /\ Accepts /\ y.install /\ u'.state = "HandingOff"
           /\ inst' = "asked" /\ early' = "none" /\ txn' = [build |-> y.file, phase |-> "asked"]
  <2>1. txn' \in Transactions /\ txn'.phase = "asked" /\ txn'.build = y.file
    BY <1>3, <1>5 DEF Transactions
  <2>2. TypeOK'
    BY <1>1, <1>3, <1>5, <2>1 DEF Inv, TypeOK
  <2>3. WorldInv'
    BY <1>1, <1>3, <2>1 DEF Inv, WorldInv
  <2>4. HostInv'
    BY <1>5, <2>1 DEF HostInv, Verified, Closed, Final
  <2>6. txn.phase \in {"none", "failed"}
    BY DEF Inv, HostInv, Closed, Final
  <2>7. Asks /\ HandsOff
    BY <1>5, <2>1, <2>6 DEF Asks, HandsOff, Verified
  <2> QED
    BY <1>0, <1>1, <1>2, <2>2, <2>3, <2>4, <2>7 DEF Inv, Stage
<1> QED
  BY <1>4, <1>5

LEMMA PassedKeeps ==
    ASSUME Inv, u.state \in {"Verifying", "RestoringPending"}, NEW y, Verified(y), Passed(y),
           payload' = payload
    PROVE  Inv' /\ Asks /\ HandsOff /\ Settles
<1> DEFINE x == [y EXCEPT !.install = FALSE]
           e == IF y.capable THEN "VerificationPassedDesktop" ELSE "VerificationPassedNonDesktop"
           w == Go(x, e)
           h == Go(w, "BeginHandOff")
           k == ClearError(h)
           f == Go(k, "HandOffFailed")
<1>1. /\ IF y.install /\ w.state = "ReadyToHandOff" THEN OpenInstaller(w)
         ELSE u' = w /\ UNCHANGED <<inst, early, txn>>
      /\ UNCHANGED <<others, deployed, world, wanted>>
  BY DEF Passed
<1>2. /\ x \in Updaters /\ Keeps(y, x) /\ x.state = y.state /\ ~x.install /\ x.reply = "none"
  BY DEF Verified, Updaters, Keeps
<1> HIDE DEF x
<1>3. x.state \in States
  BY <1>2 DEF Updaters
<1>4. Reduce(x.state, e) \in {"ReadyToHandOff", "ReadyForDesktop"}
  BY <1>2, <1>3, ReduceFacts DEF Verified
<1>5. {"ReadyToHandOff", "ReadyForDesktop", "HandingOff", "HandOffError"} \subseteq States
  BY DEF States
<1> HIDE DEF e
<1>6. /\ w \in Updaters /\ Keeps(x, w) /\ w.state \in {"ReadyToHandOff", "ReadyForDesktop"}
      /\ ~w.install /\ w.reply = "none"
  BY <1>2, <1>4, <1>5, GoFacts
<1> HIDE DEF w
<1>7. Checked(y, w) /\ w.file = y.file
  BY <1>2, <1>6 DEF Checked, Keeps
<1>8. CASE u' = w /\ UNCHANGED <<inst, early, txn>>
  BY <1>1, <1>6, <1>7, <1>8, ReadyStep DEF Ready, Final
<1>10. Accepts
  BY DEF Accepts, Inv, HostInv, Closed, Final
<1>9. CASE y.install /\ w.state = "ReadyToHandOff" /\ OpenInstaller(w)
  <2>1. Reduce(w.state, "BeginHandOff") = "HandingOff" /\ "HandingOff" \in States
        /\ Reduce("HandingOff", "HandOffFailed") = "HandOffError" /\ "HandOffError" \in States
    BY <1>5, <1>9, ReduceFacts
  <2>2. h \in Updaters /\ Keeps(w, h) /\ h.state = "HandingOff" /\ ~h.install /\ h.reply = "none"
    BY <1>6, <2>1, GoFacts
  <2>3. \/ u' = SetError(f, "handoff", FALSE) /\ UNCHANGED <<inst, early, txn>>
        \/ /\ Accepts /\ u' = k
           /\ inst' = "asked" /\ early' = "none" /\ txn' = [build |-> w.file, phase |-> "asked"]
    BY <1>9, <1>10 DEF OpenInstaller
  <2> HIDE DEF h
  <2>4. k \in Updaters /\ Keeps(h, k) /\ k.state = "HandingOff" /\ ~k.install /\ k.reply = "none"
    BY <2>2, SmallFacts
  <2> HIDE DEF k
  <2>5. Checked(y, k)
    BY <1>7, <2>2, <2>4 DEF Checked, Keeps
  <2>6. CASE u' = SetError(f, "handoff", FALSE) /\ UNCHANGED <<inst, early, txn>>
    <3>1. f \in Updaters /\ Keeps(k, f) /\ f.state = "HandOffError" /\ f.reply = "none"
      BY <2>1, <2>4, GoFacts
    <3> HIDE DEF f
    <3>2. /\ u' \in Updaters /\ Keeps(f, u') /\ u'.state = "HandOffError" /\ ~u'.install
          /\ u'.reply = "none"
      BY <2>6, <3>1 DEF SetError, Updaters, Keeps
    <3>3. Checked(y, u')
      BY <2>5, <3>1, <3>2 DEF Checked, Keeps
    <3> QED
      BY <1>1, <1>9, <2>6, <3>2, <3>3, ReadyStep DEF Ready
  <2>8. CASE /\ Accepts /\ u' = k
             /\ inst' = "asked" /\ early' = "none" /\ txn' = [build |-> w.file, phase |-> "asked"]
    BY <1>1, <1>7, <1>9, <2>4, <2>5, <2>8, ReadyStep DEF Ready
  <2> QED
    BY <2>3, <2>6, <2>8
<1> QED
  BY <1>1, <1>8, <1>9

LEMMA TagAgainKeeps == ASSUME Inv, TagAgainArrives PROVE Inv' /\ Asks /\ HandsOff /\ Settles
<1> DEFINE v == StopRequest(u)
<1>1. /\ u.reply = "tag again"
      /\ \/ Matches /\ Reopen(v)
         \/ Matches /\ Save(v)
         \/ ~Matches /\ Fail(u, TRUE) /\ HostSame
  BY DEF TagAgainArrives
<1>2. u.reply \in AgainStages /\ u.state \in {"Verifying", "RestoringPending"}
  BY <1>1, InvFacts DEF Stage, AgainStages
<1>3. /\ v \in Updaters /\ Keeps(u, v) /\ v.state = u.state /\ v.origin = u.origin
      /\ v.install = u.install /\ v.reply = "none"
  BY InvFacts, SmallFacts
<1> HIDE DEF v
<1>4. Core(v, record, own, published, wanted)
  BY <1>3, InvFacts, SameCore
<1>5. own \in Nat /\ published \in Nat /\ own <= published /\ published # None /\ published \in Builds
  BY InvFacts, BuildsAreNumbers, NoneAssumption
<1>6. ASSUME UNCHANGED <<host, world>>, wanted' = wanted, payload' \subseteq Builds,
             Core(u', record', own, published, wanted), Calm(u'), Settles
      PROVE  Inv' /\ Asks /\ HandsOff /\ Settles
  <2>1. Inv'
    BY <1>2, <1>6, InvFacts, UserStep DEF Closed, Final
  <2>2. txn' = txn
    BY <1>6 DEF host
  <2>3. Asks /\ HandsOff
    BY <1>6, <2>2 DEF Asks, HandsOff, Calm
  <2> QED
    BY <1>6, <2>1, <2>3
<1>7. ASSUME NEW c, c \in BOOLEAN, NEW z \in {u, v}, Fail(z, c), HostSame
      PROVE  Inv' /\ Asks /\ HandsOff /\ Settles
  <2>1. Core(z, record, own, published, wanted) /\ z.state \in {"Verifying", "RestoringPending"}
    BY <1>2, <1>3, <1>4, <1>7, InvFacts
  <2>2. /\ Core(u', record', own, published, wanted) /\ Calm(u') /\ payload' \subseteq Builds
        /\ Settles
    BY <1>7, <2>1, InvFacts, FailKeeps DEF Settles, Failures, Busy
  <2> QED
    BY <1>6, <1>7, <2>2 DEF HostSame
\* A download: the candidate is no older than the one expected, which is the publisher's last
<1>8. CASE Matches /\ Save(v)
  <2>1. ~v.restoring /\ ~v.persisted
    BY <1>8 DEF Save
  <2>2. v.state = "Verifying"
    BY <1>2, <1>3, <1>4, <2>1 DEF Core, Again
  <2>3. CASE /\ v.file # None /\ v.file = v.expected /\ v.expected \in payload
             /\ record' = v.expected /\ payload' = payload
             /\ Passed([v EXCEPT !.saved = v.expected])
    <3> DEFINE y == [v EXCEPT !.saved = v.expected]
    <3>1. v.expected = published /\ v.expected # None
      BY <1>3, <1>5, <1>8 DEF Matches, Keeps
    <3>2. v.cand # None /\ v.cand > own /\ v.expected <= v.cand /\ v.cand <= published
      BY <1>4, <2>2, <3>1 DEF Core, Offer, Offered, Bounds
    <3>3. v.cand \in Nat
      BY <1>3, <3>2, BuildsAreNumbers DEF Updaters, Build
    <3>4. v.cand = published
      BY <1>5, <3>1, <3>2, <3>3
    <3>5. /\ y \in Updaters /\ y.state = "Verifying" /\ y.reply = "none" /\ ~y.persisted
          /\ y.file = v.file /\ y.cand = v.cand /\ y.expected = v.expected /\ y.saved = v.expected
          /\ y.rel = v.rel /\ y.install = v.install
      BY <1>3, <2>1, <2>2 DEF Updaters
    <3>6. Passed(y) /\ record' = v.expected /\ payload' = payload
      BY <2>3
    <3> HIDE DEF y
    <3>7. Out(y.rel, published) /\ (y.install => u.install /\ wanted = y.cand) /\ y.cand = u.cand
      BY <1>3, <1>4, <3>5 DEF Core, Bounds, Wish, Keeps
    <3>8. Verified(y)
      BY <1>5, <2>3, <3>1, <3>2, <3>4, <3>5, <3>6, <3>7 DEF Verified
    <3> QED
      BY <1>2, <3>6, <3>8, PassedKeeps
  <2>4. CASE Fail(v, FALSE) /\ HostSame
    BY <1>7, <2>4
  <2> QED
    BY <1>8, <2>3, <2>4 DEF Save
\* An update verified before: it is not the build that runs, and the publisher's last follows that
<1>9. CASE Matches /\ Reopen(v)
  <2>1. v.restoring \/ v.persisted
    BY <1>9 DEF Reopen
  <2>2. Four(u, record, own) /\ Four(v, record, own)
    <3>1. u.restoring => u.state = "RestoringPending"
      BY <1>2, InvFacts DEF Stage
    <3>2. u.persisted \/ u.state = "RestoringPending"
      BY <1>3, <2>1, <3>1 DEF Keeps
    <3>3. Four(u, record, own)
      BY <1>2, <3>2, InvFacts DEF Core, Again
    <3> QED
      BY <1>3, <3>3 DEF Four, Keeps
  <2>3. u.saved = published
    BY <1>9, <2>2 DEF Matches, Four
  <2>4. CASE Reopens /\ DiskSame /\ Passed([v EXCEPT !.file = v.saved, !.persisted = FALSE])
    <3> DEFINE y == [v EXCEPT !.file = v.saved, !.persisted = FALSE]
    <3>1. /\ y \in Updaters /\ y.state = v.state /\ y.reply = "none" /\ ~y.persisted
          /\ y.file = v.saved /\ y.cand = v.cand /\ y.expected = v.expected /\ y.saved = v.saved
          /\ y.rel = v.rel /\ y.install = v.install
      BY <1>3 DEF Updaters
    <3>2. Passed(y) /\ record' = record /\ payload' = payload
      BY <2>4 DEF DiskSame, disk
    <3> HIDE DEF y
    <3>3. /\ Out(y.rel, published) /\ (y.install => u.install /\ wanted = y.cand) /\ y.cand = u.cand
          /\ v.saved = u.saved
      BY <1>3, <1>4, <3>1 DEF Core, Bounds, Wish, Keeps
    <3>4. v.saved = published /\ published > own
      BY <1>5, <2>2, <2>3, <3>3 DEF Four
    <3>5. /\ y.file = published /\ y.cand = y.file /\ y.expected = y.file /\ y.saved = y.file
          /\ record' = y.file /\ y.state \in {"Verifying", "RestoringPending"}
      BY <1>2, <1>3, <2>2, <3>1, <3>2, <3>4 DEF Four
    <3>6. y.file \in payload
      BY <2>3, <2>4, <3>5 DEF Reopens
    <3>7. Verified(y)
      BY <1>5, <3>1, <3>3, <3>4, <3>5, <3>6 DEF Verified
    <3> QED
      BY <1>2, <3>2, <3>7, PassedKeeps
  <2>5. CASE /\ u' = InvalidateAndCheck(
                     IF v.persisted
                     THEN SetError(Go(v, "VerificationFailed"), "verification", FALSE) ELSE v)
             /\ Clear(TRUE) /\ HostSame
    <3> DEFINE g == Go(v, "VerificationFailed")
    <3>1. record' \in {None, record} /\ record' \in Build /\ payload' \subseteq Builds
      BY <2>5, InvFacts, ClearFacts
    <3>2. CASE v.persisted
      <4>1. v.state = "Verifying"
        BY <1>2, <1>3, <1>4, <3>2 DEF Core, Again
      <4>2. v.state \in States /\ Reduce(v.state, "VerificationFailed") = "VerificationError"
            /\ "VerificationError" \in States
        BY <4>1, ReduceFacts DEF States
      <4>3. g \in Updaters /\ g.state = "VerificationError"
        BY <1>3, <4>2, GoFacts
      <4>4. u' = InvalidateAndCheck(SetError(g, "verification", FALSE))
        BY <2>5, <3>2
      <4> HIDE DEF g
      <4>5. /\ SetError(g, "verification", FALSE) \in Updaters
            /\ SetError(g, "verification", FALSE).state = "VerificationError"
        BY <4>3 DEF SetError, Updaters
      <4>6. Core(u', record', own, published, wanted) /\ Calm(u') /\ Settles
        BY <3>1, <4>4, <4>5, InvFacts, InvalidateCore DEF Settles, Bounds
      <4> QED
        BY <1>6, <2>5, <3>1, <4>6 DEF HostSame
    <3>3. CASE ~v.persisted
      <4>1. u' = InvalidateAndCheck(v)
        BY <2>5, <3>3
      <4>2. v.state = "RestoringPending"
        BY <1>2, <1>3, <2>1, <3>3, InvFacts DEF Stage, Keeps
      <4>3. Core(u', record', own, published, wanted) /\ Calm(u') /\ Settles
        BY <1>3, <3>1, <4>1, <4>2, InvFacts, InvalidateCore DEF Settles, Bounds
      <4> QED
        BY <1>6, <2>5, <3>1, <4>3 DEF HostSame
    <3> QED
      BY <3>2, <3>3
  <2>6. CASE Fail(v, FALSE) /\ HostSame
    BY <1>7, <2>6
  <2> QED
    BY <1>9, <2>4, <2>5, <2>6 DEF Reopen
<1>10. CASE ~Matches /\ Fail(u, TRUE) /\ HostSame
  BY <1>7, <1>10
<1> QED
  BY <1>1, <1>8, <1>9, <1>10

-----------------------------------------------------------------------------
(* The installer and the host *)

\* What the dialog is told: nothing, or how the hand-off ended
Heard ==
    \/ u' = u
    \/ /\ u.state = "HandingOff"
       /\ u'.state \in {"Installed", "HandOffError", "InstallationUnknown"}

\* What the installer reports ends the hand-off
LEMMA RespondKeeps ==
    ASSUME Inv, NEW ok, ok \in BOOLEAN, NEW unknown, unknown \in BOOLEAN, Respond(ok, unknown),
           UNCHANGED <<others, deployed, world, wanted>>, inst \in {"asked", "started"},
           txn.phase # "none", txn' \in Transactions, txn'.build = txn.build, ok => ~unknown,
           ~unknown => txn'.phase = IF ok THEN "done" ELSE "failed"
    PROVE  Inv' /\ Heard
<1> DEFINE x == [ClearError(u) EXCEPT !.file = None]
           e == IF inst' = "unknown" THEN "InstallOutcomeUnknown" ELSE "HandOffFailed"
           g == Go(u, e)
<1>1. /\ own' = own /\ published' = published /\ wanted' = wanted /\ deployed' = deployed
      /\ others' = others
  BY DEF world
<1>2. u.state = "HandingOff" /\ txn.build # None
  BY DEF Inv, HostInv
<1>3. inst' = (IF unknown THEN "unknown" ELSE "idle") /\ early' = "none"
  BY DEF Respond, Finish
<1>4. ~u.install /\ ~u.persisted /\ u.reply = "none"
  BY <1>2, InvFacts, StageIdle DEF Core, Wish, Again
<1>5. /\ Reduce(u.state, "InstallCompleted") = "Installed" /\ "Installed" \in States
      /\ Reduce(u.state, "HandOffFailed") = "HandOffError" /\ "HandOffError" \in States
      /\ Reduce(u.state, "InstallOutcomeUnknown") = "InstallationUnknown"
      /\ "InstallationUnknown" \in States
  BY <1>2, InvFacts, ReduceFacts DEF States
<1>6. /\ Core(u', record', own, published, wanted) /\ Stage(u') /\ payload' \subseteq Builds
      /\ u'.state = IF ok THEN "Installed"
                    ELSE IF unknown THEN "InstallationUnknown" ELSE "HandOffError"
  <2>1. CASE ok
    <3>1. u' = Go(x, "InstallCompleted") /\ Clear(TRUE)
      BY <1>2, <2>1 DEF Respond
    <3>2. record' \in {None, record} /\ record' \in Build /\ payload' \subseteq Builds
      BY <3>1, InvFacts, ClearFacts
    <3>3. /\ ClearError(u) \in Updaters /\ Keeps(u, ClearError(u)) /\ ClearError(u).state = u.state
          /\ ClearError(u).reply = "none" /\ ~ClearError(u).install
      BY <1>4, InvFacts, SmallFacts
    <3>4. /\ x \in Updaters /\ x.state = u.state /\ x.reply = "none" /\ ~x.install /\ ~x.persisted
          /\ x.rel = u.rel /\ x.cand = u.cand /\ x.expected = u.expected /\ x.saved = u.saved
          /\ x.file = None
      <4> DEFINE y == ClearError(u)
      <4>1. /\ y \in Updaters /\ Keeps(u, y) /\ y.state = u.state /\ y.reply = "none" /\ ~y.install
        BY <3>3
      <4>2. x = [y EXCEPT !.file = None]
        OBVIOUS
      <4> HIDE DEF y, x
      <4> QED
        BY <1>4, <4>1, <4>2 DEF Updaters, Build, Keeps
    <3> HIDE DEF x
    <3>5. /\ u' \in Updaters /\ Keeps(x, u') /\ u'.state = "Installed" /\ u'.reply = "none"
          /\ ~u'.install
      BY <1>5, <3>1, <3>4, GoFacts
    <3>6. Bounds(u', record', published) /\ ~u'.persisted
      BY <3>2, <3>4, <3>5, InvFacts DEF Bounds, Keeps
    <3> QED
      BY <2>1, <3>2, <3>5, <3>6, QuietCore, StageNone DEF Awaiting, Offered, Ready
  <2>2. CASE ~ok
    <3>1. u' = SetError(g, "handoff", FALSE) /\ record' = record /\ payload' = payload
      BY <1>2, <2>2 DEF Respond, DiskSame, disk
    <3>2. Reduce(u.state, e) = IF unknown THEN "InstallationUnknown" ELSE "HandOffError"
      BY <1>3, <1>5
    <3> HIDE DEF e
    <3>3. /\ g \in Updaters /\ Keeps(u, g) /\ g.reply = "none"
          /\ g.state = IF unknown THEN "InstallationUnknown" ELSE "HandOffError"
      BY <1>4, <1>5, <3>2, InvFacts, GoFacts
    <3> HIDE DEF g
    <3>4. /\ u' \in Updaters /\ Keeps(g, u') /\ u'.state = g.state /\ u'.reply = "none"
          /\ ~u'.install
      BY <3>1, <3>3 DEF SetError, Updaters, Keeps
    <3>5. Keeps(u, u') /\ ~u'.persisted
      BY <1>4, <3>3, <3>4 DEF Keeps
    <3>6. Bounds(u', record, published)
      BY <3>5, InvFacts DEF Bounds, Keeps
    <3>7. CASE unknown
      <4>1. Core(u', record, own, published, wanted)
        BY <3>3, <3>4, <3>5, <3>6, <3>7, InvFacts, QuietCore DEF Offered, Ready
      <4> QED
        BY <2>2, <3>1, <3>3, <3>4, <3>7, <4>1, InvFacts, StageNone DEF Awaiting
    <3>8. CASE ~unknown
      <4>1. OneUpdate(u', record, own) /\ own \in Nat /\ u'.file \in Nat
        <5>1. OneUpdate(u', record, own) /\ u.file # None /\ u'.file = u.file
          BY <1>2, <3>5, InvFacts DEF Core, OneUpdate, Ready, Keeps
        <5> QED
          BY <5>1, InvFacts, BuildsAreNumbers DEF Updaters, Build
      <4>2. u'.state = "HandOffError" /\ u'.state \in Ready
        BY <3>3, <3>4, <3>8 DEF Ready
      <4>3. Core(u', record, own, published, wanted) /\ Stage(u')
        BY <3>4, <3>5, <3>6, <4>1, <4>2, InvFacts, ReadyCore
      <4> QED
        BY <2>2, <3>1, <3>8, <4>2, <4>3, InvFacts
    <3> QED
      BY <3>7, <3>8
  <2> QED
    BY <2>1, <2>2
<1>7. u' \in Updaters /\ record' \in Build
  BY <1>6 DEF Core
<1>8. TypeOK'
  BY <1>1, <1>3, <1>6, <1>7 DEF Inv, TypeOK
<1>9. WorldInv'
  BY <1>1 DEF Inv, WorldInv
<1>10. HostInv'
  BY <1>2, <1>3, <1>6 DEF HostInv, Closed, Final
<1>11. Heard
  BY <1>2, <1>6 DEF Heard
<1> QED
  BY <1>1, <1>6, <1>8, <1>9, <1>10, <1>11 DEF Inv, Stage

\* A step that neither the updater nor its files take part in
LEMMA HostStep ==
    ASSUME Inv, UNCHANGED <<u, disk, world, wanted>>, inst' \in {"idle", "asked", "started", "unknown"},
           early' \in {"none", "done", "failed"}, txn' \in Transactions, others' \subseteq Builds,
           deployed' \in Builds, WorldInv', HostInv'
    PROVE  Inv'
<1>1. /\ u' = u /\ record' = record /\ payload' = payload /\ own' = own /\ published' = published
      /\ wanted' = wanted
  BY DEF disk, world
<1>2. TypeOK'
  BY <1>1 DEF Inv, TypeOK
<1>3. Core(u, record, own, published, wanted)' /\ Stage(u)'
  BY <1>1 DEF Inv
<1> QED
  BY <1>2, <1>3 DEF Inv

LEMMA HostFacts ==
    ASSUME Inv
    PROVE  /\ inst \in {"idle", "asked", "started", "unknown"} /\ early \in {"none", "done", "failed"}
           /\ txn \in Transactions /\ others \subseteq Builds /\ deployed \in Builds
           /\ WorldInv /\ HostInv
BY DEF Inv, TypeOK

LEMMA HostStartsKeeps == ASSUME Inv, HostStarts PROVE Inv' /\ txn'.phase # "asked"
<1>1. /\ txn.phase = "asked" /\ txn' = [txn EXCEPT !.phase = "running"] /\ inst' = inst
      /\ early' = early /\ others' = others /\ deployed' = deployed /\ u' = u
      /\ UNCHANGED <<u, disk, world, wanted>>
  BY DEF HostStarts
<1>2. txn' \in Transactions /\ txn'.phase = "running" /\ txn'.build = txn.build
  BY <1>1, HostFacts DEF Transactions
<1>3. WorldInv' /\ HostInv'
  BY <1>1, <1>2, HostFacts DEF WorldInv, HostInv, world
<1> QED
  BY <1>1, <1>2, <1>3, HostFacts, HostStep

LEMMA HostEndsKeeps == ASSUME Inv, HostEnds PROVE Inv' /\ txn'.phase # "asked"
<1>1. /\ txn.phase = "running" /\ inst' = inst
      /\ early' = early /\ others' = others /\ u' = u /\ deployed' \in {deployed, txn.build}
      /\ (txn' = [txn EXCEPT !.phase = "done"] \/ txn' = [txn EXCEPT !.phase = "failed"])
      /\ UNCHANGED <<u, disk, world, wanted>>
  BY DEF HostEnds
<1>2. txn' \in Transactions /\ txn'.phase \in {"done", "failed"} /\ txn'.build = txn.build
  BY <1>1, HostFacts DEF Transactions
<1>3. txn.build # None /\ txn.build \in Builds
  BY <1>1, HostFacts DEF HostInv, Transactions, Build
<1>4. deployed' \in Builds /\ deployed' <= published
  BY <1>1, <1>3, HostFacts DEF WorldInv
<1>5. WorldInv'
  BY <1>1, <1>2, <1>4, HostFacts DEF WorldInv, world
<1>6. HostInv'
  BY <1>1, <1>2, HostFacts DEF HostInv
<1> QED
  BY <1>1, <1>2, <1>4, <1>5, <1>6, HostFacts, HostStep

LEMMA EarlyExitKeeps == ASSUME Inv, EarlyExit PROVE Inv' /\ txn' = txn
<1>1. /\ inst = "asked" /\ txn.phase \in {"done", "failed"} /\ early' = txn.phase /\ inst' = inst
      /\ txn' = txn /\ others' = others /\ u' = u /\ deployed' = deployed
      /\ UNCHANGED <<u, disk, world, wanted>>
  BY DEF EarlyExit
<1>2. WorldInv' /\ HostInv'
  BY <1>1, HostFacts DEF WorldInv, HostInv, world
<1> QED
  BY <1>1, <1>2, HostFacts, HostStep

LEMMA OtherEndsKeeps == ASSUME Inv, OtherEnds PROVE Inv' /\ txn' = txn
<1>1. PICK b \in others : others' = others \ {b} /\ deployed' \in {deployed, b}
  BY DEF OtherEnds
<1>2. /\ early' = early /\ inst' = inst /\ txn' = txn /\ u' = u
      /\ UNCHANGED <<u, disk, world, wanted>>
  BY DEF OtherEnds
<1>3. deployed' \in Builds /\ deployed' <= published
  BY <1>1, HostFacts DEF WorldInv
<1>4. WorldInv' /\ HostInv'
  BY <1>1, <1>2, <1>3, HostFacts DEF WorldInv, HostInv, world
<1> QED
  BY <1>1, <1>2, <1>3, <1>4, HostFacts, HostStep

LEMMA HostRefusesKeeps ==
    ASSUME Inv, HostRefuses
    PROVE  Inv' /\ txn'.phase # "asked" /\ Heard
<1>1. /\ txn.phase = "asked" /\ inst = "asked" /\ txn' = [txn EXCEPT !.phase = "failed"]
      /\ Respond(FALSE, FALSE) /\ UNCHANGED <<others, deployed, world, wanted>>
  BY DEF HostRefuses
<1>2. txn' \in Transactions /\ txn'.phase = "failed" /\ txn'.build = txn.build
  BY <1>1, HostFacts DEF Transactions
<1> QED
  BY <1>1, <1>2, RespondKeeps

LEMMA StartedKeeps == ASSUME Inv, Started PROVE Inv' /\ txn' = txn /\ Heard
<1>1. /\ inst = "asked" /\ txn.phase \in {"running", "done", "failed"} /\ txn' = txn
      /\ UNCHANGED <<others, deployed, world, wanted>>
  BY DEF Started
<1>2. CASE early = "none" /\ inst' = "started" /\ early' = "none" /\ UNCHANGED <<u, disk>>
  <2>1. WorldInv' /\ HostInv'
    BY <1>1, <1>2, HostFacts DEF WorldInv, HostInv, world
  <2> QED
    BY <1>1, <1>2, <2>1, HostFacts, HostStep DEF Heard
<1>3. CASE early # "none" /\ Respond(early = "done", FALSE)
  <2>1. txn.phase = early /\ early \in {"done", "failed"}
    BY <1>3, HostFacts DEF HostInv
  <2> DEFINE ok == early = "done"
  <2>2. Respond(ok, FALSE) /\ ok \in BOOLEAN /\ txn'.phase = IF ok THEN "done" ELSE "failed"
    BY <1>1, <1>3, <2>1
  <2> HIDE DEF ok
  <2> QED
    BY <1>1, <2>2, HostFacts, RespondKeeps
<1> QED
  BY <1>2, <1>3 DEF Started

LEMMA ExitedKeeps == ASSUME Inv, Exited PROVE Inv' /\ txn' = txn /\ Heard
<1> DEFINE ok == txn.phase = "done"
<1>1. /\ inst = "started" /\ txn.phase \in {"done", "failed"} /\ txn' = txn
      /\ UNCHANGED <<others, deployed, world, wanted>> /\ Respond(ok, FALSE)
  BY DEF Exited
<1>2. ok \in BOOLEAN /\ txn'.phase = IF ok THEN "done" ELSE "failed"
  BY <1>1
<1> HIDE DEF ok
<1> QED
  BY <1>1, <1>2, HostFacts, RespondKeeps

LEMMA LoseInstallerKeeps == ASSUME Inv, LoseInstaller PROVE Inv' /\ txn' = txn /\ Heard
<1>1. /\ inst \in {"asked", "started"} /\ txn' = txn /\ Respond(FALSE, TRUE)
      /\ UNCHANGED <<others, deployed, world, wanted>>
  BY DEF LoseInstaller
<1>2. CASE txn.phase # "none"
  BY <1>1, <1>2, HostFacts, RespondKeeps
<1>3. CASE txn.phase = "none"
  BY <1>1, <1>3, HostFacts DEF HostInv
<1> QED
  BY <1>2, <1>3

-----------------------------------------------------------------------------
(* The world *)

LEMMA PublishKeeps == ASSUME Inv, Publish PROVE Inv' /\ txn' = txn
<1>1. /\ published + 1 \in Builds /\ published' = published + 1 /\ own' = own /\ wanted' = wanted
      /\ u' = u /\ record' = record /\ payload' = payload
      /\ inst' = inst /\ early' = early /\ txn' = txn /\ others' = others /\ deployed' = deployed
  BY DEF Publish, disk, host
<1>2. /\ published \in Nat /\ own \in Nat /\ deployed \in Nat
      /\ \A b \in Build : b = None \/ b \in Nat
  BY InvFacts, HostFacts, BuildsAreNumbers DEF Build
<1>3. ASSUME NEW b \in Build, Out(b, published)
      PROVE  Out(b, published')
  BY <1>1, <1>2, <1>3
<1>4. Bounds(u, record, published')
  <2>1. /\ u.rel \in Build /\ u.cand \in Build /\ u.expected \in Build /\ u.saved \in Build
        /\ u.file \in Build /\ record \in Build
    BY InvFacts DEF Updaters
  <2>2. /\ Out(u.rel, published) /\ Out(u.cand, published) /\ Out(u.expected, published)
        /\ Out(u.saved, published) /\ Out(u.file, published) /\ Out(record, published)
    BY InvFacts DEF Bounds
  <2> QED
    BY <1>3, <2>1, <2>2 DEF Bounds
<1>5. Core(u, record, own, published, wanted)'
  BY <1>1, <1>4, InvFacts DEF Core
<1>6. WorldInv'
  <2>1. own <= published' /\ deployed <= published'
    BY <1>1, <1>2, HostFacts DEF WorldInv
  <2>2. Out(txn.build, published')
    BY <1>3, HostFacts DEF WorldInv, Transactions
  <2>3. ASSUME NEW b \in others PROVE b <= published'
    <3>1. b \in Nat /\ b <= published
      BY HostFacts, BuildsAreNumbers DEF WorldInv
    <3> QED
      BY <1>1, <1>2, <3>1
  <2> QED
    BY <1>1, <2>1, <2>2, <2>3 DEF WorldInv
<1>7. HostInv'
  BY <1>1, HostFacts DEF HostInv
<1>8. TypeOK'
  BY <1>1 DEF Inv, TypeOK
<1> QED
  BY <1>1, <1>5, <1>6, <1>7, <1>8 DEF Inv, Stage

LEMMA LoseFileKeeps == ASSUME Inv, LoseFile PROVE Inv' /\ txn' = txn
<1>1. /\ payload' \subseteq payload /\ published' = published /\ own' = own /\ wanted' = wanted
      /\ u' = u /\ record' = record
      /\ inst' = inst /\ early' = early /\ txn' = txn /\ others' = others /\ deployed' = deployed
  BY DEF LoseFile, host, world
<1>2. TypeOK'
  BY <1>1 DEF Inv, TypeOK
<1>3. Core(u, record, own, published, wanted)' /\ Stage(u)'
  BY <1>1 DEF Inv
<1>4. WorldInv' /\ HostInv'
  BY <1>1, HostFacts DEF WorldInv, HostInv
<1> QED
  BY <1>1, <1>2, <1>3, <1>4 DEF Inv

\* An updater that has just been made
LEMMA FreshFacts ==
    ASSUME NEW c, c \in BOOLEAN
    PROVE  LET v == Fresh(c) IN
             /\ v \in Updaters /\ v.state = "Idle" /\ v.reply = "none" /\ ~v.install /\ ~v.persisted
             /\ v.rel = None /\ v.cand = None /\ v.expected = None /\ v.saved = None /\ v.file = None
BY DEF Fresh, Updaters, States, Stages, Build

LEMMA FreshCore ==
    ASSUME NEW c, c \in BOOLEAN, NEW rec \in Build, NEW o, NEW p, NEW w, Out(rec, p)
    PROVE  Core(Fresh(c), rec, o, p, w) /\ Stage(Fresh(c))
<1> DEFINE v == Fresh(c)
<1>1. /\ v \in Updaters /\ v.state = "Idle" /\ v.reply = "none" /\ ~v.install /\ ~v.persisted
      /\ v.rel = None /\ v.cand = None /\ v.expected = None /\ v.saved = None /\ v.file = None
  BY FreshFacts
<1> HIDE DEF v
<1>2. Bounds(v, rec, p)
  BY <1>1 DEF Bounds
<1>3. Core(v, rec, o, p, w) /\ Stage(v)
  BY <1>1, <1>2, QuietCore, StageNone DEF Awaiting, Offered, Ready
<1> QED
  BY <1>3 DEF v

LEMMA RestartKeeps == ASSUME Inv, Restart PROVE Inv' /\ txn'.phase # "asked"
<1>1. /\ u' = Fresh(u.capable) /\ inst' = "idle" /\ early' = "none" /\ txn' = NoTxn
      /\ others' = others \cup (IF txn.phase \in {"asked", "running"} THEN {txn.build} ELSE {})
      /\ own' = deployed /\ wanted' = None /\ record' = record /\ payload' = payload
      /\ deployed' = deployed /\ published' = published
  BY DEF Restart, disk
<1>2. Core(u', record, deployed, published, None) /\ Stage(u')
  BY <1>1, InvFacts, FreshCore DEF Bounds
<1>3. txn' \in Transactions /\ txn'.phase = "none" /\ txn'.build = None
  BY <1>1 DEF NoTxn, Transactions, Build
<1>4. \A b \in others' : b \in Builds /\ b <= published
  <2>1. CASE txn.phase \in {"asked", "running"}
    <3>1. txn.build \in Builds /\ txn.build <= published
      BY <2>1, HostFacts DEF HostInv, WorldInv, Transactions, Build
    <3> QED
      BY <1>1, <2>1, <3>1, HostFacts DEF WorldInv
  <2>2. CASE txn.phase \notin {"asked", "running"}
    BY <1>1, <2>2, HostFacts DEF WorldInv
  <2> QED
    BY <2>1, <2>2
<1>5. u' \in Updaters
  BY <1>2 DEF Core
<1>6. TypeOK'
  BY <1>1, <1>3, <1>4, <1>5, InvFacts, HostFacts DEF TypeOK, Build
<1>7. WorldInv'
  BY <1>1, <1>3, <1>4, HostFacts DEF WorldInv
<1>8. HostInv'
  <2>1. u'.state = "Idle"
    BY <1>1, InvFacts, FreshFacts
  <2> QED
    BY <1>1, <1>3, <2>1 DEF HostInv, Closed, Final
<1> QED
  BY <1>1, <1>2, <1>3, <1>6, <1>7, <1>8 DEF Inv, Stage

-----------------------------------------------------------------------------
(* Every step *)

LEMMA InitInv == Init => Inv
<1> SUFFICES ASSUME Init PROVE Inv
  OBVIOUS
<1>1. PICK c \in BOOLEAN : u = Fresh(c)
  BY DEF Init
<1>2. /\ record = None /\ payload = {} /\ inst = "idle" /\ early = "none" /\ txn = NoTxn
      /\ others = {} /\ deployed = 1 /\ own = 1 /\ published = 1 /\ wanted = None
  BY DEF Init
<1>3. Core(u, record, own, published, wanted) /\ Stage(u)
  BY <1>1, <1>2, FreshCore DEF Build
<1>4. txn \in Transactions /\ txn.phase = "none" /\ txn.build = None
  BY <1>2 DEF NoTxn, Transactions, Build
<1>5. u \in Updaters
  BY <1>3 DEF Core
<1>6. TypeOK
  BY <1>2, <1>4, <1>5, BuildsAreNumbers DEF TypeOK, Build
<1>7. WorldInv /\ HostInv
  <2>1. u.state = "Idle"
    BY <1>1, FreshFacts
  <2> QED
    BY <1>2, <1>4, <2>1 DEF WorldInv, HostInv, Closed, Final
<1> QED
  BY <1>3, <1>6, <1>7 DEF Inv

LEMMA StepKeeps == Inv /\ [Next]_vars => Inv' /\ (Asks \/ txn'.phase # "asked")
<1> SUFFICES ASSUME Inv, [Next]_vars PROVE Inv' /\ (Asks \/ txn'.phase # "asked")
  OBVIOUS
<1>1. CASE UNCHANGED vars
  <2>1. /\ u' = u /\ record' = record /\ payload' = payload /\ inst' = inst /\ early' = early
        /\ txn' = txn /\ others' = others /\ deployed' = deployed /\ own' = own
        /\ published' = published /\ wanted' = wanted
    BY <1>1 DEF vars, disk, host, world
  <2> QED
    BY <2>1 DEF Inv, TypeOK, Stage, WorldInv, HostInv, Asks
<1>2. CASE User
  <2>1. txn' = txn
    BY <1>2 DEF User, Start, CheckNow, Download, InstallReady, Cancel, RetryCheck, RetryUpdate,
                RetryRestore, RetryHandOff, RetryReady, HostSame, host
  <2>2. Inv'
    BY <1>2, StartKeeps, CheckNowKeeps, DownloadKeeps, InstallKeeps, CancelKeeps, RetryUpdateKeeps,
       RetryRestoreKeeps, RetryReadyKeeps DEF User
  <2> QED
    BY <2>1, <2>2 DEF Asks
<1>3. CASE Reply /\ ~TagAgainArrives
  <2>1. txn' = txn
    BY <1>3 DEF Reply, ReleaseArrives, ManifestArrives, TagArrives, CompareArrives, AssetArrives,
                ReleaseAgainArrives, ManifestAgainArrives, ReplyFails, HostSame, host
  <2>2. Inv'
    BY <1>3, ReleaseKeeps, ManifestKeeps, TagKeeps, CompareKeeps, AssetKeeps, ReleaseAgainKeeps,
       ReplyFailsKeeps DEF Reply
  <2> QED
    BY <2>1, <2>2 DEF Asks
<1>4. CASE TagAgainArrives
  BY <1>4, TagAgainKeeps
<1>5. CASE Host
  BY <1>5, HostStartsKeeps, HostRefusesKeeps, HostEndsKeeps, EarlyExitKeeps, OtherEndsKeeps
     DEF Host, Asks
<1>6. CASE Started \/ Exited \/ LoseInstaller
  BY <1>6, StartedKeeps, ExitedKeeps, LoseInstallerKeeps DEF Asks
<1>7. CASE Publish \/ LoseFile \/ Restart
  BY <1>7, PublishKeeps, LoseFileKeeps, RestartKeeps DEF Asks
<1> QED
  BY <1>1, <1>2, <1>3, <1>4, <1>5, <1>6, <1>7 DEF Next

LEMMA Invariance == Spec => []Inv
<1>1. Init => Inv
  BY InitInv
<1>2. Inv /\ [Next]_vars => Inv'
  BY StepKeeps
<1> QED
  BY <1>1, <1>2, PTL DEF Spec

\* The updater, its files, its installer and the world keep the shapes they are given.
THEOREM TypeCorrect == Spec => []TypeOK
<1>1. Inv => TypeOK
  BY DEF Inv
<1> QED
  BY <1>1, Invariance, PTL

\* An update that is ready, or being handed off, is one build: the candidate of the dialog, the
\* build the publisher was asked about, the record on disk and the open file; and it follows the
\* build that runs (AutoUpdateChecker::finishRevalidation, saveVerifiedPending).
THEOREM OneReady == Spec => []ReadyIsOne
<1>1. Inv => ReadyIsOne
  BY DEF Inv, Core, OneUpdate, ReadyIsOne, Ready
<1> QED
  BY <1>1, Invariance, PTL

\* The host is asked only for the build the user wanted in this run, which is the candidate of the
\* dialog and whose file was verified again (AutoUpdateChecker::installUpdate, openInstaller).
THEOREM AsksOnlyTheWanted == Spec => InstallAsked
<1>1. Inv /\ [Next]_vars =>
        [(txn' # txn /\ txn'.phase = "asked") =>
            txn'.build = wanted /\ wanted = u.cand /\ wanted \in payload]_vars
  BY StepKeeps DEF Asks
<1> QED
  BY <1>1, Invariance, PTL DEF Spec, InstallAsked

\* Within a run, the host is asked again only after a transaction that is known to have failed
\* (FlatpakInstaller::openFlatpak, finish).
THEOREM NoSecondRequest == Spec => NoSecondInstall
<1>1. Inv /\ [Next]_vars =>
        [(txn' # txn /\ txn'.phase = "asked") => txn.phase \in {"none", "failed"}]_vars
  BY StepKeeps DEF Asks
<1> QED
  BY <1>1, Invariance, PTL DEF Spec, NoSecondInstall

-----------------------------------------------------------------------------
(* The installation *)

\* Nothing is wished for once an installation is told of
LEMMA NoWishLeft ==
    /\ Inv /\ u.state \in Final => WishedFor = None
    /\ Inv' /\ u'.state \in Final => WishedFor' = None
<1>1. /\ Inv /\ u.state \in Final => ~u.install
      /\ Inv' /\ u'.state \in Final => ~u'.install
  BY DEF Inv, Core, Wish, Final
<1> QED
  BY <1>1 DEF WishedFor

\* A step that has nothing to do with an installation may make or drop a wish
LEMMA QuietChooses ==
    ASSUME Inv', u.state \notin Closed, u'.state \notin Final, txn' = txn
    PROVE  Installing!Next
<1>1. Told \in {"nothing", "failed"} /\ Told' = "nothing"
  BY DEF Told, Closed, Final
<1>2. WishedFor' \in Builds \cup {None}
  BY DEF Inv, TypeOK, WishedFor, Build
<1>3. UNCHANGED <<txn.build, Truth>>
  BY DEF Truth
<1> QED
  BY <1>1, <1>2, <1>3 DEF Installing!Next, Installing!Choose

\* The end of a verification
LEMMA HandOffAsks ==
    ASSUME Inv, Inv', u.state \notin Final, Asks, HandsOff
    PROVE  Installing!Next
<1>1. CASE UNCHANGED txn /\ u'.state \notin Final
  BY <1>1, QuietChooses DEF Closed
<1>2. CASE u.install /\ u'.state \in {"HandOffError", "HandingOff"}
  <2>1. Told = "nothing" /\ WishedFor = wanted /\ wanted # None
    <3>1. Told = "nothing"
      BY DEF Told, Final
    <3>2. wanted # None
      BY <1>2 DEF Inv, Core, Wish, Offer, Offered
    <3> QED
      BY <1>2, <3>1, <3>2 DEF WishedFor
  <2>2. WishedFor' = None
    BY <1>2, NoWishLeft DEF Final
  <2>3. CASE UNCHANGED txn /\ u'.state = "HandOffError"
    <3>1. Told' = "failed" /\ UNCHANGED <<txn.build, Truth>>
      BY <2>3 DEF Told, Truth
    <3> QED
      BY <2>1, <2>2, <3>1 DEF Installing!Next, Installing!CannotAsk
  <2>4. CASE txn' # txn /\ txn'.phase = "asked" /\ u'.state = "HandingOff"
    <3>1. txn.phase \in {"none", "failed"} /\ txn'.build = wanted
      BY <2>4 DEF Asks
    <3>2. Told' = "installing" /\ Truth' = "open" /\ Truth \in {"none", "failed"}
      BY <2>4, <3>1 DEF Told, Truth
    <3> QED
      BY <2>1, <2>2, <3>1, <3>2 DEF Installing!Next, Installing!Ask
  <2> QED
    BY <1>2, <2>3, <2>4 DEF HandsOff, Final
<1> QED
  BY <1>1, <1>2 DEF HandsOff

\* A step of the host, and what the installer reports of it
LEMMA HostTells ==
    ASSUME Inv, Inv', Heard, wanted' = wanted,
           \/ txn' = txn
           \/ u' = u /\ txn'.build = txn.build /\ txn.phase \in {"asked", "running"}
                     /\ txn'.phase \in {"running", "done", "failed"}
           \/ u' # u /\ txn'.build = txn.build /\ txn.phase = "asked" /\ txn'.phase = "failed"
                     /\ inst' # "unknown"
    PROVE  Installing!Next \/ UNCHANGED Installing!installationVars
<1>1. CASE u' = u
  <2>1. UNCHANGED <<WishedFor, Told>>
    BY <1>1 DEF WishedFor, Told
  <2>2. UNCHANGED txn.build
    BY <1>1
  <2>3. UNCHANGED Truth \/ (Truth = "open" /\ Truth' \in {"done", "failed"})
    BY <1>1 DEF Truth
  <2> QED
    BY <2>1, <2>2, <2>3 DEF Installing!installationVars, Installing!Next, Installing!End
<1>2. CASE u' # u
  <2>1. /\ u.state = "HandingOff"
        /\ u'.state \in {"Installed", "HandOffError", "InstallationUnknown"}
    BY <1>2 DEF Heard
  <2>2. UNCHANGED WishedFor /\ UNCHANGED txn.build
    BY <1>2, <2>1, NoWishLeft DEF Final
  <2>3. /\ txn.phase # "none"
        /\ u'.state = "Installed" => txn'.phase = "done"
        /\ u'.state = "HandOffError" => txn'.phase \in {"none", "failed"}
        /\ u'.state = "InstallationUnknown" => inst' = "unknown"
    BY <2>1 DEF Inv, HostInv, Closed, Final
  <2>4. CASE txn' = txn
    <3>1. CASE u'.state = "Installed"
      <4>1. Told = "installing" /\ Truth = "done" /\ Told' = "installed" /\ UNCHANGED Truth
        BY <2>1, <2>3, <2>4, <3>1 DEF Told, Truth
      <4> QED
        BY <2>2, <4>1 DEF Installing!Next, Installing!Tell
    <3>2. CASE u'.state = "HandOffError"
      <4>1. Told = "installing" /\ Truth = "failed" /\ Told' = "failed" /\ UNCHANGED Truth
        BY <2>1, <2>3, <2>4, <3>2 DEF Told, Truth
      <4> QED
        BY <2>2, <4>1 DEF Installing!Next, Installing!Tell
    <3>3. CASE u'.state = "InstallationUnknown"
      <4>1. Told = "installing" /\ Told' = "unknown" /\ UNCHANGED Truth
        BY <2>1, <2>4, <3>3 DEF Told, Truth
      <4> QED
        BY <2>2, <4>1 DEF Installing!Next, Installing!Tell
    <3> QED
      BY <2>1, <3>1, <3>2, <3>3
  <2>5. CASE txn.phase = "asked" /\ txn'.phase = "failed" /\ u'.state = "HandOffError"
    <3>1. Told = "installing" /\ Truth = "open" /\ Told' = "failed" /\ Truth' = "failed"
      BY <2>1, <2>5 DEF Told, Truth
    <3> QED
      BY <2>2, <3>1 DEF Installing!Next, Installing!Refuse
  <2> QED
    BY <1>2, <2>1, <2>3, <2>4, <2>5
<1> QED
  BY <1>1, <1>2

LEMMA InstallationStep ==
    ASSUME Inv, Inv', [Next]_vars
    PROVE  [Installing!Next]_Installing!installationVars
<1>1. SUFFICES Installing!Next \/ UNCHANGED Installing!installationVars
  OBVIOUS
<1>2. CASE UNCHANGED <<u, txn, wanted>>
  BY <1>2 DEF Installing!installationVars, WishedFor, Told, Truth
<1>3. CASE UNCHANGED vars
  BY <1>2, <1>3 DEF vars, host
<1>4. CASE User \/ (Reply /\ ~TagAgainArrives)
  <2>1. Quiet
    BY <1>4, StartKeeps, CheckNowKeeps, DownloadKeeps, InstallKeeps, CancelKeeps, RetryUpdateKeeps,
       RetryRestoreKeeps, RetryReadyKeeps, ReleaseKeeps, ManifestKeeps, TagKeeps, CompareKeeps,
       AssetKeeps, ReleaseAgainKeeps, ReplyFailsKeeps DEF User, Reply
  <2> QED
    BY <2>1, QuietChooses DEF Quiet, host
<1>5. CASE TagAgainArrives
  <2>1. u.state \in {"Verifying", "RestoringPending"}
    BY <1>5 DEF TagAgainArrives, Inv, Stage, AgainStages
  <2> QED
    BY <1>5, <2>1, TagAgainKeeps, HandOffAsks DEF Final
<1>6. CASE HostStarts \/ HostEnds
  <2>1. /\ u' = u /\ wanted' = wanted /\ txn.phase \in {"asked", "running"}
        /\ txn'.build = txn.build /\ txn'.phase \in {"running", "done", "failed"}
    BY <1>6 DEF HostStarts, HostEnds, Inv, TypeOK, Transactions
  <2> QED
    BY <2>1, HostTells DEF Heard
<1>7. CASE HostRefuses
  <2>1. /\ wanted' = wanted /\ txn.phase = "asked" /\ txn'.build = txn.build
        /\ txn'.phase = "failed" /\ Heard /\ inst' # "unknown"
    BY <1>7, HostRefusesKeeps DEF HostRefuses, Respond, Finish, Inv, TypeOK, Transactions
  <2> QED
    BY <2>1, HostTells
<1>8. CASE Started \/ Exited \/ LoseInstaller
  <2>1. txn' = txn /\ Heard /\ wanted' = wanted
    BY <1>8, StartedKeeps, ExitedKeeps, LoseInstallerKeeps DEF Started, Exited, LoseInstaller
  <2> QED
    BY <2>1, HostTells
<1>9. CASE EarlyExit \/ OtherEnds \/ Publish \/ LoseFile
  BY <1>2, <1>9 DEF EarlyExit, OtherEnds, Publish, LoseFile, host
<1>10. CASE Restart
  <2>1. u'.state = "Idle" /\ ~u'.install
    BY <1>10, FreshFacts, InvFacts DEF Restart
  <2>2. txn'.build = None /\ txn'.phase = "none"
    BY <1>10 DEF Restart, NoTxn
  <2>3. WishedFor' = None /\ Told' = "nothing" /\ Truth' = "none"
    BY <2>1, <2>2 DEF WishedFor, Told, Truth
  <2> QED
    BY <2>2, <2>3 DEF Installing!Next, Installing!Forget
<1> QED
  BY <1>3, <1>4, <1>5, <1>6, <1>7, <1>8, <1>9, <1>10 DEF Next, Host

\* An installation goes as Installation.tla promises: the host is asked for what is wished for and
\* verified, once while it may still be at it, and the dialog tells what has become of that or
\* that nobody knows (AutoUpdateChecker::openInstaller, FlatpakInstaller::finish, UpdateStateMachine).
THEOREM InstallationImplemented == Spec => ImplementsInstallation
<1>1. Init => Installing!Init
  <2> SUFFICES ASSUME Init PROVE Installing!Init
    OBVIOUS
  <2>1. PICK c \in BOOLEAN : u = Fresh(c)
    BY DEF Init
  <2>2. u.state = "Idle" /\ ~u.install
    BY <2>1, FreshFacts
  <2>3. txn.build = None /\ txn.phase = "none"
    BY DEF Init, NoTxn
  <2> QED
    BY <2>2, <2>3 DEF Installing!Init, WishedFor, Told, Truth
<1>2. Inv /\ Inv' /\ [Next]_vars => [Installing!Next]_Installing!installationVars
  BY InstallationStep
<1> QED
  BY <1>1, <1>2, Invariance, PTL DEF Spec, ImplementsInstallation, Installing!Spec

-----------------------------------------------------------------------------
(* What the updater is busy with comes to an end *)

\* The requests of an operation come in one order: a download, what is asked again to verify it,
\* and a check, which is what may follow a verification that the publisher has overtaken
RequestsLeft(r) ==
    CASE r = "asset" -> 8 [] r = "release again" -> 7 [] r = "manifest again" -> 6
      [] r = "tag again" -> 5 [] r = "release" -> 4 [] r = "manifest" -> 3 [] r = "tag" -> 2
      [] r = "compare" -> 1 [] OTHER -> 0

\* The installer's reply, and its exit
InstallerLeft == CASE inst = "asked" -> 2 [] inst = "started" -> 1 [] OTHER -> 0

StepsLeft == IF u.state = "HandingOff" THEN InstallerLeft ELSE RequestsLeft(u.reply)

\* A busy updater has a request that may fail, or an installer whose timer may expire
Attended ==
    u.state \in Busy =>
        IF u.state = "HandingOff" THEN inst \in {"asked", "started"} ELSE u.reply # "none"

Nearer ==
    u.state \in Busy /\ u'.state \in Busy =>
        /\ StepsLeft' <= StepsLeft
        /\ Reply \/ Started \/ Exited \/ HostRefuses \/ LoseInstaller => StepsLeft' < StepsLeft

LEMMA RequestsLeftValues ==
    /\ RequestsLeft("asset") = 8 /\ RequestsLeft("release again") = 7
    /\ RequestsLeft("manifest again") = 6 /\ RequestsLeft("tag again") = 5
    /\ RequestsLeft("release") = 4 /\ RequestsLeft("manifest") = 3 /\ RequestsLeft("tag") = 2
    /\ RequestsLeft("compare") = 1
BY DEF RequestsLeft

LEMMA StepsLeftFacts ==
    /\ StepsLeft \in Nat
    /\ u.state = "HandingOff" => StepsLeft <= 2
    /\ u.state # "HandingOff" => StepsLeft = RequestsLeft(u.reply)
<1>1. RequestsLeft(u.reply) \in Nat
  BY DEF RequestsLeft
<1>2. InstallerLeft \in Nat /\ InstallerLeft <= 2
  BY DEF InstallerLeft
<1> QED
  BY <1>1, <1>2 DEF StepsLeft

LEMMA StepsLeftNext ==
    /\ StepsLeft' \in Nat
    /\ u'.state = "HandingOff" => StepsLeft' <= 2
    /\ u'.state # "HandingOff" => StepsLeft' = RequestsLeft(u'.reply)
<1>1. RequestsLeft(u'.reply) \in Nat
  BY DEF RequestsLeft
<1>2. InstallerLeft' \in Nat /\ InstallerLeft' <= 2
  BY DEF InstallerLeft
<1> QED
  BY <1>1, <1>2 DEF StepsLeft

\* What may be waited for next
Follows(r, next) ==
    \/ r = "asset" /\ next = "release again"
    \/ r = "release again" /\ next \in {"manifest again", "release"}
    \/ r = "manifest again" /\ next \in {"tag again", "release"}
    \/ r = "tag again" /\ next = "release"
    \/ r = "release" /\ next = "manifest"
    \/ r = "manifest" /\ next = "tag"
    \/ r = "tag" /\ next = "compare"

LEMMA FollowsDescends ==
    ASSUME NEW r, NEW next, Follows(r, next)
    PROVE  RequestsLeft(next) < RequestsLeft(r)
<1>1. \/ RequestsLeft(r) = 8 /\ RequestsLeft(next) = 7
      \/ RequestsLeft(r) = 7 /\ RequestsLeft(next) \in {6, 4}
      \/ RequestsLeft(r) = 6 /\ RequestsLeft(next) \in {5, 4}
      \/ RequestsLeft(r) = 5 /\ RequestsLeft(next) = 4
      \/ RequestsLeft(r) = 4 /\ RequestsLeft(next) = 3
      \/ RequestsLeft(r) = 3 /\ RequestsLeft(next) = 2
      \/ RequestsLeft(r) = 2 /\ RequestsLeft(next) = 1
  BY RequestsLeftValues DEF Follows
<1> QED
  BY <1>1

\* A reply is followed by the next request, by a check, by the installer, or by nothing
LEMMA ReplyFollows ==
    ASSUME Inv, Reply, u'.state \in Busy
    PROVE  /\ u.reply # "none" /\ u.state \in Awaiting
           /\ u'.state = "HandingOff" => u.reply = "tag again"
           /\ u'.state # "HandingOff" => Follows(u.reply, u'.reply)
<1>0. u \in Updaters /\ Stage(u)
  BY InvFacts
<1>1. u.reply # "none"
  BY DEF Reply, ReleaseArrives, ManifestArrives, TagArrives, CompareArrives, AssetArrives,
         ReleaseAgainArrives, ManifestAgainArrives, TagAgainArrives, ReplyFails
<1>2. u.state \in Awaiting
  BY <1>0, <1>1, StageIdle DEF Awaiting
<1>12. u'.state = "HandingOff" => u.reply = "tag again"
  <2>1. CASE TagAgainArrives
    BY <2>1 DEF TagAgainArrives
  <2>2. CASE ~TagAgainArrives
    <3>1. Quiet
      BY <2>2, ReleaseKeeps, ManifestKeeps, TagKeeps, CompareKeeps, AssetKeeps, ReleaseAgainKeeps,
         ReplyFailsKeeps DEF Reply
    <3> QED
      BY <3>1 DEF Quiet, Final
  <2> QED
    BY <2>1, <2>2
<1>3. ASSUME NEW r, u' = Issue(u, r) \/ u' = Issue([u EXCEPT !.rel = published], r)
                                     \/ u' = Issue([u EXCEPT !.cand = u.rel], r)
      PROVE  u'.reply = r
  BY <1>0, <1>3 DEF Issue, Updaters
<1>4. ASSUME NEW c, c \in BOOLEAN, Fail(u, c)
      PROVE  c /\ u'.reply = "release"
  <2>1. /\ u'.state \in Failures
        /\ u'.state = "Checking" => u'.reply = "release" /\ Invalidates(u, c)
    BY <1>2, <1>4, InvFacts, FailKeeps DEF Awaiting
  <2> QED
    BY <2>1 DEF Failures, Busy, Invalidates
<1>5. CASE ReplyFails
  BY <1>4, <1>5 DEF ReplyFails
<1>6. CASE ReleaseArrives \/ ManifestArrives
  BY <1>1, <1>2, <1>3, <1>6, <1>12 DEF ReleaseArrives, ManifestArrives, Follows
<1>7. CASE TagArrives
  <2>1. CASE u' = Failed(u, FALSE) /\ DiskSame
    <3>1. Fail(u, FALSE)
      BY <2>1 DEF Fail, Invalidates
    <3> QED
      BY <1>4, <3>1
  <2> QED
    BY <1>1, <1>2, <1>3, <1>7, <1>12, <2>1 DEF TagArrives, Follows
<1>8. CASE CompareArrives
  BY <1>8, CompareKeeps DEF Busy
<1>9. CASE AssetArrives
  BY <1>1, <1>2, <1>9, <1>12, AssetKeeps DEF AssetArrives, Follows
<1>10. CASE ReleaseAgainArrives \/ ManifestAgainArrives
  <2>1. \/ u.reply = "release again" /\ u' = Issue(u, "manifest again")
        \/ u.reply = "manifest again" /\ u' = Issue(u, "tag again")
        \/ u.reply \in {"release again", "manifest again"} /\ Fail(u, TRUE)
    BY <1>10 DEF ReleaseAgainArrives, ManifestAgainArrives
  <2> QED
    BY <1>1, <1>2, <1>3, <1>4, <1>12, <2>1 DEF Follows
<1>11. CASE TagAgainArrives
  BY <1>1, <1>2, <1>11, <1>12, TagAgainKeeps DEF Settles, TagAgainArrives, Follows
<1> QED
  BY <1>5, <1>6, <1>7, <1>8, <1>9, <1>10, <1>11 DEF Reply

LEMMA ReplyDescends ==
    ASSUME Inv, Reply, u'.state \in Busy
    PROVE  StepsLeft' < StepsLeft
<1>1. /\ u.reply # "none" /\ u.state # "HandingOff" /\ StepsLeft = RequestsLeft(u.reply)
      /\ u'.state = "HandingOff" => u.reply = "tag again"
      /\ u'.state # "HandingOff" => Follows(u.reply, u'.reply)
  BY ReplyFollows, StepsLeftFacts DEF Awaiting
<1>2. CASE u'.state # "HandingOff"
  <2>1. Follows(u.reply, u'.reply) /\ StepsLeft' = RequestsLeft(u'.reply)
    BY <1>1, <1>2, StepsLeftNext
  <2> QED
    BY <1>1, <2>1, FollowsDescends
<1>3. CASE u'.state = "HandingOff"
  <2>1. StepsLeft = 5
    BY <1>1, <1>3, RequestsLeftValues
  <2> QED
    BY <1>3, <2>1, StepsLeftNext
<1> QED
  BY <1>2, <1>3

\* What the installer reports ends the hand-off, or takes it from the reply to the exit
LEMMA InstallerDescends ==
    ASSUME Inv, Inv', Started \/ Exited \/ HostRefuses \/ LoseInstaller, u.state \in Busy,
           u'.state \in Busy
    PROVE  StepsLeft' < StepsLeft
<1>1. /\ inst \in {"asked", "started"} /\ Heard
  BY StartedKeeps, ExitedKeeps, HostRefusesKeeps, LoseInstallerKeeps
     DEF Started, Exited, HostRefuses, LoseInstaller
<1>2. u.state = "HandingOff"
  BY <1>1 DEF Inv, HostInv
<1>3. u'.state = "HandingOff" /\ inst' \in {"asked", "started"}
  <2>1. u'.state = "HandingOff"
    BY <1>1, <1>2 DEF Heard, Busy
  <2> QED
    BY <2>1 DEF Inv, HostInv
<1>4. ~ \E ok, unknown \in BOOLEAN : Respond(ok, unknown)
  BY <1>3 DEF Respond, Finish
<1>5. Started /\ inst = "asked" /\ inst' = "started"
  BY <1>4 DEF Started, Exited, HostRefuses, LoseInstaller
<1> QED
  BY <1>2, <1>3, <1>5 DEF StepsLeft, InstallerLeft

LEMMA NearerStep == ASSUME Inv, Inv', [Next]_vars PROVE Nearer
<1> SUFFICES ASSUME u.state \in Busy, u'.state \in Busy
             PROVE  /\ StepsLeft' <= StepsLeft
                    /\ Reply \/ Started \/ Exited \/ HostRefuses \/ LoseInstaller
                         => StepsLeft' < StepsLeft
  BY DEF Nearer
<1>1. Reply \/ Started \/ Exited \/ HostRefuses \/ LoseInstaller => StepsLeft' < StepsLeft
  BY ReplyDescends, InstallerDescends
<1>2. StepsLeft \in Nat /\ StepsLeft' \in Nat
  BY StepsLeftFacts, StepsLeftNext
<1>3. CASE u' = u /\ inst' = inst
  BY <1>1, <1>2, <1>3 DEF StepsLeft, InstallerLeft
<1>4. CASE UNCHANGED vars \/ HostStarts \/ HostEnds \/ EarlyExit \/ OtherEnds \/ Publish \/ LoseFile
  BY <1>3, <1>4 DEF vars, host, HostStarts, HostEnds, EarlyExit, OtherEnds, Publish, LoseFile
<1>5. CASE User
  <2>1. u.state \in States /\ (u.state \in DOMAIN Edge("BeginCheck") => u.state = "RestoringPending")
    BY InvFacts, ReduceRetry DEF Busy
  <2>2. Cancel
    BY <1>5, <2>1 DEF User, Busy, Start, CheckNow, MayCheck, Download, InstallReady, RetryCheck,
                      RetryUpdate, RetryRestore, RetryHandOff, RetryReady
  <2>3. u'.state = "Cancelled"
    BY <2>2, CancelKeeps
  <2> QED
    BY <2>3 DEF Busy
<1>6. CASE Restart
  <2>1. u'.state = "Idle"
    BY <1>6, InvFacts, FreshFacts DEF Restart
  <2> QED
    BY <2>1 DEF Busy
<1> QED
  BY <1>1, <1>2, <1>4, <1>5, <1>6 DEF Next, Host

\* Whatever the updater is busy with takes a bounded number of replies: a request or the installer
\* is waited for while it is busy, every reply, failure or timer takes it nearer its end, and no
\* other step takes it back (AutoUpdateChecker::issueRequest, finishReply, FlatpakInstaller::finish).
THEOREM OperationsCountDown == Spec => []Attended /\ [][Nearer]_vars
<1>1. Inv => Attended
  <2> SUFFICES ASSUME Inv, u.state \in Busy PROVE Attended
    BY DEF Attended
  <2>1. CASE u.state = "HandingOff"
    BY <2>1 DEF Inv, HostInv, Attended
  <2>2. CASE u.state # "HandingOff"
    BY <2>2, InvFacts DEF Stage, Attended, Busy, AgainStages
  <2> QED
    BY <2>1, <2>2
<1>2. Inv /\ Inv' /\ [Next]_vars => [Nearer]_vars
  BY NearerStep
<1> QED
  BY <1>1, <1>2, Invariance, PTL DEF Spec

=============================================================================
