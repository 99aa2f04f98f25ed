----------------------- MODULE UpdateRepositoryProofs -----------------------
(***************************************************************************)
(* What UpdateRepository promises, for any number of releases, checks and  *)
(* restarts.  Three facts carry the argument: a check exists while it is   *)
(* the one in flight (InvFlight); until the hydration is over nobody has   *)
(* got past waiting for it (InvStart); and as long as every store was made *)
(* from the snapshot it replaced, the copies that the tasks hold still say *)
(* what the snapshot says (InvSnap).                                       *)
(***************************************************************************)
EXTENDS UpdateRepository, TLAPS, WellFoundedInduction

Fresh(r) == r > installed

Loading == {"exe", "manifest", "signature", "record"}
Pinned == Loading \cup {"verify", "delete", "clear"}

InvFlight ==
    /\ \A j \in Jobs : jobs[j].pc # "none" <=> inFlight = j
    /\ att.pc = "asked" => inFlight # NoJob /\ att.job = inFlight

InvStart ==
    hyd.pc # "done" =>
        /\ snap = Empty
        /\ \A j \in Jobs : jobs[j].pc \in {"none", "queued"}
        /\ att.pc \in {"idle", "asked"}
        /\ hyd.pc = "write" => hyd.prev = Empty

\* What was published as downloaded is whole, and an attempt has the files it wrote
InvFiles ==
    /\ \A r \in kept : Fresh(r) => Whole(r)
    /\ att.pc \in {"manifest", "signature", "record"} => disk[att.rel].exe
    /\ att.pc \in {"signature", "record"} => disk[att.rel].manifest
    /\ att.pc = "record" => disk[att.rel].signature
    /\ hyd.pc = "write" /\ hyd.down # NoRelease => Fresh(hyd.down) /\ Whole(hyd.down)

\* What is found or pinned is newer than what runs
InvFresh ==
    /\ att.pc \in Pinned => Fresh(att.rel)
    /\ \A j \in Jobs : /\ jobs[j].kind = "found" => Fresh(jobs[j].rel)
                       /\ jobs[j].pc \in {"store", "sig"} => jobs[j].kind = "found"

\* The outcome of a check, in the snapshot it ends with: a failure may have been replaced by
\* the download of an attempt, but not while somebody waits for the answer
Told(j, s) ==
    /\ jobs[j].kind = "found" => s.avail = jobs[j].rel
    /\ jobs[j].kind = "failed" => s.last = "failed" \/ (Fresh(s.avail) /\ att.pc # "asked")

CheckInv(j) ==
    /\ jobs[j].pc = "finish" => Told(j, snap)
    /\ jobs[j].pc \in {"publish", "complete"} =>
          /\ Told(j, jobs[j].prev)
          /\ Fresh(jobs[j].prev.avail) => Fresh(snap.avail)
          /\ att.pc = "asked" => snap.down \in {NoRelease, jobs[j].prev.down}
    /\ jobs[j].pc = "complete" => ~snap.checking

InvJobs == \A j \in Jobs : CheckInv(j)

InvAttempt ==
    /\ att.pc = "answered" =>
          /\ snap.down \in {NoRelease, att.prev.down}
          /\ Fresh(att.prev.avail) => Fresh(snap.avail)
    /\ att.pc \in Loading => snap.down # att.rel /\ Fresh(snap.avail)
    /\ att.pc = "verify" => snap.down \in {NoRelease, att.rel}
    /\ att.pc \in {"delete", "clear"} => att.prev.down = snap.down

InvDown ==
    snap.down # NoRelease =>
        /\ Fresh(snap.down)
        /\ disk[snap.down].exe \/ (att.pc = "clear" /\ att.rel = snap.down)

Faithful ==
    /\ InvJobs /\ InvAttempt /\ InvDown
    /\ OnlyDamagedPurged /\ FaithfulAnswer /\ CheckingIsInFlight

InvSnap == ~clobbered => Faithful

Inv ==
    /\ TypeOK /\ InvFlight /\ InvStart /\ InvFiles /\ InvFresh /\ InvSnap
    /\ DurableDownload

-----------------------------------------------------------------------------
(* Releases *)

\* The newest of a set of releases is one of them, and none is newer
LEMMA NewestIs ==
    ASSUME NEW S \in SUBSET Releases, S # {}
    PROVE  /\ Newest(S) \in S
           /\ \A t \in S : t <= Newest(S)
<1> DEFINE T == {NumReleases - r : r \in S}
<1>1. T \subseteq Nat /\ T # {}
  BY RepositoryBounds DEF Releases
<1>2. PICK x \in T : \A y \in T : <<y, x>> \notin OpToRel(<, Nat)
  BY <1>1, NatLessThanWellFounded, WFMin, Zenon
<1>3. \A y \in T : ~(y < x)
  BY <1>1, <1>2 DEF OpToRel
<1>4. PICK r \in S : x = NumReleases - r
  OBVIOUS
<1>5. \A t \in S : t <= r
  BY <1>3, <1>4, RepositoryBounds DEF Releases
<1> QED
  BY <1>5 DEF Newest

LEMMA NewestType ==
    ASSUME NEW S \in SUBSET Releases
    PROVE  Newest(S) \in Slots
<1>1. CASE S = {}
  BY <1>1 DEF Newest, Slots
<1>2. CASE S # {}
  BY <1>2, NewestIs DEF Slots
<1> QED
  BY <1>1, <1>2

\* What is pinned is newer than what runs, and nothing that is on offer was passed over
LEMMA PinTargetIs ==
    ASSUME NEW s \in Snapshots, installed \in Slots
    PROVE  /\ PinTarget(s) \in Slots
           /\ PinTarget(s) # NoRelease => PinTarget(s) \in Releases /\ Fresh(PinTarget(s))
           /\ Fresh(s.avail) => PinTarget(s) = s.avail
           /\ PinTarget(s) = NoRelease \/ PinTarget(s) = s.avail \/ PinTarget(s) = s.down
           /\ ~Fresh(s.avail) => PinTarget(s) = IF Fresh(Downloaded(s)) THEN s.down ELSE NoRelease
<1> USE RepositoryBounds DEF Slots, Releases, NoRelease, Snapshots
<1>1. Downloaded(s) \in {s.down, NoRelease}
  BY DEF Downloaded
<1> QED
  BY <1>1 DEF PinTarget, Fresh

-----------------------------------------------------------------------------
(* The invariant holds at the start *)

LEMMA EmptyType == Empty \in Snapshots /\ NoCheck \in CheckJobs /\ NoAttempt \in Attempts
BY DEF Empty, Snapshots, NoCheck, CheckJobs, CheckKinds, NoAttempt, Attempts, Slots, NoRelease, NoJob

LEMMA InitInv == Init => Inv
<1> SUFFICES ASSUME Init PROVE Inv
  OBVIOUS
<1> USE RepositoryBounds DEF Init
<1>1. TypeOK
  <2>1. hyd \in [pc : {"read", "write", "done"}, avail : Slots, down : Slots, stuck : Slots,
                 prev : Snapshots]
    BY EmptyType DEF Unread, Slots
  <2>2. disk \in [Releases -> [exe : BOOLEAN, manifest : BOOLEAN, signature : BOOLEAN]]
    BY DEF Absent
  <2>3. available \in [manifest : Slots, signature : Slots] /\ installed \in Slots
    BY DEF Slots
  <2>4. restarts \in 0 .. MaxRestarts
    OBVIOUS
  <2>5. jobs \in [Jobs -> CheckJobs] /\ att \in Attempts /\ snap \in Snapshots
    BY EmptyType
  <2> QED
    BY <2>1, <2>2, <2>3, <2>4, <2>5 DEF TypeOK
<1>2. InvFlight
  BY DEF InvFlight, NoCheck, NoAttempt, NoJob, Jobs
<1>3. InvStart
  BY DEF InvStart, NoCheck, NoAttempt, Unread
<1>4. InvFiles
  BY DEF InvFiles, NoAttempt, Unread
<1>5. InvFresh
  BY DEF InvFresh, NoAttempt, NoCheck, Pinned, Loading
<1>6. InvSnap
  <2>1. InvJobs /\ InvDown
    BY DEF InvJobs, CheckInv, InvDown, NoCheck, Empty
  <2>2. InvAttempt
    BY DEF InvAttempt, NoAttempt, Loading
  <2>3. OnlyDamagedPurged /\ FaithfulAnswer /\ CheckingIsInFlight
    BY DEF OnlyDamagedPurged, FaithfulAnswer, CheckingIsInFlight, NoAttempt, Empty
  <2> QED
    BY <2>1, <2>2, <2>3 DEF InvSnap, Faithful
<1>7. DurableDownload
  BY DEF DurableDownload, Unread
<1> QED
  BY <1>1, <1>2, <1>3, <1>4, <1>5, <1>6, <1>7 DEF Inv

-----------------------------------------------------------------------------
(* Types *)

LEMMA RecordedType ==
    ASSUME NEW s \in Snapshots, NEW r \in Slots, NEW kind
    PROVE  Recorded(s, kind, r) \in Snapshots
BY DEF Recorded, Snapshots

LEMMA ToRecordType ==
    ASSUME TypeOK, NEW j \in Jobs, NEW r \in Slots, NEW kind \in CheckKinds, ToRecord(j, kind, r)
    PROVE  jobs' \in [Jobs -> CheckJobs]
<1>1. jobs[j] \in CheckJobs /\ snap \in Snapshots
  BY DEF TypeOK
<1>2. [jobs[j] EXCEPT !.pc = "record", !.kind = kind, !.rel = r, !.prev = snap] \in CheckJobs
  BY <1>1 DEF CheckJobs
<1> QED
  BY <1>1, <1>2 DEF ToRecord, TypeOK

LEMMA RunnerType ==
    ASSUME TypeOK, NEW j \in Jobs, Runner(j)
    PROVE  TypeOK'
<1> USE RepositoryBounds, EmptyType
<1>0. jobs[j] \in CheckJobs /\ snap \in Snapshots /\ jobs[j].prev \in Snapshots /\ jobs[j].rel \in Slots
  BY DEF TypeOK, CheckJobs
<1>1. CASE RunInFlight(j)
  BY <1>0, <1>1 DEF RunInFlight, Others, stored, TypeOK, CheckJobs
<1>2. CASE SetChecking(j)
  <2>1. [jobs[j].prev EXCEPT !.checking = TRUE] \in Snapshots
    BY <1>0 DEF Snapshots
  <2>2. jobs' \in [Jobs -> CheckJobs]
    BY <1>0, <1>2 DEF SetChecking, TypeOK, CheckJobs
  <2> QED
    BY <1>2, <2>1, <2>2 DEF SetChecking, Store, Others, stored, TypeOK
<1>3. CASE Gate(j)
  <2>1. jobs' \in [Jobs -> CheckJobs]
    <3>1. CASE ToRecord(j, "failed", NoRelease)
      BY <3>1, ToRecordType DEF Slots, CheckKinds
    <3>2. ASSUME NEW run \in BOOLEAN,
                 jobs' = [jobs EXCEPT ![j].pc = IF run THEN "fetch" ELSE "finish",
                                      ![j].kind = IF run THEN "open" ELSE "throttled"]
          PROVE  jobs' \in [Jobs -> CheckJobs]
      BY <1>0, <3>2 DEF TypeOK, CheckJobs, CheckKinds
    <3> QED
      BY <1>3, <3>1, <3>2 DEF Gate, Throttle
  <2> QED
    BY <1>3, <2>1 DEF Gate, Others, stored, TypeOK
<1>4. CASE CheckAsync(j)
  <2>1. jobs' \in [Jobs -> CheckJobs]
    <3>1. CASE ToRecord(j, "failed", NoRelease) \/ ToRecord(j, "nothing", NoRelease)
      BY <3>1, ToRecordType DEF Slots, CheckKinds
    <3>2. ASSUME NEW r \in Releases,
                 jobs' = [jobs EXCEPT ![j].pc = "store", ![j].kind = "found", ![j].rel = r]
          PROVE  jobs' \in [Jobs -> CheckJobs]
      BY <1>0, <3>2 DEF TypeOK, CheckJobs, CheckKinds, Slots
    <3> QED
      BY <1>4, <3>1, <3>2 DEF CheckAsync
  <2> QED
    BY <1>4, <2>1 DEF CheckAsync, Others, stored, TypeOK
<1>5. CASE PersistAvailable(j)
  <2>1. jobs' \in [Jobs -> CheckJobs]
    <3>1. CASE ToRecord(j, "failed", NoRelease)
      BY <3>1, ToRecordType DEF Slots, CheckKinds
    <3>2. CASE jobs' = [jobs EXCEPT ![j].pc = "sig"]
      BY <1>0, <3>2 DEF TypeOK, CheckJobs
    <3> QED
      BY <1>5, <3>1, <3>2 DEF PersistAvailable
  <2>2. available' \in [manifest : Slots, signature : Slots]
    BY <1>0, <1>5 DEF PersistAvailable, TypeOK, Slots
  <2> QED
    BY <1>5, <2>1, <2>2 DEF PersistAvailable, Others, TypeOK
<1>6. CASE PersistSignature(j)
  <2>1. jobs' \in [Jobs -> CheckJobs]
    BY <1>0, <1>6, ToRecordType DEF PersistSignature, Slots, CheckKinds
  <2>2. available' \in [manifest : Slots, signature : Slots]
    BY <1>0, <1>6 DEF PersistSignature, TypeOK
  <2> QED
    BY <1>6, <2>1, <2>2 DEF PersistSignature, Others, TypeOK
<1>7. CASE Record(j)
  <2>1. snap' \in Snapshots
    BY <1>0, <1>7, RecordedType DEF Record, Store
  <2>2. jobs' \in [Jobs -> CheckJobs]
    BY <1>0, <1>7 DEF Record, TypeOK, CheckJobs
  <2> QED
    BY <1>7, <2>1, <2>2 DEF Record, Store, Others, stored, TypeOK
<1>8. CASE FinishRead(j)
  BY <1>0, <1>8 DEF FinishRead, Others, stored, TypeOK, CheckJobs
<1>9. CASE FinishWrite(j)
  <2>1. snap' \in Snapshots
    BY <1>0, <1>9 DEF FinishWrite, Store, Final, Snapshots
  <2>2. jobs' \in [Jobs -> CheckJobs]
    BY <1>0, <1>9 DEF FinishWrite, TypeOK, CheckJobs
  <2> QED
    BY <1>9, <2>1, <2>2 DEF FinishWrite, Store, Others, stored, TypeOK
<1>10. CASE Complete(j)
  <2>1. jobs' \in [Jobs -> CheckJobs] /\ inFlight' \in Jobs \cup {NoJob}
    BY <1>10 DEF Complete, TypeOK
  <2>2. Final(j) \in Snapshots
    BY <1>0 DEF Final, Snapshots
  <2>3. att' \in Attempts
    BY <1>0, <1>10, <2>2 DEF Complete, TypeOK, Attempts, CheckJobs
  <2> QED
    BY <1>10, <2>1, <2>3 DEF Complete, stored, TypeOK
<1> QED
  BY <1>1, <1>2, <1>3, <1>4, <1>5, <1>6, <1>7, <1>8, <1>9, <1>10 DEF Runner

LEMMA RequestType ==
    ASSUME TypeOK, NEW j \in Jobs, NEW force \in BOOLEAN, RequestCheck(j, force)
    PROVE  jobs' \in [Jobs -> CheckJobs] /\ inFlight' \in Jobs \cup {NoJob}
<1> DEFINE new == [NoCheck EXCEPT !.pc = "queued", !.force = force]
           b == jobs[j].force \/ force
           old == [jobs[j] EXCEPT !.force = b]
<1>1. new \in CheckJobs
  BY EmptyType DEF CheckJobs
<1>2. old \in CheckJobs
  <2>1. b \in BOOLEAN /\ jobs[j] \in CheckJobs
    BY DEF TypeOK
  <2> HIDE DEF b
  <2> QED
    BY <2>1 DEF CheckJobs
<1>3. jobs' = [jobs EXCEPT ![j] = IF Idle(j) THEN new ELSE old]
  BY DEF RequestCheck
<1> HIDE DEF new, old
<1>4. jobs' \in [Jobs -> CheckJobs]
  BY <1>1, <1>2, <1>3 DEF TypeOK
<1> QED
  BY <1>4 DEF RequestCheck

LEMMA PinType ==
    ASSUME TypeOK, NEW s \in Snapshots, Pin(s)
    PROVE  att' \in Attempts /\ att'.prev = Empty
<1>1. PinTarget(s) \in Slots
  BY PinTargetIs DEF TypeOK
<1> QED
  BY <1>1, EmptyType DEF Pin, Attempts, NoAttempt

LEMMA DeleteType ==
    ASSUME TypeOK, NEW r \in Slots, DeleteDownloaded(r)
    PROVE  /\ disk' \in [Releases -> [exe : BOOLEAN, manifest : BOOLEAN, signature : BOOLEAN]]
           /\ kept' \subseteq Releases
<1> DEFINE Part == [exe : BOOLEAN, manifest : BOOLEAN, signature : BOOLEAN]
<1>1. PICK n \in 0 .. 3 : disk' = [disk EXCEPT ![r] = Remains(disk[r], n)]
  BY DEF DeleteDownloaded
<1>2. Remains(disk[r], n) \in Part
  BY DEF Remains
<1>3. disk \in [Releases -> Part]
  BY DEF TypeOK
<1> HIDE DEF Part
<1>4. disk' \in [Releases -> Part]
  BY <1>1, <1>2, <1>3
<1>5. kept' \subseteq Releases
  BY DEF DeleteDownloaded, TypeOK
<1> QED
  BY <1>4, <1>5 DEF Part

LEMMA AttRelease ==
    ASSUME TypeOK, InvFresh, att.pc \in Pinned
    PROVE  att.rel \in Releases
<1>1. att.rel \in Slots
  BY DEF TypeOK, Attempts
<1> QED
  BY <1>1, RepositoryBounds DEF InvFresh, Fresh, TypeOK, Slots, Releases, NoRelease

LEMMA AttemptType ==
    ASSUME TypeOK, InvFresh, Attempt
    PROVE  TypeOK'
<1> USE RepositoryBounds, EmptyType
<1> DEFINE D == [Releases -> [exe : BOOLEAN, manifest : BOOLEAN, signature : BOOLEAN]]
<1>0. att \in Attempts /\ snap \in Snapshots /\ att.prev \in Snapshots /\ att.rel \in Slots
  BY DEF TypeOK, Attempts
<1>d. disk \in D
  BY DEF TypeOK
<1>1. CASE Click
  <2>1. CASE Pin(snap) /\ UNCHANGED <<inFlight, jobs>>
    BY <1>0, <1>1, <2>1, PinType DEF Click, TypeOK, stored
  <2>2. ASSUME NEW j \in Jobs, RequestCheck(j, TRUE),
               att' = [NoAttempt EXCEPT !.pc = "asked", !.job = j]
        PROVE  TypeOK'
    <3>1. att' \in Attempts
      BY <2>2 DEF Attempts
    <3> QED
      BY <1>1, <2>2, <3>1, RequestType DEF Click, TypeOK, stored
  <2> QED
    BY <1>1, <2>1, <2>2 DEF Click
<1>2. CASE TakeAnswer
  <2>1. att' \in Attempts
    BY <1>0, <1>2, PinType DEF TakeAnswer, End
  <2> QED
    BY <1>2, <2>1 DEF TakeAnswer, TypeOK, Bystanders, stored
<1>3. CASE GiveUp
  BY <1>3 DEF GiveUp, End, TypeOK, Bystanders, stored
<1>4. CASE PersistInstaller
  <2>1. CASE disk' = [disk EXCEPT ![att.rel].exe = TRUE] /\ att' = [att EXCEPT !.pc = "manifest"]
             /\ UNCHANGED kept
    <3>1. disk' \in D
      BY <1>d, <2>1
    <3>2. att' \in Attempts
      BY <1>0, <2>1 DEF Attempts
    <3> QED
      BY <1>4, <2>1, <3>1, <3>2 DEF PersistInstaller, TypeOK, Bystanders
  <2>2. CASE DeleteDownloaded(att.rel) /\ End
    BY <1>0, <1>4, <2>2, DeleteType DEF PersistInstaller, End, TypeOK, Bystanders
  <2> QED
    BY <1>4, <2>1, <2>2 DEF PersistInstaller
<1>5. CASE PersistManifest
  <2>1. CASE disk' = [disk EXCEPT ![att.rel].manifest = TRUE] /\ att' = [att EXCEPT !.pc = "signature"]
             /\ UNCHANGED kept
    <3>1. disk' \in D
      BY <1>d, <2>1
    <3>2. att' \in Attempts
      BY <1>0, <2>1 DEF Attempts
    <3> QED
      BY <1>5, <2>1, <3>1, <3>2 DEF PersistManifest, TypeOK, Bystanders
  <2>2. CASE DeleteDownloaded(att.rel) /\ End
    BY <1>0, <1>5, <2>2, DeleteType DEF PersistManifest, End, TypeOK, Bystanders
  <2> QED
    BY <1>5, <2>1, <2>2 DEF PersistManifest
<1>6. CASE PersistMetadata
  <2>1. CASE disk' = [disk EXCEPT ![att.rel].signature = TRUE]
             /\ att' = [att EXCEPT !.pc = "record", !.prev = snap] /\ UNCHANGED kept
    <3>1. disk' \in D
      BY <1>d, <2>1
    <3>2. att' \in Attempts
      BY <1>0, <2>1 DEF Attempts
    <3> QED
      BY <1>6, <2>1, <3>1, <3>2 DEF PersistMetadata, TypeOK, Bystanders
  <2>2. CASE DeleteDownloaded(att.rel) /\ End
    BY <1>0, <1>6, <2>2, DeleteType DEF PersistMetadata, End, TypeOK, Bystanders
  <2> QED
    BY <1>6, <2>1, <2>2 DEF PersistMetadata
<1>7. CASE RecordDownloaded
  <2>1. snap' \in Snapshots
    BY <1>0, <1>7 DEF RecordDownloaded, Store, Snapshots
  <2>2. att' \in Attempts
    BY <1>0, <1>7 DEF RecordDownloaded, Attempts
  <2>3. att.rel \in Releases
    BY <1>0, <1>7, AttRelease DEF RecordDownloaded, Doing, Pinned, Loading
  <2>4. kept' \subseteq Releases
    BY <1>7, <2>3 DEF RecordDownloaded, TypeOK
  <2> QED
    BY <1>7, <2>1, <2>2, <2>4 DEF RecordDownloaded, Store, TypeOK, Bystanders
<1>8. CASE TryVerify
  <2>1. att' \in Attempts
    BY <1>0, <1>8 DEF TryVerify, Attempts
  <2> QED
    BY <1>8, <2>1 DEF TryVerify, TypeOK, Bystanders, stored
<1>9. CASE ClearFiles
  <2>1. att' \in Attempts
    BY <1>0, <1>9 DEF ClearFiles, Attempts
  <2> QED
    BY <1>0, <1>9, <2>1, DeleteType DEF ClearFiles, TypeOK, Bystanders
<1>10. CASE ClearDownloaded
  <2>1. [att.prev EXCEPT !.down = NoRelease] \in Snapshots
    BY <1>0 DEF Snapshots, Slots
  <2> QED
    BY <1>0, <1>10, <2>1 DEF ClearDownloaded, Store, End, TypeOK, Bystanders, stored
<1> QED
  BY <1>1, <1>2, <1>3, <1>4, <1>5, <1>6, <1>7, <1>8, <1>9, <1>10 DEF Attempt

LEMMA HydratedType ==
    ASSUME TypeOK, NEW found \in Slots, NEW stuck \in Slots
    PROVE  Hydrated(found, stuck) \in [pc : {"read", "write", "done"}, avail : Slots, down : Slots,
                                       stuck : Slots, prev : Snapshots]
BY DEF Hydrated, TypeOK, Slots

LEMMA HydrationType ==
    ASSUME TypeOK, HydrateRead \/ HydrateWrite
    PROVE  TypeOK'
<1> USE RepositoryBounds, EmptyType
<1> DEFINE Part == [exe : BOOLEAN, manifest : BOOLEAN, signature : BOOLEAN]
<1>d. disk \in [Releases -> Part] /\ Absent \in Part
  BY DEF TypeOK, Absent
<1>1. CASE HydrateRead
  <2>1. PICK bad \in SUBSET Releases :
          LET found == Newest({r \in Releases \ bad : Whole(r) /\ r > installed})
              failed == {r \in Releases : Whole(r) /\ r > found}
          IN \E skipped \in SUBSET (bad \cap failed), stuck \in Slots, n \in 0 .. 3 :
               /\ stuck = NoRelease \/ stuck >= found
               /\ n = 0 \/ stuck \in failed \ skipped
               /\ disk' = [r \in Releases |->
                             IF r > stuck /\ r \in failed \ skipped THEN Absent
                             ELSE IF r = stuck THEN Remains(disk[r], n) ELSE disk[r]]
               /\ kept' = kept \ {r \in bad \cap failed : r >= stuck}
               /\ hyd' = Hydrated(found, stuck)
    BY <1>1 DEF HydrateRead
  <2> DEFINE found == Newest({r \in Releases \ bad : Whole(r) /\ r > installed})
             failed == {r \in Releases : Whole(r) /\ r > found}
  <2>2. found \in Slots
    BY NewestType
  <2> HIDE DEF found, failed
  <2>3. PICK skipped \in SUBSET (bad \cap failed), stuck \in Slots, n \in 0 .. 3 :
          /\ stuck = NoRelease \/ stuck >= found
          /\ n = 0 \/ stuck \in failed \ skipped
          /\ disk' = [r \in Releases |->
                        IF r > stuck /\ r \in failed \ skipped THEN Absent
                        ELSE IF r = stuck THEN Remains(disk[r], n) ELSE disk[r]]
          /\ kept' = kept \ {r \in bad \cap failed : r >= stuck}
          /\ hyd' = Hydrated(found, stuck)
    BY <2>1 DEF found, failed
  <2>4. disk' \in [Releases -> Part]
    <3>1. \A r \in Releases : Remains(disk[r], n) \in Part
      BY <1>d DEF Remains
    <3> HIDE DEF Part
    <3> QED
      BY <2>3, <3>1, <1>d
  <2>5. hyd' \in [pc : {"read", "write", "done"}, avail : Slots, down : Slots, stuck : Slots,
                  prev : Snapshots]
    <3>1. stuck \in Slots /\ hyd' = Hydrated(found, stuck)
      BY <2>3
    <3> HIDE DEF Part
    <3> QED
      BY <2>2, <3>1, HydratedType
  <2>6. kept' \subseteq Releases
    BY <2>3 DEF TypeOK
  <2> QED
    BY <1>1, <2>4, <2>5, <2>6 DEF HydrateRead, TypeOK
<1>2. CASE HydrateWrite
  <2>1. snap' \in Snapshots
    BY <1>2 DEF HydrateWrite, Store, TypeOK, Snapshots
  <2>2. hyd' \in [pc : {"read", "write", "done"}, avail : Slots, down : Slots, stuck : Slots,
                  prev : Snapshots]
    BY <1>2 DEF HydrateWrite, Unread, Slots
  <2> QED
    BY <1>2, <2>1, <2>2 DEF HydrateWrite, Store, TypeOK, stored
<1> QED
  BY <1>1, <1>2

LEMMA RestartType ==
    ASSUME TypeOK, Restart
    PROVE  TypeOK'
<1> USE RepositoryBounds, EmptyType DEF Restart
<1>1. hyd' \in [pc : {"read", "write", "done"}, avail : Slots, down : Slots, stuck : Slots,
                prev : Snapshots]
  BY DEF Unread, Slots
<1>2. restarts' \in 0 .. MaxRestarts
  BY DEF TypeOK
<1>3. /\ jobs' \in [Jobs -> CheckJobs] /\ att' \in Attempts /\ snap' \in Snapshots
      /\ inFlight' \in Jobs \cup {NoJob}
  OBVIOUS
<1>4. installed' \in Slots
  OBVIOUS
<1> QED
  BY <1>1, <1>2, <1>3, <1>4 DEF TypeOK

LEMMA TypeStep ==
    ASSUME TypeOK, InvFresh, [Next]_vars
    PROVE  TypeOK'
<1>1. CASE HydrateRead \/ HydrateWrite
  BY <1>1, HydrationType
<1>2. CASE Tick
  BY <1>2, RequestType DEF Tick, stored, TypeOK
<1>3. CASE \E j \in Jobs : Runner(j)
  BY <1>3, RunnerType
<1>4. CASE Attempt
  BY <1>4, AttemptType
<1>5. CASE Shutdown
  BY <1>5 DEF Shutdown, stored, TypeOK
<1>6. CASE Restart
  BY <1>6, RestartType
<1>7. CASE UNCHANGED vars
  BY <1>7 DEF vars, memory, stored, TypeOK
<1> QED
  BY <1>1, <1>2, <1>3, <1>4, <1>5, <1>6, <1>7 DEF Next

-----------------------------------------------------------------------------
(* What the steps leave alone *)

\* A step of a check before its last one changes no other check, and keeps it alive
LEMMA RunnerFrame ==
    ASSUME TypeOK, NEW j \in Jobs, Runner(j), ~Complete(j)
    PROVE  /\ jobs[j].pc # "none" /\ jobs'[j].pc \notin {"none", "queued"}
           /\ jobs[j].pc = "queued" => hyd.pc = "done"
           /\ \A i \in Jobs \ {j} : jobs'[i] = jobs[i]
           /\ UNCHANGED <<Others, disk, kept>>
<1>0. jobs \in [Jobs -> CheckJobs] /\ jobs[j] \in CheckJobs
  BY DEF TypeOK
<1> USE <1>0 DEF At, Others, stored, ToRecord, CheckJobs
<1>1. CASE RunInFlight(j) \/ SetChecking(j)
  BY <1>1 DEF RunInFlight, SetChecking
<1>2. CASE Gate(j)
  <2>1. CASE ToRecord(j, "failed", NoRelease)
    BY <1>2, <2>1 DEF Gate
  <2>2. ASSUME NEW run \in BOOLEAN,
               jobs' = [jobs EXCEPT ![j].pc = IF run THEN "fetch" ELSE "finish",
                                    ![j].kind = IF run THEN "open" ELSE "throttled"]
        PROVE  /\ jobs'[j].pc \in {"fetch", "finish"}
               /\ \A i \in Jobs \ {j} : jobs'[i] = jobs[i]
    BY <2>2
  <2> QED
    BY <1>2, <2>1, <2>2 DEF Gate, Throttle
<1>3. CASE CheckAsync(j)
  BY <1>3 DEF CheckAsync
<1>4. CASE PersistAvailable(j) \/ PersistSignature(j)
  BY <1>4 DEF PersistAvailable, PersistSignature
<1>5. CASE Record(j)
  BY <1>5 DEF Record
<1>6. CASE FinishRead(j) \/ FinishWrite(j)
  BY <1>6 DEF FinishRead, FinishWrite
<1> QED
  BY <1>1, <1>2, <1>3, <1>4, <1>5, <1>6 DEF Runner

\* A request starts the only check there is, or joins it
LEMMA RequestFrame ==
    ASSUME TypeOK, InvFlight, NEW j \in Jobs, NEW force, RequestCheck(j, force)
    PROVE  /\ inFlight' = j
           /\ \A i \in Jobs \ {j} : jobs'[i] = jobs[i]
           /\ \/ /\ jobs[j].pc = "none" /\ inFlight = NoJob
                 /\ jobs'[j].pc = "queued" /\ jobs'[j].kind = "open"
              \/ /\ jobs[j].pc # "none" /\ inFlight = j
                 /\ jobs'[j].pc = jobs[j].pc /\ jobs'[j].kind = jobs[j].kind
                 /\ jobs'[j].rel = jobs[j].rel /\ jobs'[j].prev = jobs[j].prev
<1> DEFINE new == [NoCheck EXCEPT !.pc = "queued", !.force = force]
           old == [jobs[j] EXCEPT !.force = jobs[j].force \/ force]
<1>1. jobs' = [jobs EXCEPT ![j] = IF Idle(j) THEN new ELSE old] /\ inFlight' = j /\ Joined(j)
  BY DEF RequestCheck
<1>2. new.pc = "queued" /\ new.kind = "open"
  BY DEF NoCheck
<1>3. old.pc = jobs[j].pc /\ old.kind = jobs[j].kind /\ old.rel = jobs[j].rel /\ old.prev = jobs[j].prev
  BY DEF TypeOK, CheckJobs
<1> HIDE DEF new, old
<1>4. \A i \in Jobs \ {j} : jobs'[i] = jobs[i]
  BY <1>1 DEF TypeOK
<1>5. jobs'[j] = IF Idle(j) THEN new ELSE old
  BY <1>1 DEF TypeOK
<1>6. CASE inFlight = NoJob
  BY <1>1, <1>2, <1>4, <1>5, <1>6 DEF Joined, Idle
<1>7. CASE inFlight # NoJob
  BY <1>1, <1>3, <1>4, <1>5, <1>7 DEF Joined, Idle, InvFlight
<1> QED
  BY <1>6, <1>7

\* Whoever asks, the check that answers is the one in flight
LEMMA RequestFlight ==
    ASSUME TypeOK, InvFlight, NEW j \in Jobs, NEW force, RequestCheck(j, force)
    PROVE  \A i \in Jobs : jobs'[i].pc # "none" <=> inFlight' = i
<1>1. inFlight' = j /\ jobs'[j].pc # "none" /\ inFlight \in {NoJob, j}
  BY RequestFrame
<1>2. ASSUME NEW i \in Jobs \ {j} PROVE jobs'[i].pc = "none" /\ inFlight' # i
  <2>1. jobs'[i] = jobs[i] /\ inFlight # i
    BY <1>1, <1>2, RequestFrame, RepositoryBounds DEF NoJob, Jobs
  <2>2. jobs[i].pc = "none"
    BY <1>2, <2>1 DEF InvFlight
  <2> QED
    BY <1>1, <1>2, <2>1, <2>2
<1> QED
  BY <1>1, <1>2

LEMMA PinFrame ==
    ASSUME NEW s, Pin(s)
    PROVE  /\ att'.rel = PinTarget(s) /\ att'.job = NoJob
           /\ att'.pc = IF Downloaded(s) = PinTarget(s) THEN "verify" ELSE "exe"
BY DEF Pin, NoAttempt

\* The steps of an attempt but the click
LEMMA AttemptFrame ==
    ASSUME TypeOK, Attempt, ~Click
    PROVE  /\ UNCHANGED <<Bystanders, available>>
           /\ att'.pc # "asked"
           /\ att.pc # "idle"
<1>0. att \in Attempts
  BY DEF TypeOK
<1> USE <1>0 DEF Bystanders, stored, Doing, NoAttempt, End, Attempts
<1>1. CASE TakeAnswer
  BY <1>1, PinFrame DEF TakeAnswer
<1>2. CASE GiveUp
  BY <1>2 DEF GiveUp
<1>3. CASE PersistInstaller
  BY <1>3 DEF PersistInstaller
<1>4. CASE PersistManifest
  BY <1>4 DEF PersistManifest
<1>5. CASE PersistMetadata
  <2>1. CASE att' = [att EXCEPT !.pc = "record", !.prev = snap]
    BY <1>5, <2>1 DEF PersistMetadata
  <2>2. CASE att' = NoAttempt
    BY <1>5, <2>2 DEF PersistMetadata
  <2> QED
    BY <1>5, <2>1, <2>2 DEF PersistMetadata
<1>6. CASE RecordDownloaded
  BY <1>6 DEF RecordDownloaded
<1>7. CASE TryVerify
  BY <1>7 DEF TryVerify
<1>8. CASE ClearFiles
  BY <1>8 DEF ClearFiles
<1>9. CASE ClearDownloaded
  BY <1>9 DEF ClearDownloaded
<1> QED
  BY <1>1, <1>2, <1>3, <1>4, <1>5, <1>6, <1>7, <1>8, <1>9 DEF Attempt

-----------------------------------------------------------------------------
(* A check exists while it is the one in flight *)

LEMMA FlightStep ==
    ASSUME Inv, [Next]_vars
    PROVE  InvFlight'
<1> USE DEF Inv
<1>j. NoJob \notin Jobs /\ jobs \in [Jobs -> CheckJobs]
  BY RepositoryBounds DEF NoJob, Jobs, TypeOK
<1>1. CASE HydrateRead \/ HydrateWrite
  BY <1>1 DEF HydrateRead, HydrateWrite, InvFlight
<1>2. CASE Tick
  <2>1. PICK j \in Jobs : RequestCheck(j, FALSE)
    BY <1>2 DEF Tick
  <2>2. att' = att /\ att.pc = "idle"
    BY <1>2 DEF Tick
  <2>3. \A i \in Jobs : jobs'[i].pc # "none" <=> inFlight' = i
    BY <2>1, RequestFlight
  <2> QED
    BY <2>2, <2>3 DEF InvFlight
<1>3. ASSUME NEW j \in Jobs, Runner(j) PROVE InvFlight'
  <2>1. CASE Complete(j)
    <3>1. /\ jobs' = [jobs EXCEPT ![j] = NoCheck] /\ jobs[j].pc = "complete"
          /\ inFlight' = IF inFlight = j THEN NoJob ELSE inFlight
      BY <2>1 DEF Complete, At
    <3>2. inFlight = j /\ inFlight' = NoJob
      BY <3>1 DEF InvFlight
    <3>3. att'.pc # "asked"
      BY <2>1, <3>2 DEF Complete, InvFlight, TypeOK, Attempts
    <3> QED
      BY <1>j, <3>1, <3>2, <3>3 DEF InvFlight, NoCheck
  <2>2. CASE ~Complete(j)
    BY <1>3, <2>2, RunnerFrame DEF Others, InvFlight
  <2> QED
    BY <2>1, <2>2
<1>4. CASE Attempt
  <2>1. CASE Click
    <3>1. CASE Pin(snap) /\ UNCHANGED <<inFlight, jobs>>
      BY <3>1, PinFrame DEF InvFlight
    <3>2. ASSUME NEW j \in Jobs, RequestCheck(j, TRUE),
                 att' = [NoAttempt EXCEPT !.pc = "asked", !.job = j]
          PROVE  InvFlight'
      <4>1. att'.job = j
        BY <3>2 DEF NoAttempt
      <4>2. inFlight' = j /\ j # NoJob
        BY <1>j, <3>2, RequestFrame
      <4>3. \A i \in Jobs : jobs'[i].pc # "none" <=> inFlight' = i
        BY <3>2, RequestFlight
      <4> QED
        BY <4>1, <4>2, <4>3 DEF InvFlight
    <3> QED
      BY <2>1, <3>1, <3>2 DEF Click
  <2>2. CASE ~Click
    BY <1>4, <2>2, AttemptFrame DEF Bystanders, InvFlight
  <2> QED
    BY <2>1, <2>2
<1>5. CASE Shutdown
  BY <1>5 DEF Shutdown, InvFlight
<1>6. CASE Restart
  BY <1>6, <1>j DEF Restart, InvFlight, NoCheck, NoAttempt
<1>7. CASE UNCHANGED vars
  BY <1>7 DEF vars, memory, InvFlight
<1> QED
  BY <1>1, <1>2, <1>3, <1>4, <1>5, <1>6, <1>7 DEF Next

-----------------------------------------------------------------------------
(* Before the hydration is over nobody writes *)

LEMMA StartStep ==
    ASSUME Inv, [Next]_vars
    PROVE  InvStart'
<1> USE DEF Inv
<1>j. jobs \in [Jobs -> CheckJobs]
  BY DEF TypeOK
<1>1. CASE HydrateRead
  <2>1. PICK found, stuck : hyd' = Hydrated(found, stuck)
    BY <1>1 DEF HydrateRead
  <2> QED
    BY <1>1, <2>1 DEF HydrateRead, Hydrated, InvStart
<1>2. CASE HydrateWrite
  BY <1>2 DEF HydrateWrite, Unread, InvStart
<1>3. CASE Tick
  <2>1. PICK j \in Jobs : RequestCheck(j, FALSE)
    BY <1>3 DEF Tick
  <2> QED
    BY <1>j, <1>3, <2>1, RequestFrame DEF Tick, InvStart
<1>4. ASSUME NEW j \in Jobs, Runner(j) PROVE InvStart'
  <2>1. hyd.pc = "done" /\ hyd' = hyd
    <3>1. CASE Complete(j)
      BY <3>1 DEF Complete, At, InvStart
    <3>2. CASE ~Complete(j)
      BY <1>4, <3>2, RunnerFrame DEF Others, InvStart
    <3> QED
      BY <3>1, <3>2
  <2> QED
    BY <2>1 DEF InvStart
<1>5. CASE Attempt
  <2>1. CASE Click
    <3>1. CASE PinTarget(snap) # NoRelease
      <4>1. snap = Empty => PinTarget(snap) = NoRelease
        BY RepositoryBounds DEF PinTarget, Downloaded, Empty, NoRelease, TypeOK, Slots, Releases
      <4> QED
        BY <2>1, <3>1, <4>1 DEF Click, InvStart
    <3>2. ASSUME NEW j \in Jobs, RequestCheck(j, TRUE),
                 att' = [NoAttempt EXCEPT !.pc = "asked", !.job = j]
          PROVE  InvStart'
      <4>1. att'.pc = "asked"
        BY <3>2 DEF NoAttempt
      <4> QED
        BY <1>j, <2>1, <3>2, <4>1, RequestFrame DEF Click, InvStart
    <3> QED
      BY <2>1, <3>1, <3>2 DEF Click
  <2>2. CASE GiveUp
    BY <2>2 DEF GiveUp, End, NoAttempt, Bystanders, InvStart
  <2>3. CASE ~Click /\ ~GiveUp
    <3>1. att.pc \notin {"idle", "asked"}
      BY <1>5, <2>3 DEF Attempt, TakeAnswer, PersistInstaller, PersistManifest, PersistMetadata,
                        RecordDownloaded, TryVerify, ClearFiles, ClearDownloaded, Doing
    <3> QED
      BY <1>5, <2>3, <3>1, AttemptFrame DEF Bystanders, InvStart
  <2> QED
    BY <2>1, <2>2, <2>3
<1>6. CASE Shutdown
  BY <1>6 DEF Shutdown, InvStart
<1>7. CASE Restart
  BY <1>7, <1>j DEF Restart, InvStart, NoCheck, NoAttempt, Unread
<1>8. CASE UNCHANGED vars
  BY <1>8 DEF vars, memory, InvStart
<1> QED
  BY <1>1, <1>2, <1>3, <1>4, <1>5, <1>6, <1>7, <1>8 DEF Next

-----------------------------------------------------------------------------
(* What is found or pinned is newer than what runs *)

LEMMA RunnerFresh ==
    ASSUME Inv, NEW j \in Jobs, Runner(j)
    PROVE  InvFresh'
<1> USE DEF Inv
<1>0. jobs \in [Jobs -> CheckJobs] /\ jobs[j] \in CheckJobs
  BY DEF TypeOK
<1> USE <1>0 DEF At, Others, CheckJobs
<1>1. CASE Complete(j)
  <2>1. (att'.pc = att.pc /\ att'.rel = att.rel) \/ att'.pc = "answered"
    BY <1>1 DEF Complete, TypeOK, Attempts
  <2> QED
    BY <1>1, <2>1 DEF Complete, InvFresh, NoCheck, Fresh, Pinned, Loading
<1>2. CASE ~Complete(j)
  <2> DEFINE Good == /\ jobs'[j].kind = "found" => jobs'[j].rel > installed
                     /\ jobs'[j].pc \in {"store", "sig"} => jobs'[j].kind = "found"
  <2>f. /\ jobs[j].kind = "found" => jobs[j].rel > installed
        /\ jobs[j].pc \in {"store", "sig"} => jobs[j].kind = "found"
    BY DEF InvFresh, Fresh
  <2>1. Good
    <3>1. CASE RunInFlight(j)
      BY <3>1, <2>f DEF RunInFlight
    <3>2. CASE SetChecking(j)
      BY <3>2, <2>f DEF SetChecking
    <3>3. CASE Gate(j)
      <4>1. CASE ToRecord(j, "failed", NoRelease)
        BY <3>3, <4>1 DEF ToRecord
      <4>2. ASSUME NEW run \in BOOLEAN,
                   jobs' = [jobs EXCEPT ![j].pc = IF run THEN "fetch" ELSE "finish",
                                        ![j].kind = IF run THEN "open" ELSE "throttled"]
            PROVE  Good
        BY <4>2
      <4> QED
        BY <3>3, <4>1, <4>2 DEF Gate, Throttle
    <3>4. CASE CheckAsync(j)
      BY <3>4 DEF CheckAsync, ToRecord
    <3>5. CASE PersistAvailable(j)
      BY <3>5, <2>f DEF PersistAvailable, ToRecord
    <3>6. CASE PersistSignature(j)
      BY <3>6, <2>f DEF PersistSignature, ToRecord
    <3>7. CASE Record(j)
      BY <3>7, <2>f DEF Record
    <3>8. CASE FinishRead(j)
      BY <3>8, <2>f DEF FinishRead
    <3>9. CASE FinishWrite(j)
      BY <3>9, <2>f DEF FinishWrite
    <3> QED
      BY <1>2, <3>1, <3>2, <3>3, <3>4, <3>5, <3>6, <3>7, <3>8, <3>9 DEF Runner
  <2> QED
    BY <1>2, <2>1, RunnerFrame DEF InvFresh, Fresh
<1> QED
  BY <1>1, <1>2

LEMMA FreshStep ==
    ASSUME Inv, [Next]_vars
    PROVE  InvFresh'
<1> USE DEF Inv
<1>j. jobs \in [Jobs -> CheckJobs] /\ snap \in Snapshots /\ att.prev \in Snapshots /\ att \in Attempts
  BY DEF TypeOK, Attempts
<1>1. CASE HydrateRead \/ HydrateWrite
  BY <1>1 DEF HydrateRead, HydrateWrite, InvFresh, Fresh
<1>2. CASE Tick
  <2>1. PICK j \in Jobs : RequestCheck(j, FALSE)
    BY <1>2 DEF Tick
  <2>2. /\ UNCHANGED <<snap, hyd, att, installed>>
        /\ att.pc = "idle"
    BY <1>2 DEF Tick
  <2>3. \A i \in Jobs \ {j} : jobs'[i] = jobs[i]
    BY <2>1, RequestFrame
  <2>4. \/ jobs'[j].pc = "queued" /\ jobs'[j].kind = "open"
        \/ /\ jobs'[j].pc = jobs[j].pc /\ jobs'[j].kind = jobs[j].kind
           /\ jobs'[j].rel = jobs[j].rel /\ jobs'[j].prev = jobs[j].prev
    BY <2>1, RequestFrame
  <2> QED
    BY <1>j, <2>1, <2>2, <2>3, <2>4 DEF InvFresh, Fresh
<1>3. CASE \E j \in Jobs : Runner(j)
  BY <1>3, RunnerFresh
<1>4. CASE Attempt
  <2>1. CASE Click
    <3>1. CASE Pin(snap) /\ PinTarget(snap) # NoRelease /\ UNCHANGED <<inFlight, jobs>>
      BY <1>j, <2>1, <3>1, PinFrame, PinTargetIs DEF Click, InvFresh, Fresh, TypeOK
    <3>2. ASSUME NEW j \in Jobs, RequestCheck(j, TRUE),
                 att' = [NoAttempt EXCEPT !.pc = "asked", !.job = j]
          PROVE  InvFresh'
      <4>1. att'.pc = "asked"
        BY <3>2 DEF NoAttempt
      <4>2. \A i \in Jobs :
              /\ jobs'[i].kind = "found" => jobs'[i].rel > installed
              /\ jobs'[i].pc \in {"store", "sig"} => jobs'[i].kind = "found"
        <5>1. ASSUME NEW i \in Jobs, i # j PROVE jobs'[i] = jobs[i]
          BY <1>j, <3>2, <5>1, RequestFrame
        <5>2. \/ jobs'[j].pc = "queued" /\ jobs'[j].kind = "open"
              \/ /\ jobs'[j].pc = jobs[j].pc /\ jobs'[j].kind = jobs[j].kind
                 /\ jobs'[j].rel = jobs[j].rel
          BY <1>j, <3>2, RequestFrame
        <5> QED
          BY <5>1, <5>2 DEF InvFresh, Fresh
      <4>3. installed' = installed
        BY <2>1, Zenon DEF Click
      <4> QED
        BY <4>1, <4>2, <4>3 DEF InvFresh, Fresh, Pinned, Loading
    <3> QED
      BY <2>1, <3>1, <3>2 DEF Click
  <2>2. CASE ~Click
    <3>1. att'.pc \in Pinned => att'.rel > installed
      <4>1. CASE TakeAnswer
        BY <1>j, <4>1, PinFrame, PinTargetIs
        DEF TakeAnswer, End, NoAttempt, Pinned, Loading, Fresh, TypeOK
      <4>2. CASE GiveUp \/ ClearDownloaded
        BY <4>2 DEF GiveUp, ClearDownloaded, End, NoAttempt, Pinned, Loading
      <4>3. CASE ~TakeAnswer /\ ~GiveUp /\ ~ClearDownloaded
        <5>1. att.pc \in Pinned
          BY <1>4, <2>2, <4>3 DEF Attempt, PersistInstaller, PersistManifest, PersistMetadata,
                        RecordDownloaded, TryVerify, ClearFiles, Doing, Pinned, Loading
        <5>2. att'.rel = att.rel \/ att' = NoAttempt
          <6> USE <1>j DEF End, Attempts
          <6>1. CASE PersistInstaller \/ PersistManifest
            BY <6>1 DEF PersistInstaller, PersistManifest
          <6>2. CASE PersistMetadata
            BY <6>2 DEF PersistMetadata
          <6>3. CASE RecordDownloaded
            BY <6>3 DEF RecordDownloaded
          <6>4. CASE TryVerify
            BY <6>4 DEF TryVerify
          <6>5. CASE ClearFiles
            BY <6>5 DEF ClearFiles
          <6> QED
            BY <1>4, <2>2, <4>3, <6>1, <6>2, <6>3, <6>4, <6>5 DEF Attempt
        <5> QED
          BY <5>1, <5>2 DEF InvFresh, Fresh, NoAttempt, Pinned, Loading
      <4> QED
        BY <4>1, <4>2, <4>3
    <3> QED
      BY <1>4, <2>2, <3>1, AttemptFrame DEF Bystanders, InvFresh, Fresh
  <2> QED
    BY <2>1, <2>2
<1>5. CASE Shutdown
  BY <1>5 DEF Shutdown, InvFresh, Fresh
<1>6. CASE Restart
  BY <1>6, <1>j DEF Restart, InvFresh, NoCheck, NoAttempt, Pinned, Loading
<1>7. CASE UNCHANGED vars
  BY <1>7 DEF vars, memory, InvFresh, Fresh
<1> QED
  BY <1>1, <1>2, <1>3, <1>4, <1>5, <1>6, <1>7 DEF Next

-----------------------------------------------------------------------------
(* The files of what was published as downloaded *)

LEMMA DeleteFrame ==
    ASSUME TypeOK, NEW r \in Releases, DeleteDownloaded(r)
    PROVE  /\ kept' = kept \ {r}
           /\ \A t \in Releases \ {r} : disk'[t] = disk[t]
BY DEF DeleteDownloaded, TypeOK

LEMMA HydrationFiles ==
    ASSUME Inv, HydrateRead
    PROVE  InvFiles' /\ DurableDownload'
<1> USE DEF Inv
<1>1. PICK bad \in SUBSET Releases :
        LET found == Newest({r \in Releases \ bad : Whole(r) /\ r > installed})
            failed == {r \in Releases : Whole(r) /\ r > found}
        IN \E skipped \in SUBSET (bad \cap failed), stuck \in Slots, n \in 0 .. 3 :
             /\ stuck = NoRelease \/ stuck >= found
             /\ n = 0 \/ stuck \in failed \ skipped
             /\ disk' = [r \in Releases |->
                           IF r > stuck /\ r \in failed \ skipped THEN Absent
                           ELSE IF r = stuck THEN Remains(disk[r], n) ELSE disk[r]]
             /\ kept' = kept \ {r \in bad \cap failed : r >= stuck}
             /\ hyd' = Hydrated(found, stuck)
  BY DEF HydrateRead
<1> DEFINE holds == {r \in Releases \ bad : Whole(r) /\ r > installed}
           found == Newest(holds)
           failed == {r \in Releases : Whole(r) /\ r > found}
<1>2. installed' = installed /\ att' = att /\ att.pc \in {"idle", "asked"} /\ installed \in Slots
      /\ kept \subseteq Releases
  BY DEF HydrateRead, InvStart, TypeOK
<1>3. \A r \in holds : r <= found
  <2>1. CASE holds = {}
    BY <2>1
  <2>2. CASE holds # {}
    BY <2>2, NewestIs
  <2> QED
    BY <2>1, <2>2
<1>4. found # NoRelease => found \in holds
  <2>1. CASE holds = {}
    <3>1. Newest({}) = NoRelease
      BY DEF Newest
    <3> HIDE DEF holds
    <3> QED
      BY <2>1, <3>1
  <2>2. CASE holds # {}
    BY <2>2, NewestIs
  <2> QED
    BY <2>1, <2>2
<1>5. found \in Slots
  BY NewestType
<1> HIDE DEF found
<1>6. PICK skipped \in SUBSET (bad \cap failed), stuck \in Slots, n \in 0 .. 3 :
        /\ stuck = NoRelease \/ stuck >= found
        /\ n = 0 \/ stuck \in failed \ skipped
        /\ disk' = [r \in Releases |->
                      IF r > stuck /\ r \in failed \ skipped THEN Absent
                      ELSE IF r = stuck THEN Remains(disk[r], n) ELSE disk[r]]
        /\ kept' = kept \ {r \in bad \cap failed : r >= stuck}
        /\ hyd' = Hydrated(found, stuck)
  BY <1>1 DEF found
<1>7. disk \in [Releases -> [exe : BOOLEAN, manifest : BOOLEAN, signature : BOOLEAN]]
  BY DEF TypeOK
\* What was looked at and held, or not looked at, is left as it was
<1>8. ASSUME NEW r \in Releases, r \notin failed \/ r < stuck
      PROVE  disk'[r] = disk[r]
  <2>1. CASE r = stuck
    <3>1. n = 0
      BY <1>6, <1>8, <2>1 DEF Slots, Releases
    <3>2. Remains(disk[r], 0) = disk[r]
      BY <1>7 DEF Remains
    <3> QED
      BY <1>6, <2>1, <3>1, <3>2 DEF Releases
  <2>2. CASE r # stuck
    <3>1. ~(r > stuck /\ r \in failed \ skipped)
      BY <1>8, RepositoryBounds DEF Slots, Releases, NoRelease
    <3> QED
      BY <1>6, <2>2, <3>1
  <2> QED
    BY <2>1, <2>2
<1>9. ASSUME NEW r \in kept', r > installed
      PROVE  Whole(r)' /\ (r <= found \/ r < stuck)
  <2>1. r \in Releases /\ Whole(r) /\ (r \in failed => r \notin bad \/ ~(r >= stuck))
    BY <1>2, <1>6, <1>9 DEF InvFiles, Fresh
  <2>2. r \notin bad => r <= found
    BY <1>3, <1>9, <2>1
  <2>3. r <= found \/ r < stuck
    BY <1>5, <2>1, <2>2, RepositoryBounds DEF Slots, Releases, NoRelease
  <2>4. r \notin failed \/ r < stuck
    BY <1>5, <2>3, <2>1, RepositoryBounds DEF Slots, Releases, NoRelease
  <2> QED
    BY <1>8, <2>1, <2>3, <2>4 DEF Whole
<1>10. hyd'.pc = "write" /\ hyd'.stuck = stuck
       /\ hyd'.down = IF stuck = NoRelease THEN found ELSE NoRelease
  BY <1>6 DEF Hydrated
<1>11. InvFiles'
  <2>1. ASSUME NEW r \in Slots, r = found, r # NoRelease
        PROVE  Fresh(r)' /\ Whole(r)'
    <3>1. r \in Releases /\ Whole(r) /\ r > installed
      BY <1>4, <2>1
    <3>2. r \notin failed
      BY <2>1, <3>1, RepositoryBounds DEF Releases
    <3> QED
      BY <1>2, <1>8, <3>1, <3>2 DEF Whole, Fresh
  <2> QED
    BY <1>2, <1>5, <1>9, <1>10, <2>1 DEF InvFiles, Fresh
<1>12. DurableDownload'
  <2>1. ASSUME NEW r \in kept', r > installed'
        PROVE  Whole(r)' /\ (hyd'.down >= r \/ hyd'.stuck >= r)
    <3>1. r \in Releases
      BY <1>2, <1>6
    <3>2. Whole(r)' /\ (r <= found \/ r < stuck)
      BY <1>2, <1>9, <2>1
    <3>3. CASE stuck = NoRelease
      BY <1>5, <1>10, <3>1, <3>2, <3>3, RepositoryBounds DEF Slots, Releases, NoRelease
    <3>4. CASE stuck # NoRelease
      BY <1>5, <1>6, <1>10, <3>1, <3>2, <3>4, RepositoryBounds DEF Slots, Releases, NoRelease
    <3> QED
      BY <3>2, <3>3, <3>4
  <2> QED
    BY <2>1 DEF DurableDownload
<1> QED
  BY <1>11, <1>12

\* The steps of an attempt once it has pinned an update
LEMMA AttemptFiles ==
    ASSUME Inv, Attempt, ~Click
    PROVE  InvFiles' /\ DurableDownload'
<1> USE DEF Inv
<1> DEFINE Kept == \A r \in kept' : r > installed => Whole(r)'
           Parts == /\ att'.pc \in {"manifest", "signature", "record"} => disk'[att'.rel].exe
                    /\ att'.pc \in {"signature", "record"} => disk'[att'.rel].manifest
                    /\ att'.pc = "record" => disk'[att'.rel].signature
<1>0. /\ att \in Attempts /\ kept \subseteq Releases
      /\ disk \in [Releases -> [exe : BOOLEAN, manifest : BOOLEAN, signature : BOOLEAN]]
  BY DEF TypeOK
<1>f. /\ \A r \in kept : r > installed => Whole(r)
      /\ att.pc \in {"manifest", "signature", "record"} => disk[att.rel].exe
      /\ att.pc \in {"signature", "record"} => disk[att.rel].manifest
      /\ att.pc = "record" => disk[att.rel].signature
  BY DEF InvFiles, Fresh
<1>1. UNCHANGED <<hyd, installed>> /\ (att.pc = "asked" \/ hyd.pc = "done")
  BY AttemptFrame DEF Bystanders, InvStart
<1>d. ASSUME NEW r \in Releases, DeleteDownloaded(r) PROVE Kept
  BY <1>0, <1>d, <1>f, DeleteFrame DEF Whole
<1>r. att.pc \in Pinned => att.rel \in Releases
  BY AttRelease
<1>2. Kept /\ Parts
  <2> USE <1>0, <1>f, <1>r DEF Attempts, Pinned, Loading, Doing
  <2>1. CASE TakeAnswer
    <3>1. att'.pc \in {"exe", "verify", "idle"} /\ disk' = disk /\ kept' = kept
      BY <2>1, PinFrame DEF TakeAnswer, End, NoAttempt, stored
    <3> QED
      BY <3>1 DEF Whole
  <2>2. CASE GiveUp
    BY <2>2 DEF GiveUp, End, NoAttempt, stored, Whole
  <2>3. CASE PersistInstaller
    <3>1. CASE DeleteDownloaded(att.rel) /\ End
      BY <1>d, <2>3, <3>1 DEF PersistInstaller, End, NoAttempt
    <3>2. CASE disk' = [disk EXCEPT ![att.rel].exe = TRUE] /\ att' = [att EXCEPT !.pc = "manifest"]
               /\ UNCHANGED kept
      BY <2>3, <3>2 DEF PersistInstaller, Whole
    <3> QED
      BY <2>3, <3>1, <3>2 DEF PersistInstaller
  <2>4. CASE PersistManifest
    <3>1. CASE DeleteDownloaded(att.rel) /\ End
      BY <1>d, <2>4, <3>1 DEF PersistManifest, End, NoAttempt
    <3>2. CASE disk' = [disk EXCEPT ![att.rel].manifest = TRUE]
               /\ att' = [att EXCEPT !.pc = "signature"] /\ UNCHANGED kept
      BY <2>4, <3>2 DEF PersistManifest, Whole
    <3> QED
      BY <2>4, <3>1, <3>2 DEF PersistManifest
  <2>5. CASE PersistMetadata
    <3>1. CASE DeleteDownloaded(att.rel) /\ End
      BY <1>d, <2>5, <3>1 DEF PersistMetadata, End, NoAttempt
    <3>2. CASE disk' = [disk EXCEPT ![att.rel].signature = TRUE]
               /\ att' = [att EXCEPT !.pc = "record", !.prev = snap] /\ UNCHANGED kept
      BY <2>5, <3>2 DEF PersistMetadata, Whole
    <3> QED
      BY <2>5, <3>1, <3>2 DEF PersistMetadata
  <2>6. CASE RecordDownloaded
    <3>1. att'.pc = "verify" /\ disk' = disk /\ kept' = kept \cup {att.rel} /\ Whole(att.rel)
      BY <2>6 DEF RecordDownloaded, Whole
    <3> QED
      BY <3>1 DEF Whole
  <2>7. CASE TryVerify
    <3>1. att'.pc = "delete" /\ disk' = disk /\ kept' = kept
      BY <2>7 DEF TryVerify, stored
    <3> QED
      BY <3>1 DEF Whole
  <2>8. CASE ClearFiles
    BY <1>d, <2>8 DEF ClearFiles
  <2>9. CASE ClearDownloaded
    BY <2>9 DEF ClearDownloaded, End, NoAttempt, stored, Whole
  <2> QED
    BY <2>1, <2>2, <2>3, <2>4, <2>5, <2>6, <2>7, <2>8, <2>9 DEF Attempt
<1>3. hyd.pc = "write" => disk' = disk /\ kept' = kept
  <2>1. hyd.pc = "write" => GiveUp
    BY <1>1, AttemptFrame
    DEF Attempt, InvStart, TakeAnswer, PersistInstaller, PersistManifest, PersistMetadata,
        RecordDownloaded, TryVerify, ClearFiles, ClearDownloaded, Doing
  <2> QED
    BY <2>1 DEF GiveUp, stored
<1> QED
  BY <1>1, <1>2, <1>3 DEF InvFiles, DurableDownload, Fresh, Whole

LEMMA FilesStep ==
    ASSUME Inv, [Next]_vars
    PROVE  InvFiles' /\ DurableDownload'
<1> USE DEF Inv
<1>1. CASE HydrateRead
  BY <1>1, HydrationFiles
<1>2. CASE HydrateWrite
  BY <1>2 DEF HydrateWrite, Unread, stored, InvFiles, DurableDownload, Fresh, Whole
<1>3. CASE Tick
  BY <1>3 DEF Tick, stored, InvFiles, DurableDownload, Fresh, Whole
<1>4. ASSUME NEW j \in Jobs, Runner(j) PROVE InvFiles' /\ DurableDownload'
  <2>1. CASE Complete(j)
    <3>1. att' = att \/ att'.pc = "answered"
      BY <2>1 DEF Complete, TypeOK, Attempts
    <3> QED
      BY <2>1, <3>1 DEF Complete, stored, InvFiles, DurableDownload, Fresh, Whole
  <2>2. CASE ~Complete(j)
    BY <1>4, <2>2, RunnerFrame DEF Others, InvFiles, DurableDownload, Fresh, Whole
  <2> QED
    BY <2>1, <2>2
<1>5. CASE Attempt
  <2>1. CASE Click
    <3>1. att'.pc \in {"exe", "verify", "asked"}
      BY <2>1, PinFrame DEF Click, NoAttempt
    <3> QED
      BY <2>1, <3>1 DEF Click, stored, InvFiles, DurableDownload, Fresh, Whole
  <2> QED
    BY <1>5, <2>1, AttemptFiles
<1>6. CASE Shutdown
  BY <1>6 DEF Shutdown, stored, InvFiles, DurableDownload, Fresh, Whole
<1>7. CASE Restart
  <2>1. installed' >= installed /\ installed \in Int /\ installed' \in Int /\ kept \subseteq Int
    BY <1>7, RepositoryBounds DEF Restart, TypeOK, Slots, Releases, NoRelease
  <2>2. hyd'.pc = "read" /\ att'.pc = "idle"
    BY <1>7 DEF Restart, Unread, NoAttempt
  <2> QED
    BY <1>7, <2>1, <2>2 DEF Restart, InvFiles, DurableDownload, Fresh, Whole
<1>8. CASE UNCHANGED vars
  BY <1>8 DEF vars, memory, stored, InvFiles, DurableDownload, Fresh, Whole
<1> QED
  BY <1>1, <1>2, <1>3, <1>4, <1>5, <1>6, <1>7, <1>8 DEF Next

-----------------------------------------------------------------------------
(* What the snapshot and its copies say, while every store was made from the *)
(* snapshot it replaced                                                      *)

LEMMA OnlyCheck ==
    ASSUME Inv, NEW j \in Jobs, jobs[j].pc # "none"
    PROVE  inFlight = j /\ inFlight # NoJob /\ \A i \in Jobs \ {j} : jobs[i].pc = "none"
BY RepositoryBounds DEF Inv, InvFlight, Jobs, NoJob

\* A check leaves the downloaded release alone, and what it puts on offer is newer
LEMMA RunnerFaithful ==
    ASSUME Inv, Faithful, NEW j \in Jobs, Runner(j), ~Complete(j), ~clobbered'
    PROVE  Faithful'
<1> USE DEF Inv
<1> DEFINE Same == snap'.down = snap.down /\ (snap.avail > installed => snap'.avail > installed)
<1>0. /\ jobs \in [Jobs -> CheckJobs] /\ jobs[j] \in CheckJobs
      /\ snap \in Snapshots /\ jobs[j].prev \in Snapshots
  BY DEF TypeOK, CheckJobs
<1>1. /\ inFlight' = inFlight /\ att' = att /\ installed' = installed /\ disk' = disk
      /\ \A i \in Jobs \ {j} : jobs'[i] = jobs[i]
      /\ jobs[j].pc # "none"
  BY RunnerFrame DEF Others
<1>2. CheckInv(j)
  BY DEF Faithful, InvJobs
<1>3. Same /\ CheckInv(j)'
  <2> USE <1>0, <1>1, <1>2 DEF CheckInv, Told, Fresh, At, CheckJobs
  <2>1. CASE RunInFlight(j)
    BY <2>1 DEF RunInFlight
  <2>2. CASE SetChecking(j)
    <3>1. snap' = [snap EXCEPT !.checking = TRUE]
      BY <2>2 DEF SetChecking, Store
    <3>2. jobs'[j].pc = "gate"
      BY <2>2 DEF SetChecking
    <3> QED
      BY <3>1, <3>2 DEF Snapshots
  <2>3. CASE Gate(j)
    <3>1. CASE ToRecord(j, "failed", NoRelease)
      BY <2>3, <3>1 DEF Gate, ToRecord
    <3>2. ASSUME NEW run \in BOOLEAN,
                 jobs' = [jobs EXCEPT ![j].pc = IF run THEN "fetch" ELSE "finish",
                                      ![j].kind = IF run THEN "open" ELSE "throttled"]
          PROVE  CheckInv(j)'
      BY <3>2
    <3> QED
      BY <2>3, <3>1, <3>2 DEF Gate, Throttle
  <2>4. CASE CheckAsync(j)
    <3>1. jobs'[j].pc \in {"record", "store"}
      BY <2>4 DEF CheckAsync, ToRecord
    <3> QED
      BY <2>4, <3>1 DEF CheckAsync
  <2>5. CASE PersistAvailable(j)
    <3>1. jobs'[j].pc \in {"record", "sig"}
      BY <2>5 DEF PersistAvailable, ToRecord
    <3> QED
      BY <2>5, <3>1 DEF PersistAvailable
  <2>6. CASE PersistSignature(j)
    <3>1. jobs'[j].pc = "record"
      BY <2>6 DEF PersistSignature, ToRecord
    <3> QED
      BY <2>6, <3>1 DEF PersistSignature
  <2>7. CASE Record(j)
    <3>1. snap' = Recorded(snap, jobs[j].kind, jobs[j].rel)
      BY <2>7 DEF Record, Store
    <3>2. jobs'[j].pc = "finish" /\ jobs'[j].kind = jobs[j].kind /\ jobs'[j].rel = jobs[j].rel
      BY <2>7 DEF Record
    <3>3. /\ snap'.down = snap.down
          /\ snap'.avail = IF jobs[j].kind = "found" THEN jobs[j].rel ELSE snap.avail
          /\ jobs[j].kind = "failed" => snap'.last = "failed"
      BY <3>1 DEF Recorded, Snapshots
    <3> QED
      BY <3>2, <3>3 DEF InvFresh
  <2>8. CASE FinishRead(j)
    <3>1. /\ snap' = snap /\ jobs'[j].pc = "publish" /\ jobs'[j].prev = snap
          /\ jobs'[j].kind = jobs[j].kind /\ jobs'[j].rel = jobs[j].rel /\ jobs[j].pc = "finish"
      BY <2>8 DEF FinishRead
    <3> QED
      BY <3>1
  <2>9. CASE FinishWrite(j)
    <3>1. snap' = [snap EXCEPT !.checking = FALSE]
      BY <2>9 DEF FinishWrite, Store, Final
    <3>2. /\ jobs'[j].pc = "complete" /\ jobs'[j].prev = jobs[j].prev /\ jobs[j].pc = "publish"
          /\ jobs'[j].kind = jobs[j].kind /\ jobs'[j].rel = jobs[j].rel
      BY <2>9 DEF FinishWrite
    <3> QED
      BY <3>1, <3>2 DEF Snapshots
  <2> QED
    BY <2>1, <2>2, <2>3, <2>4, <2>5, <2>6, <2>7, <2>8, <2>9 DEF Runner
<1>4. InvJobs'
  BY <1>1, <1>3, OnlyCheck DEF InvJobs, CheckInv
<1>5. InvAttempt'
  BY <1>1, <1>3 DEF Faithful, InvAttempt, Fresh
<1>6. InvDown'
  BY <1>1, <1>3 DEF Faithful, InvDown, Fresh
<1>7. OnlyDamagedPurged' /\ FaithfulAnswer' /\ CheckingIsInFlight'
  BY <1>1, OnlyCheck DEF Faithful, OnlyDamagedPurged, FaithfulAnswer, CheckingIsInFlight
<1> QED
  BY <1>4, <1>5, <1>6, <1>7 DEF Faithful

\* Whoever waits for a check is answered with its outcome
LEMMA CompleteFaithful ==
    ASSUME Inv, Faithful, NEW j \in Jobs, Complete(j)
    PROVE  Faithful'
<1> USE DEF Inv
<1>0. /\ jobs \in [Jobs -> CheckJobs] /\ jobs[j].prev \in Snapshots /\ att \in Attempts
      /\ jobs[j].pc = "complete"
  BY DEF TypeOK, CheckJobs, Complete, At
<1>1. snap' = snap /\ installed' = installed /\ disk' = disk /\ jobs' = [jobs EXCEPT ![j] = NoCheck]
  BY DEF Complete, stored
<1>2. ~snap.checking /\ CheckInv(j)
  BY <1>0 DEF Faithful, InvJobs, CheckInv
<1>3. InvJobs'
  <2>1. \A i \in Jobs : jobs'[i].pc = "none"
    BY <1>0, <1>1, OnlyCheck DEF NoCheck
  <2> QED
    BY <2>1 DEF InvJobs, CheckInv
<1>4. CheckingIsInFlight'
  BY <1>1, <1>2 DEF CheckingIsInFlight
<1>5. CASE att.pc = "asked" /\ att.job = j
  <2>1. /\ att'.pc = "answered" /\ att'.prev = Final(j)
        /\ att'.kind = jobs[j].kind /\ att'.rel = jobs[j].rel
    BY <1>0, <1>5 DEF Complete, Attempts
  <2>2. /\ Final(j).avail = jobs[j].prev.avail /\ Final(j).down = jobs[j].prev.down
        /\ Final(j).last = jobs[j].prev.last
    BY <1>0 DEF Final, Snapshots
  <2>3. InvAttempt' /\ FaithfulAnswer'
    BY <1>0, <1>1, <1>2, <1>5, <2>1, <2>2
    DEF InvAttempt, FaithfulAnswer, CheckInv, Told, Fresh, Loading
  <2>4. InvDown' /\ OnlyDamagedPurged'
    BY <1>1, <1>5, <2>1 DEF Faithful, InvDown, OnlyDamagedPurged, Fresh
  <2> QED
    BY <1>3, <1>4, <2>3, <2>4 DEF Faithful
<1>6. CASE ~(att.pc = "asked" /\ att.job = j)
  <2>1. att' = att
    BY <1>6 DEF Complete
  <2>2. InvAttempt' /\ FaithfulAnswer' /\ InvDown' /\ OnlyDamagedPurged'
    BY <1>1, <2>1 DEF Faithful, InvAttempt, FaithfulAnswer, InvDown, OnlyDamagedPurged, Fresh
  <2> QED
    BY <1>3, <1>4, <2>2 DEF Faithful
<1> QED
  BY <1>5, <1>6

LEMMA HydrationFaithful ==
    ASSUME Inv, HydrateRead \/ (HydrateWrite /\ ~clobbered')
    PROVE  Faithful'
<1> USE DEF Inv
<1>1. /\ att' = att /\ att.pc \in {"idle", "asked"} /\ jobs' = jobs /\ inFlight' = inFlight
      /\ \A j \in Jobs : jobs[j].pc \in {"none", "queued"}
      /\ snap = Empty
  BY DEF HydrateRead, HydrateWrite, InvStart
<1>2. InvJobs' /\ InvAttempt' /\ OnlyDamagedPurged' /\ FaithfulAnswer'
  BY <1>1 DEF InvJobs, CheckInv, InvAttempt, OnlyDamagedPurged, FaithfulAnswer, Loading
<1>3. CASE HydrateRead
  <2>1. snap' = Empty
    BY <1>1, <1>3 DEF HydrateRead
  <2> QED
    BY <1>2, <2>1 DEF Faithful, InvDown, CheckingIsInFlight, Empty
<1>4. CASE HydrateWrite
  <2>1. snap'.down = hyd.down /\ snap'.checking = FALSE /\ hyd.pc = "write"
    BY <1>4 DEF HydrateWrite, Store, TypeOK, Snapshots
  <2>2. InvDown'
    BY <1>4, <2>1 DEF HydrateWrite, stored, InvDown, InvFiles, Fresh, Whole
  <2> QED
    BY <1>2, <2>1, <2>2 DEF Faithful, CheckingIsInFlight
<1> QED
  BY <1>3, <1>4

\* What an attempt pins is either cached as the snapshot says, or on offer
LEMMA PinFaithful ==
    ASSUME Inv, Faithful, att.pc # "clear", NEW s \in Snapshots, Pin(s), PinTarget(s) # NoRelease,
           snap.down \in {NoRelease, s.down}, Fresh(s.avail) => Fresh(snap.avail),
           snap' = snap, disk' = disk, installed' = installed
    PROVE  InvAttempt' /\ InvDown'
<1> USE DEF Inv
<1>1. /\ snap.down # NoRelease => Fresh(snap.down) /\ disk[snap.down].exe
      /\ installed \in Slots /\ snap \in Snapshots
  BY DEF Faithful, InvDown, TypeOK
<1>2. att'.rel = PinTarget(s) /\ att'.pc = IF Downloaded(s) = PinTarget(s) THEN "verify" ELSE "exe"
  BY PinFrame
<1>3. InvDown'
  BY <1>1 DEF InvDown, Fresh
<1>4. CASE Downloaded(s) = PinTarget(s)
  <2>1. s.down = PinTarget(s)
    BY <1>4 DEF Downloaded
  <2>2. att'.pc = "verify"
    BY <1>2, <1>4
  <2> QED
    BY <1>2, <1>3, <2>1, <2>2 DEF InvAttempt, Loading
<1>5. CASE Downloaded(s) # PinTarget(s)
  <2>1. att'.pc = "exe"
    BY <1>2, <1>5
  <2>2. snap.down # PinTarget(s)
    BY <1>1, <1>5 DEF Downloaded
  <2>3. Fresh(snap.avail)
    <3>1. CASE Fresh(s.avail)
      BY <3>1
    <3>2. CASE ~Fresh(s.avail)
      <4>1. PinTarget(s) = s.down /\ Fresh(Downloaded(s))
        BY <1>1, <3>2, PinTargetIs
      <4>2. Downloaded(s) = s.down \/ Downloaded(s) = NoRelease
        BY DEF Downloaded
      <4>3. ~Fresh(NoRelease)
        BY <1>1, RepositoryBounds DEF Fresh, Slots, NoRelease, Releases
      <4> QED
        BY <1>5, <4>1, <4>2, <4>3
    <3> QED
      BY <3>1, <3>2
  <2> QED
    BY <1>1, <1>2, <1>3, <2>1, <2>2, <2>3 DEF InvAttempt, Loading, Fresh
<1> QED
  BY <1>4, <1>5

LEMMA ClickFaithful ==
    ASSUME Inv, Faithful, Click
    PROVE  Faithful'
<1> USE DEF Inv
<1>0. snap \in Snapshots /\ installed \in Slots /\ jobs \in [Jobs -> CheckJobs]
  BY DEF TypeOK
<1>1. snap' = snap /\ disk' = disk /\ installed' = installed /\ att.pc = "idle"
  BY DEF Click, stored, Doing
<1>2. CASE Pin(snap) /\ PinTarget(snap) # NoRelease /\ UNCHANGED <<inFlight, jobs>>
  <2>1. att'.pc \in {"exe", "verify"}
    BY <1>2, PinFrame
  <2>2. InvAttempt' /\ InvDown'
    BY <1>0, <1>1, <1>2, PinFaithful
  <2>3. InvJobs'
    BY <1>1, <1>2, <2>1 DEF Faithful, InvJobs, CheckInv, Told, Fresh
  <2> QED
    BY <1>1, <1>2, <2>1, <2>2, <2>3
    DEF Faithful, OnlyDamagedPurged, FaithfulAnswer, CheckingIsInFlight
<1>3. ASSUME NEW j \in Jobs, RequestCheck(j, TRUE), PinTarget(snap) = NoRelease,
             att' = [NoAttempt EXCEPT !.pc = "asked", !.job = j]
      PROVE  Faithful'
  <2>1. att'.pc = "asked"
    BY <1>3 DEF NoAttempt
  <2>2. /\ inFlight' = j
        /\ \A i \in Jobs \ {j} : jobs'[i] = jobs[i]
        /\ jobs'[j].pc = "queued" \/ (/\ jobs'[j].pc = jobs[j].pc /\ jobs'[j].kind = jobs[j].kind
                                      /\ jobs'[j].rel = jobs[j].rel /\ jobs'[j].prev = jobs[j].prev)
    BY <1>3, RequestFrame
  <2>3. /\ ~Fresh(snap.avail) /\ snap.down = NoRelease
    <3>1. ~Fresh(NoRelease)
      BY <1>0, RepositoryBounds DEF Fresh, Slots, NoRelease, Releases
    <3>2. ~Fresh(snap.avail)
      BY <1>0, <1>3, <3>1, PinTargetIs
    <3>3. snap.down # NoRelease => Downloaded(snap) = snap.down /\ Fresh(snap.down)
      BY <1>1 DEF Faithful, InvDown, Downloaded
    <3> QED
      BY <1>0, <1>3, <3>2, <3>3, PinTargetIs
  <2>4. InvJobs'
    <3>1. ASSUME NEW i \in Jobs PROVE CheckInv(i)'
      <4>1. CASE jobs'[i].pc = "queued"
        BY <4>1 DEF CheckInv
      <4>2. CASE /\ jobs'[i].pc = jobs[i].pc /\ jobs'[i].kind = jobs[i].kind
                 /\ jobs'[i].rel = jobs[i].rel /\ jobs'[i].prev = jobs[i].prev
        BY <1>1, <2>1, <2>3, <4>2 DEF Faithful, InvJobs, CheckInv, Told, Fresh
      <4> QED
        BY <2>2, <4>1, <4>2
    <3> QED
      BY <3>1 DEF InvJobs
  <2>5. InvAttempt' /\ OnlyDamagedPurged' /\ FaithfulAnswer'
    BY <2>1 DEF InvAttempt, OnlyDamagedPurged, FaithfulAnswer, Loading
  <2>6. InvDown' /\ CheckingIsInFlight'
    BY <1>1, <2>2, <2>3, RepositoryBounds DEF InvDown, CheckingIsInFlight, Jobs, NoJob
  <2> QED
    BY <2>4, <2>5, <2>6 DEF Faithful
<1> QED
  BY <1>2, <1>3 DEF Click

\* The files of a release that the snapshot does not call downloaded may go
LEMMA DeleteFaithful ==
    ASSUME Inv, Faithful, NEW r \in Releases, DeleteDownloaded(r), att.pc # "clear",
           snap' = snap, installed' = installed,
           snap.down # r \/ (att'.pc = "clear" /\ att'.rel = r)
    PROVE  InvDown'
<1>1. snap.down \in Slots
  BY DEF Inv, TypeOK, Snapshots
<1> QED
  BY <1>1, DeleteFrame DEF Inv, Faithful, InvDown, Fresh, Slots

LEMMA AttemptFaithful ==
    ASSUME Inv, Faithful, Attempt, ~Click, ~clobbered'
    PROVE  Faithful'
<1> USE DEF Inv
<1>0. /\ att \in Attempts /\ snap \in Snapshots /\ att.prev \in Snapshots
      /\ disk \in [Releases -> [exe : BOOLEAN, manifest : BOOLEAN, signature : BOOLEAN]]
  BY DEF TypeOK, Attempts
<1>1. /\ inFlight' = inFlight /\ jobs' = jobs /\ installed' = installed
      /\ att'.pc # "asked"
  BY AttemptFrame DEF Bystanders
<1>r. att.pc \in Pinned => att.rel \in Releases
  BY AttRelease
\* The checks notice an attempt only by the snapshot, and by its waiting for an answer
<1>2. ASSUME snap' = snap PROVE InvJobs' /\ CheckingIsInFlight'
  BY <1>1, <1>2 DEF Faithful, InvJobs, CheckInv, Told, Fresh, CheckingIsInFlight
<1>3. ASSUME snap' = snap, att' = NoAttempt, InvDown' PROVE Faithful'
  BY <1>2, <1>3
  DEF Faithful, InvAttempt, OnlyDamagedPurged, FaithfulAnswer, NoAttempt, Loading
<1>4. ASSUME att.pc \in Loading, DeleteDownloaded(att.rel), End, snap' = snap PROVE Faithful'
  <2>1. snap.down # att.rel
    BY <1>4 DEF Faithful, InvAttempt
  <2>2. InvDown'
    BY <1>1, <1>4, <1>r, <2>1, DeleteFaithful DEF Pinned, Loading
  <2> QED
    BY <1>3, <1>4, <2>2 DEF End
<1>5. ASSUME att.pc \in Loading, att'.pc \in Loading, att'.rel = att.rel, snap' = snap,
             \A r \in Releases : disk[r].exe => disk'[r].exe
      PROVE  Faithful'
  <2>1. InvAttempt'
    BY <1>1, <1>5 DEF Faithful, InvAttempt, Loading, Fresh
  <2>2. InvDown'
    BY <1>0, <1>1, <1>5 DEF Faithful, InvDown, Loading, Fresh, Snapshots, Slots
  <2> QED
    BY <1>2, <1>5, <2>1, <2>2 DEF Faithful, OnlyDamagedPurged, FaithfulAnswer, Loading
<1>6. CASE TakeAnswer
  <2>1. snap' = snap /\ disk' = disk /\ att.pc = "answered"
    BY <1>6 DEF TakeAnswer, stored, Doing
  <2>2. CASE Pin(att.prev) /\ PinTarget(att.prev) # NoRelease
    <3>1. InvAttempt' /\ InvDown'
      BY <1>0, <1>1, <2>1, <2>2, PinFaithful DEF Faithful, InvAttempt
    <3>2. att'.pc \in {"exe", "verify"}
      BY <2>2, PinFrame
    <3> QED
      BY <1>2, <2>1, <3>1, <3>2 DEF Faithful, OnlyDamagedPurged, FaithfulAnswer
  <2>3. CASE End
    BY <1>1, <1>3, <2>1, <2>3 DEF Faithful, InvDown, Fresh, End
  <2> QED
    BY <1>6, <2>2, <2>3 DEF TakeAnswer
<1>7. CASE GiveUp
  BY <1>1, <1>3, <1>7 DEF GiveUp, Faithful, InvDown, Fresh, End, stored
<1>8. CASE PersistInstaller
  <2>1. CASE disk' = [disk EXCEPT ![att.rel].exe = TRUE] /\ att' = [att EXCEPT !.pc = "manifest"]
    BY <1>0, <1>5, <1>8, <2>1 DEF PersistInstaller, Doing, Attempts, Loading
  <2>2. CASE DeleteDownloaded(att.rel) /\ End
    BY <1>4, <1>8, <2>2 DEF PersistInstaller, Doing, Loading
  <2> QED
    BY <1>8, <2>1, <2>2 DEF PersistInstaller
<1>9. CASE PersistManifest
  <2>1. CASE disk' = [disk EXCEPT ![att.rel].manifest = TRUE]
             /\ att' = [att EXCEPT !.pc = "signature"]
    BY <1>0, <1>5, <1>9, <2>1 DEF PersistManifest, Doing, Attempts, Loading
  <2>2. CASE DeleteDownloaded(att.rel) /\ End
    BY <1>4, <1>9, <2>2 DEF PersistManifest, Doing, Loading
  <2> QED
    BY <1>9, <2>1, <2>2 DEF PersistManifest
<1>10. CASE PersistMetadata
  <2>1. CASE disk' = [disk EXCEPT ![att.rel].signature = TRUE]
             /\ att' = [att EXCEPT !.pc = "record", !.prev = snap]
    BY <1>0, <1>5, <1>10, <2>1 DEF PersistMetadata, Doing, Attempts, Loading
  <2>2. CASE DeleteDownloaded(att.rel) /\ End
    BY <1>4, <1>10, <2>2 DEF PersistMetadata, Doing, Loading
  <2> QED
    BY <1>10, <2>1, <2>2 DEF PersistMetadata
<1>11. CASE RecordDownloaded
  <2>1. /\ snap'.avail = snap.avail /\ snap'.down = att.rel /\ snap'.last = "ok"
        /\ snap'.checking = FALSE
    BY <1>0, <1>11 DEF RecordDownloaded, Store, Snapshots
  <2>2. /\ att'.pc = "verify" /\ att'.rel = att.rel /\ att.pc = "record" /\ disk' = disk
    BY <1>0, <1>11 DEF RecordDownloaded, Doing, Attempts
  <2>3. InvJobs'
    <3>1. Fresh(snap.avail)
      BY <2>2 DEF Faithful, InvAttempt, Loading
    <3> QED
      BY <1>1, <2>1, <2>2, <3>1 DEF Faithful, InvJobs, CheckInv, Told, Fresh
  <2>4. InvAttempt' /\ OnlyDamagedPurged' /\ FaithfulAnswer'
    BY <2>1, <2>2 DEF InvAttempt, OnlyDamagedPurged, FaithfulAnswer, Loading
  <2>5. InvDown' /\ CheckingIsInFlight'
    BY <1>1, <2>1, <2>2 DEF InvDown, CheckingIsInFlight, InvFiles, InvFresh, Fresh, Pinned, Loading
  <2> QED
    BY <2>3, <2>4, <2>5 DEF Faithful
<1>12. CASE TryVerify
  <2>1. PICK damaged \in BOOLEAN :
          /\ damaged \/ Downloaded(snap) \notin {NoRelease, att.rel}
          /\ att' = [att EXCEPT !.pc = "delete", !.damaged = damaged, !.prev = snap]
    BY <1>12 DEF TryVerify
  <2>2. att'.pc = "delete" /\ att'.damaged = damaged /\ att'.prev = snap /\ att'.rel = att.rel
    BY <1>0, <2>1 DEF Attempts
  <2>3. snap' = snap /\ disk' = disk /\ att.pc = "verify"
    BY <1>12 DEF TryVerify, stored, Doing
  <2>4. damaged
    BY <2>1, <2>3 DEF Faithful, InvAttempt, Downloaded
  <2>5. InvAttempt' /\ OnlyDamagedPurged' /\ FaithfulAnswer'
    BY <2>2, <2>3, <2>4 DEF InvAttempt, OnlyDamagedPurged, FaithfulAnswer, Loading
  <2>6. InvDown'
    BY <1>1, <2>3 DEF Faithful, InvDown, Fresh
  <2> QED
    BY <1>2, <2>3, <2>5, <2>6 DEF Faithful
<1>13. CASE ClearFiles
  <2>1. /\ att'.pc = "clear" /\ att'.rel = att.rel /\ att'.prev = att.prev
        /\ att.pc = "delete" /\ snap' = snap /\ DeleteDownloaded(att.rel)
    BY <1>0, <1>13 DEF ClearFiles, Doing, Attempts
  <2>2. InvDown'
    BY <1>1, <1>r, <2>1, DeleteFaithful DEF Pinned
  <2>3. InvAttempt' /\ OnlyDamagedPurged' /\ FaithfulAnswer'
    BY <2>1 DEF Faithful, InvAttempt, OnlyDamagedPurged, FaithfulAnswer, Loading
  <2> QED
    BY <1>2, <2>1, <2>2, <2>3 DEF Faithful
<1>14. CASE ClearDownloaded
  <2>1. att.pc = "clear" /\ att' = NoAttempt /\ disk' = disk /\ att.prev.down = snap.down
    BY <1>14 DEF ClearDownloaded, Doing, End, stored, Faithful, InvAttempt
  <2>2. CASE snap.down = att.rel
    <3>1. snap' = [snap EXCEPT !.down = NoRelease]
      BY <1>14, <2>1, <2>2 DEF ClearDownloaded, Store
    <3>2. /\ snap'.avail = snap.avail /\ snap'.down = NoRelease /\ snap'.last = snap.last
          /\ snap'.checking = snap.checking
      BY <1>0, <3>1 DEF Snapshots
    <3>3. InvJobs'
      BY <1>1, <2>1, <3>2 DEF Faithful, InvJobs, CheckInv, Told, Fresh
    <3> QED
      BY <1>1, <2>1, <3>2, <3>3
      DEF Faithful, InvAttempt, InvDown, OnlyDamagedPurged, FaithfulAnswer, CheckingIsInFlight,
          NoAttempt, Loading
  <2>3. CASE snap.down # att.rel
    BY <1>1, <1>3, <1>14, <2>1, <2>3 DEF ClearDownloaded, Faithful, InvDown, Fresh
  <2> QED
    BY <2>2, <2>3
<1> QED
  BY <1>6, <1>7, <1>8, <1>9, <1>10, <1>11, <1>12, <1>13, <1>14 DEF Attempt

\* Only a restart forgets that a store was lost
LEMMA ClobberedStays ==
    ASSUME TypeOK, Next, ~Restart, ~clobbered'
    PROVE  ~clobbered
<1>1. CASE HydrateRead \/ HydrateWrite \/ Tick \/ Shutdown
  BY <1>1 DEF HydrateRead, HydrateWrite, Store, Tick, Shutdown
<1>2. ASSUME NEW j \in Jobs, Runner(j) PROVE ~clobbered
  BY <1>2 DEF Runner, RunInFlight, SetChecking, Gate, CheckAsync, PersistAvailable,
              PersistSignature, Record, FinishRead, FinishWrite, Complete, Store
<1>3. CASE Attempt
  BY <1>3 DEF Attempt, Click, TakeAnswer, GiveUp, PersistInstaller, PersistManifest,
              PersistMetadata, RecordDownloaded, TryVerify, ClearFiles, ClearDownloaded, Store
<1> QED
  BY <1>1, <1>2, <1>3 DEF Next

LEMMA SnapStep ==
    ASSUME Inv, [Next]_vars
    PROVE  InvSnap'
<1> USE DEF Inv
<1>j. jobs \in [Jobs -> CheckJobs]
  BY DEF TypeOK
<1>1. CASE Restart
  <2>1. InvJobs' /\ InvDown' /\ CheckingIsInFlight'
    BY <1>1 DEF Restart, InvJobs, CheckInv, InvDown, CheckingIsInFlight, NoCheck, Empty
  <2>2. InvAttempt' /\ OnlyDamagedPurged' /\ FaithfulAnswer'
    BY <1>1 DEF Restart, InvAttempt, OnlyDamagedPurged, FaithfulAnswer, NoAttempt, Loading
  <2> QED
    BY <2>1, <2>2 DEF InvSnap, Faithful
<1>2. CASE UNCHANGED vars
  <2> USE <1>2 DEF vars, memory, stored
  <2>1. InvJobs' <=> InvJobs
    BY DEF InvJobs, CheckInv, Told, Fresh
  <2>2. InvAttempt /\ InvDown => InvAttempt' /\ InvDown'
    BY DEF InvAttempt, InvDown, Fresh
  <2>3. OnlyDamagedPurged /\ FaithfulAnswer /\ CheckingIsInFlight
          => OnlyDamagedPurged' /\ FaithfulAnswer' /\ CheckingIsInFlight'
    BY DEF OnlyDamagedPurged, FaithfulAnswer, CheckingIsInFlight
  <2> QED
    BY <2>1, <2>2, <2>3 DEF InvSnap, Faithful
<1>3. CASE Next /\ ~Restart
  <2> SUFFICES ASSUME ~clobbered' PROVE Faithful'
    BY DEF InvSnap
  <2>1. Faithful
    BY <1>3, ClobberedStays DEF InvSnap
  <2>2. CASE HydrateRead \/ HydrateWrite
    BY <2>2, HydrationFaithful
  <2>3. CASE Tick
    <3>1. PICK j \in Jobs : RequestCheck(j, FALSE)
      BY <2>3 DEF Tick
    <3>2. /\ inFlight' = j
          /\ \A i \in Jobs \ {j} : jobs'[i] = jobs[i]
          /\ jobs'[j].pc = "queued" \/ (/\ jobs'[j].pc = jobs[j].pc /\ jobs'[j].kind = jobs[j].kind
                                        /\ jobs'[j].rel = jobs[j].rel /\ jobs'[j].prev = jobs[j].prev)
      BY <3>1, RequestFrame
    <3>3. snap' = snap /\ att' = att /\ disk' = disk /\ installed' = installed
      BY <2>3 DEF Tick, stored
    <3>4. InvJobs'
      <4>1. ASSUME NEW i \in Jobs PROVE CheckInv(i)'
        <5>1. CASE jobs'[i].pc = "queued"
          BY <5>1 DEF CheckInv
        <5>2. CASE /\ jobs'[i].pc = jobs[i].pc /\ jobs'[i].kind = jobs[i].kind
                   /\ jobs'[i].rel = jobs[i].rel /\ jobs'[i].prev = jobs[i].prev
          BY <2>1, <3>3, <5>2 DEF Faithful, InvJobs, CheckInv, Told, Fresh
        <5> QED
          BY <3>2, <5>1, <5>2
      <4> QED
        BY <4>1 DEF InvJobs
    <3>5. InvAttempt' /\ InvDown' /\ OnlyDamagedPurged' /\ FaithfulAnswer'
      BY <2>1, <3>3 DEF Faithful, InvAttempt, InvDown, OnlyDamagedPurged, FaithfulAnswer, Fresh
    <3>6. CheckingIsInFlight'
      BY <3>2, RepositoryBounds DEF CheckingIsInFlight, Jobs, NoJob
    <3> QED
      BY <3>4, <3>5, <3>6 DEF Faithful
  <2>4. ASSUME NEW j \in Jobs, Runner(j) PROVE Faithful'
    BY <2>1, <2>4, RunnerFaithful, CompleteFaithful
  <2>5. CASE Attempt
    BY <2>1, <2>5, ClickFaithful, AttemptFaithful
  <2>6. CASE Shutdown
    <3>1. UNCHANGED <<snap, inFlight, jobs, att, disk, installed>>
      BY <2>6 DEF Shutdown, stored
    <3>2. InvJobs'
      BY <2>1, <3>1 DEF Faithful, InvJobs, CheckInv, Told, Fresh
    <3> QED
      BY <2>1, <3>1, <3>2
      DEF Faithful, InvAttempt, InvDown, OnlyDamagedPurged, FaithfulAnswer, CheckingIsInFlight, Fresh
  <2> QED
    BY <1>3, <2>2, <2>3, <2>4, <2>5, <2>6 DEF Next
<1> QED
  BY <1>1, <1>2, <1>3

-----------------------------------------------------------------------------
(* The theorems *)

\* The strengthening of every invariant below: it holds at the start and each step keeps it
THEOREM InvIsInvariant == Spec => []Inv
<1>1. Inv /\ [Next]_vars => Inv'
  BY TypeStep, FlightStep, StartStep, FreshStep, FilesStep, SnapStep DEF Inv
<1> QED
  BY <1>1, InitInv, PTL DEF Spec

\* Every variable of the repository stays in its type, whatever the steps and the restarts
THEOREM TypeCorrect == Spec => []TypeOK
BY InvIsInvariant, PTL DEF Inv

\* One check runs at a time: RequestCheck() coalesces, and the slot is freed after the last store
THEOREM OneCheckRuns == Spec => []OneRunner
<1>1. Inv => OneRunner
  BY DEF Inv, InvFlight, OneRunner, Running
<1> QED
  BY <1>1, InvIsInvariant, PTL

\* The hydration overwrites a snapshot nobody has recorded anything in
THEOREM HydrationIsFirst == Spec => []NothingToOverwrite
<1>1. Inv => NothingToOverwrite
  BY DEF Inv, InvStart, NothingToOverwrite
<1> QED
  BY <1>1, InvIsInvariant, PTL

\* A published download stays on the disk through any number of restarts, until it is found
\* damaged, is deleted or runs, and each process offers it whose search gets that far
\* (HydrateFromCache(), RecordDownloaded(), DeleteDownloaded())
THEOREM DownloadsSurvive == Spec => []DurableDownload
BY InvIsInvariant, PTL DEF Inv

\* While every store was made from the snapshot it replaced, only damaged downloads are deleted,
\* a check is told as it ended, and "checking" is only shown while one is in flight
THEOREM FaithfulStores == Spec => []FaithfulUnlessClobbered
<1>1. Inv => FaithfulUnlessClobbered
  BY DEF Inv, InvSnap, Faithful, FaithfulUnlessClobbered
<1> QED
  BY <1>1, InvIsInvariant, PTL

-----------------------------------------------------------------------------
(* No check is stuck *)

\* How many steps its runner takes at most before a check is complete
CheckStepsLeft(j) ==
    CASE jobs[j].pc = "none" -> 0
      [] jobs[j].pc = "complete" -> 1
      [] jobs[j].pc = "publish" -> 2
      [] jobs[j].pc = "finish" -> 3
      [] jobs[j].pc = "record" -> 4
      [] jobs[j].pc = "sig" -> 5
      [] jobs[j].pc = "store" -> 6
      [] jobs[j].pc = "fetch" -> 7
      [] jobs[j].pc = "gate" -> 8
      [] jobs[j].pc = "mark" -> 9
      [] jobs[j].pc = "queued" -> 10

LEMMA CheckStepsNat ==
    ASSUME TypeOK, NEW j \in Jobs
    PROVE  CheckStepsLeft(j) \in Nat /\ (CheckStepsLeft(j) = 0 <=> Idle(j))
<1>1. jobs[j].pc \in {"none", "queued", "mark", "gate", "fetch", "store", "sig", "record",
                      "finish", "publish", "complete"}
  BY DEF TypeOK, CheckJobs
<1>2. Idle(j) => CheckStepsLeft(j) = 0
  BY DEF Idle, CheckStepsLeft
<1>3. ~Idle(j) => CheckStepsLeft(j) \in 1 .. 10
  BY <1>1, SMT DEF Idle, CheckStepsLeft
<1> QED
  BY <1>2, <1>3

\* A step of the runner leads on to a later one, whichever way it goes
LEMMA RunnerDescends ==
    ASSUME TypeOK, TypeOK', NEW j \in Jobs, Runner(j)
    PROVE  CheckStepsLeft(j)' < CheckStepsLeft(j)
<1>0. jobs \in [Jobs -> CheckJobs] /\ jobs[j] \in CheckJobs
  BY DEF TypeOK
<1> USE <1>0 DEF At, ToRecord, CheckJobs, CheckStepsLeft
<1>1. CASE RunInFlight(j)
  BY <1>1 DEF RunInFlight
<1>2. CASE SetChecking(j)
  BY <1>2 DEF SetChecking
<1>3. CASE Gate(j)
  <2>1. jobs'[j].pc \in {"fetch", "finish", "record"}
    <3>1. CASE shut
      BY <1>3, <3>1 DEF Gate
    <3>2. CASE ~shut
      <4> PICK run \in BOOLEAN :
            jobs' = [jobs EXCEPT ![j].pc = IF run THEN "fetch" ELSE "finish",
                                 ![j].kind = IF run THEN "open" ELSE "throttled"]
        BY <1>3, <3>2 DEF Gate, Throttle
      <4> QED
        OBVIOUS
    <3> QED
      BY <3>1, <3>2
  <2>2. jobs[j].pc = "gate"
    BY <1>3 DEF Gate
  <2> QED
    BY <2>1, <2>2
<1>4. CASE CheckAsync(j)
  BY <1>4 DEF CheckAsync
<1>5. CASE PersistAvailable(j)
  BY <1>5 DEF PersistAvailable
<1>6. CASE PersistSignature(j)
  BY <1>6 DEF PersistSignature
<1>7. CASE Record(j)
  BY <1>7 DEF Record
<1>8. CASE FinishRead(j)
  BY <1>8 DEF FinishRead
<1>9. CASE FinishWrite(j)
  BY <1>9 DEF FinishWrite
<1>10. CASE Complete(j)
  BY <1>10 DEF Complete, NoCheck
<1> QED
  BY <1>1, <1>2, <1>3, <1>4, <1>5, <1>6, <1>7, <1>8, <1>9, <1>10 DEF Runner

\* A request that joins a check leaves it where it is
LEMMA RequestKeepsPlace ==
    ASSUME TypeOK, InvFlight, NEW i \in Jobs, NEW force, RequestCheck(i, force),
           NEW j \in Jobs, ~Idle(j)
    PROVE  CheckStepsLeft(j)' = CheckStepsLeft(j)
<1>1. jobs'[j].pc = jobs[j].pc
  BY RequestFrame DEF Idle
<1> QED
  BY <1>1 DEF CheckStepsLeft

\* A check that was requested comes to its completion: every step of its runner brings it nearer,
\* and no request that joins it, no attempt and no shutdown takes that away again; whoever waits
\* for an answer waits for a check that is alive (RequestCheck(), RunInFlightAsync())
THEOREM ChecksCountDown ==
    Spec => /\ [](att.pc = "asked" => att.job \in Jobs /\ ~Idle(att.job))
            /\ [][\A j \in Jobs :
                    /\ ~Idle(j) => CheckStepsLeft(j)' <= CheckStepsLeft(j)
                    /\ Runner(j) => CheckStepsLeft(j)' < CheckStepsLeft(j)]_vars
<1> DEFINE Waits == att.pc = "asked" => att.job \in Jobs /\ ~Idle(att.job)
           Descends == \A j \in Jobs :
                         /\ ~Idle(j) => CheckStepsLeft(j)' <= CheckStepsLeft(j)
                         /\ Runner(j) => CheckStepsLeft(j)' < CheckStepsLeft(j)
<1>1. Inv => Waits
  <2> SUFFICES ASSUME Inv, att.pc = "asked" PROVE att.job \in Jobs /\ ~Idle(att.job)
    OBVIOUS
  <2>1. inFlight \in Jobs /\ att.job = inFlight
    BY DEF Inv, InvFlight, TypeOK
  <2> QED
    BY <2>1 DEF Inv, InvFlight, Idle
<1>2. Inv /\ Inv' /\ [Next]_vars => [Descends]_vars
  <2> SUFFICES ASSUME Inv, Inv', Next, NEW j \in Jobs
               PROVE  /\ ~Idle(j) => CheckStepsLeft(j)' <= CheckStepsLeft(j)
                      /\ Runner(j) => CheckStepsLeft(j)' < CheckStepsLeft(j)
    OBVIOUS
  <2>0. TypeOK /\ TypeOK' /\ InvFlight
    BY DEF Inv
  <2>1. CheckStepsLeft(j) \in Nat /\ CheckStepsLeft(j)' \in Nat
    <3>1. CheckStepsLeft(j) \in Nat
      BY <2>0, CheckStepsNat
    <3>2. jobs'[j] \in CheckJobs
      BY <2>0 DEF TypeOK
    <3>3. CheckStepsLeft(j)' \in Nat
      BY <3>2, SMT DEF CheckJobs, CheckStepsLeft
    <3> QED
      BY <3>1, <3>3
  <2>2. Runner(j) => CheckStepsLeft(j)' < CheckStepsLeft(j)
    BY <2>0, RunnerDescends
  <2>3. ASSUME jobs'[j] = jobs[j] PROVE CheckStepsLeft(j)' = CheckStepsLeft(j)
    BY <2>3 DEF CheckStepsLeft
  <2>4. ~Idle(j) => CheckStepsLeft(j)' <= CheckStepsLeft(j)
    <3> SUFFICES ASSUME ~Idle(j) PROVE CheckStepsLeft(j)' <= CheckStepsLeft(j)
      OBVIOUS
    <3>1. CASE HydrateRead \/ HydrateWrite \/ Shutdown
      BY <2>1, <2>3, <3>1 DEF HydrateRead, HydrateWrite, Shutdown
    <3>2. ASSUME NEW i \in Jobs, NEW force, RequestCheck(i, force)
          PROVE  CheckStepsLeft(j)' <= CheckStepsLeft(j)
      BY <2>0, <2>1, <3>2, RequestKeepsPlace
    <3>3. CASE Tick
      BY <3>2, <3>3 DEF Tick
    <3>4. CASE Attempt
      <4>1. CASE Click
        <5>1. CASE UNCHANGED jobs
          BY <2>1, <2>3, <5>1
        <5>2. CASE \E i \in Jobs : RequestCheck(i, TRUE)
          BY <3>2, <5>2
        <5> QED
          BY <4>1, <5>1, <5>2 DEF Click
      <4>2. CASE ~Click
        BY <2>0, <2>1, <2>3, <3>4, <4>2, AttemptFrame DEF Bystanders
      <4> QED
        BY <4>1, <4>2
    <3>5. CASE \E i \in Jobs : Runner(i)
      <4> PICK i \in Jobs : Runner(i)
        BY <3>5
      <4>1. CASE i = j
        BY <2>1, <2>2, <4>1
      <4>2. CASE i # j
        <5>1. CASE Complete(i)
          <6>1. jobs'[j] = jobs[j]
            BY <2>0, <4>2, <5>1 DEF Complete, TypeOK
          <6> QED
            BY <2>1, <2>3, <6>1
        <5>2. CASE ~Complete(i)
          <6>1. jobs'[j] = jobs[j]
            BY <2>0, <4>2, <5>2, RunnerFrame
          <6> QED
            BY <2>1, <2>3, <6>1
        <5> QED
          BY <5>1, <5>2
      <4> QED
        BY <4>1, <4>2
    <3>6. CASE Restart
      <4>1. jobs'[j].pc = "none"
        BY <3>6 DEF Restart, NoCheck
      <4>2. CheckStepsLeft(j)' = 0
        BY <4>1 DEF CheckStepsLeft
      <4> QED
        BY <2>1, <4>2
    <3> QED
      BY <3>1, <3>3, <3>4, <3>5, <3>6 DEF Next
  <2> QED
    BY <2>2, <2>4
<1>3. Spec => []Waits
  BY <1>1, InvIsInvariant, PTL
<1>4. Spec => [][Descends]_vars
  BY <1>2, InvIsInvariant, PTL DEF Spec
<1> QED
  BY <1>3, <1>4
-----------------------------------------------------------------------------
(* What a request is promised: the check in flight, as SharedCheck.tla sees it *)

\* Until a check has its result it has none, and then it is not an open one
InvOpen ==
    \A j \in Jobs :
        jobs[j].pc \in {"queued", "mark", "gate", "fetch"} =>
            jobs[j].kind = "open" /\ jobs[j].rel = NoRelease

Requested == {"queued", "mark", "gate"}
Asking == {"fetch", "store", "sig"}
Over == {"record", "finish", "publish", "complete"}

Seen == Checking!checkVars
Unattended == UNCHANGED <<att, shut>>

LEMMA FlyingIs ==
    ASSUME TypeOK, InvFlight, NEW j \in Jobs, jobs[j].pc # "none"
    PROVE  inFlight = j /\ Flying = jobs[j]
BY RepositoryBounds DEF InvFlight, Flying, Jobs, NoJob

LEMMA FlyingType == ASSUME TypeOK PROVE Flying \in CheckJobs
BY EmptyType DEF TypeOK, Flying

LEMMA StageIs ==
    /\ Stage = IF Flying.pc \in Requested THEN "requested"
               ELSE IF Flying.pc \in Asking THEN "asking"
               ELSE IF Flying.pc \in Over THEN "over" ELSE "none"
    /\ Stage' = IF Flying'.pc \in Requested THEN "requested"
                ELSE IF Flying'.pc \in Asking THEN "asking"
                ELSE IF Flying'.pc \in Over THEN "over" ELSE "none"
BY DEF Stage, Requested, Asking, Over

\* The endings, from the checks they are of
LEMMA Endings ==
    /\ EndOf(NoCheck) = Checking!Open /\ EndOf(NoAttempt) = Checking!Open
    /\ \A x, k, r : x.kind = k /\ x.rel = r => EndOf(x) = Checking!Ending(k, r)
BY DEF EndOf, NoCheck, NoAttempt, Checking!Open, Checking!Ending

\* Who waits depends on the attempt alone
LEMMA WaiterKept == att' = att => Waiter' = Waiter /\ WasTold' = WasTold
BY DEF Waiter, WasTold

LEMMA AwayWaits ==
    ASSUME att.pc \notin {"asked", "answered"}
    PROVE  Waiter = "nobody" /\ WasTold = Checking!Open
BY Endings DEF Waiter, WasTold

LEMMA AwayWaitsNext ==
    ASSUME att'.pc \notin {"asked", "answered"}
    PROVE  Waiter' = "nobody" /\ WasTold' = Checking!Open
BY Endings DEF Waiter, WasTold

\* Nothing of the check is seen to change
LEMMA SameCheck ==
    ASSUME Flying' = Flying
    PROVE  UNCHANGED <<Stage, Insisted, Ended>>
BY DEF Stage, Insisted, Ended

\* A step within a stage
LEMMA WithinStage ==
    ASSUME Unattended, Stage' = Stage, Stage # "none",
           Stage = "requested" => Flying'.force = Flying.force,
           Stage = "over" => Flying'.kind = Flying.kind /\ Flying'.rel = Flying.rel
    PROVE  UNCHANGED Seen
<1>1. Insisted' = Insisted
  BY DEF Insisted
<1>2. Ended' = Ended
  BY DEF Ended, EndOf
<1> QED
  BY <1>1, <1>2, WaiterKept DEF Unattended, Seen, Checking!checkVars

\* A step that ends it
LEMMA EndsAs ==
    ASSUME Unattended, Flying'.pc \in Over
    PROVE  Checking!Ends(Flying'.kind, Flying'.rel)
<1>1. Stage' = "over" /\ ~Insisted'
  BY StageIs DEF Insisted, Requested, Asking, Over
<1>2. Ended' = Checking!Ending(Flying'.kind, Flying'.rel)
  BY <1>1, Endings DEF Ended
<1> QED
  BY <1>1, <1>2, WaiterKept DEF Unattended, Checking!Ends

\* A step of the check in flight but its last
LEMMA FlyingStep ==
    ASSUME TypeOK, InvFlight, NEW j \in Jobs, Runner(j), ~Complete(j)
    PROVE  Flying = jobs[j] /\ Flying' = jobs'[j] /\ Unattended
<1>1. jobs[j].pc # "none" /\ UNCHANGED <<inFlight, att, shut>>
  BY RunnerFrame DEF Others
<1>2. inFlight = j /\ Flying = jobs[j]
  BY <1>1, FlyingIs
<1>3. inFlight' # NoJob /\ inFlight' = j
  BY <1>1, <1>2, RepositoryBounds DEF Jobs, NoJob
<1> QED
  BY <1>1, <1>2, <1>3 DEF Flying, Unattended

LEMMA RunnerOpen ==
    ASSUME TypeOK, NEW j \in Jobs, Runner(j), ~Complete(j),
           jobs[j].pc \in {"queued", "mark", "gate", "fetch"} =>
               jobs[j].kind = "open" /\ jobs[j].rel = NoRelease
    PROVE  jobs'[j].pc \in {"queued", "mark", "gate", "fetch"} =>
               jobs'[j].kind = "open" /\ jobs'[j].rel = NoRelease
<1>0. jobs \in [Jobs -> CheckJobs] /\ jobs[j] \in CheckJobs
  BY DEF TypeOK
<1> USE <1>0 DEF At, ToRecord, CheckJobs
<1>1. CASE RunInFlight(j) \/ SetChecking(j)
  BY <1>1 DEF RunInFlight, SetChecking
<1>2. CASE Gate(j)
  <2>0. jobs[j].pc = "gate"
    BY <1>2, Zenon DEF Gate
  <2>1. CASE ToRecord(j, "failed", NoRelease)
    BY <2>1
  <2>2. ASSUME NEW run \in BOOLEAN,
               jobs' = [jobs EXCEPT ![j].pc = IF run THEN "fetch" ELSE "finish",
                                    ![j].kind = IF run THEN "open" ELSE "throttled"]
        PROVE  /\ jobs'[j].pc \in {"fetch", "finish"}
               /\ jobs'[j].pc = "fetch" => jobs'[j].kind = "open"
               /\ jobs'[j].rel = jobs[j].rel
    BY <2>2
  <2>3. \/ ToRecord(j, "failed", NoRelease)
        \/ \E run \in BOOLEAN :
             jobs' = [jobs EXCEPT ![j].pc = IF run THEN "fetch" ELSE "finish",
                                  ![j].kind = IF run THEN "open" ELSE "throttled"]
    BY <1>2 DEF Gate, Throttle
  <2>4. ASSUME ~ToRecord(j, "failed", NoRelease)
        PROVE  jobs'[j].pc = "fetch" => jobs'[j].kind = "open" /\ jobs'[j].rel = NoRelease
    <3>1. PICK run \in BOOLEAN :
             jobs' = [jobs EXCEPT ![j].pc = IF run THEN "fetch" ELSE "finish",
                                  ![j].kind = IF run THEN "open" ELSE "throttled"]
      BY <2>3, <2>4
    <3> QED
      BY <2>0, <2>2, <3>1
  <2>5. ASSUME ~ToRecord(j, "failed", NoRelease) PROVE jobs'[j].pc \in {"fetch", "finish"}
    BY <2>2, <2>3, <2>5, Zenon
  <2> QED
    BY <2>1, <2>4, <2>5
<1>3. CASE CheckAsync(j)
  BY <1>3 DEF CheckAsync
<1>4. CASE PersistAvailable(j) \/ PersistSignature(j)
  BY <1>4 DEF PersistAvailable, PersistSignature
<1>5. CASE Record(j)
  BY <1>5 DEF Record
<1>6. CASE FinishRead(j) \/ FinishWrite(j)
  BY <1>6 DEF FinishRead, FinishWrite
<1> QED
  BY <1>1, <1>2, <1>3, <1>4, <1>5, <1>6 DEF Runner

LEMMA RequestOpen ==
    ASSUME TypeOK, InvFlight, InvOpen, NEW j \in Jobs, NEW force, RequestCheck(j, force)
    PROVE  InvOpen'
<1>1. ASSUME Idle(j) PROVE jobs'[j].kind = "open" /\ jobs'[j].rel = NoRelease
  BY <1>1 DEF RequestCheck, NoCheck, TypeOK
<1> QED
  BY <1>1, RequestFrame DEF InvOpen, Idle

LEMMA OpenStep ==
    ASSUME TypeOK, InvFlight, InvOpen, [Next]_vars
    PROVE  InvOpen'
<1>1. CASE HydrateRead \/ HydrateWrite
  BY <1>1 DEF HydrateRead, HydrateWrite, InvOpen
<1>2. CASE Tick
  BY <1>2, RequestOpen DEF Tick
<1>3. ASSUME NEW j \in Jobs, Runner(j) PROVE InvOpen'
  <2>1. CASE Complete(j)
    BY <2>1 DEF Complete, InvOpen, NoCheck, TypeOK
  <2>2. CASE ~Complete(j)
    BY <1>3, <2>2, RunnerOpen, RunnerFrame DEF InvOpen
  <2> QED
    BY <2>1, <2>2
<1>4. CASE Attempt
  <2>1. CASE Click
    <3>1. jobs' = jobs \/ \E j \in Jobs : RequestCheck(j, TRUE)
      BY <2>1, Zenon DEF Click
    <3>2. CASE jobs' = jobs
      BY <3>2 DEF InvOpen
    <3> QED
      BY <3>1, <3>2, RequestOpen
  <2>2. CASE ~Click
    BY <1>4, <2>2, AttemptFrame DEF Bystanders, InvOpen
  <2> QED
    BY <2>1, <2>2
<1>5. CASE Shutdown
  BY <1>5 DEF Shutdown, InvOpen
<1>6. CASE Restart
  BY <1>6 DEF Restart, InvOpen, NoCheck
<1>7. CASE UNCHANGED vars
  BY <1>7 DEF vars, memory, InvOpen
<1> QED
  BY <1>1, <1>2, <1>3, <1>4, <1>5, <1>6, <1>7 DEF Next

LEMMA OpenInvariance == Spec => []InvOpen
<1>1. Init => InvOpen
  BY DEF Init, InvOpen, NoCheck
<1>2. Inv /\ InvOpen /\ [Next]_vars => InvOpen'
  BY OpenStep DEF Inv
<1> QED
  BY <1>1, <1>2, InvIsInvariant, PTL DEF Spec

\* Before the result: waiting, the decision, the answer of the source
LEMMA GateSeen ==
    ASSUME TypeOK, InvFlight, InvOpen, NEW j \in Jobs, Gate(j)
    PROVE  Checking!CutOff \/ Checking!Skip \/ Checking!AskSource
<1>0. jobs \in [Jobs -> CheckJobs] /\ jobs[j] \in CheckJobs /\ jobs[j].pc = "gate"
  BY DEF TypeOK, Gate, At
<1>1. Flying = jobs[j] /\ Flying' = jobs'[j] /\ Unattended
  <2>1. Runner(j)
    BY DEF Runner
  <2>2. ~Complete(j)
    BY <1>0 DEF Complete, At
  <2> QED
    BY <2>1, <2>2, FlyingStep
<1>2. Stage = "requested" /\ Ended = Checking!Open
  BY <1>0, <1>1, StageIs, Endings DEF Requested, Ended
<1>3. CASE shut /\ ToRecord(j, "failed", NoRelease)
  <2>1. Flying'.pc = "record" /\ Flying'.kind = "failed" /\ Flying'.rel = NoRelease
    BY <1>0, <1>1, <1>3 DEF ToRecord, CheckJobs
  <2>2. Checking!Ends(Flying'.kind, Flying'.rel)
    BY <1>1, <2>1, EndsAs DEF Over
  <2> QED
    BY <1>2, <1>3, <2>1, <2>2 DEF Checking!CutOff
<1>4. ASSUME ~shut, NEW run \in Throttle(snap, jobs[j].force),
             jobs' = [jobs EXCEPT ![j].pc = IF run THEN "fetch" ELSE "finish",
                                  ![j].kind = IF run THEN "open" ELSE "throttled"]
      PROVE  Checking!Skip \/ Checking!AskSource
  <2>1. CASE run
    <3>1. Flying'.pc = "fetch"
      BY <1>0, <1>1, <1>4, <2>1 DEF CheckJobs
    <3>2. Stage' = "asking" /\ ~Insisted' /\ Ended' = Checking!Open
      BY <3>1, StageIs, Endings DEF Requested, Asking, Insisted, Ended
    <3> QED
      BY <1>1, <1>2, <1>4, <3>2, WaiterKept DEF Unattended, Checking!AskSource
  <2>2. CASE ~run
    <3>1. ~jobs[j].force
      BY <1>4, <2>2 DEF Throttle
    <3>2. Flying'.pc = "finish" /\ Flying'.kind = "throttled" /\ Flying'.rel = jobs[j].rel
      BY <1>0, <1>1, <1>4, <2>2 DEF CheckJobs
    <3>3. Flying'.rel = NoRelease
      BY <1>0, <3>2 DEF InvOpen
    <3>4. Checking!Ends(Flying'.kind, Flying'.rel)
      BY <1>1, <3>2, EndsAs DEF Over
    <3> QED
      BY <1>1, <1>2, <1>4, <3>1, <3>2, <3>3, <3>4 DEF Checking!Skip, Insisted
  <2> QED
    BY <2>1, <2>2
<1> QED
  BY <1>3, <1>4 DEF Gate

\* A step of a check that stays in its stage, by what it leaves alone
LEMMA StaysSeen ==
    ASSUME Unattended, Flying'.force = Flying.force,
           Flying'.kind = Flying.kind, Flying'.rel = Flying.rel,
           \E stage \in {Requested, Asking, Over} : Flying.pc \in stage /\ Flying'.pc \in stage
    PROVE  UNCHANGED Seen
<1>1. Stage' = Stage /\ Stage # "none"
  BY StageIs DEF Requested, Asking, Over
<1> QED
  BY <1>1, WithinStage

LEMMA SourceSeen ==
    ASSUME Inv, InvOpen, NEW j \in Jobs,
           CheckAsync(j) \/ PersistAvailable(j) \/ PersistSignature(j)
    PROVE  Checking!Conclude \/ UNCHANGED Seen
<1>0. jobs \in [Jobs -> CheckJobs] /\ jobs[j] \in CheckJobs /\ jobs[j].pc \in {"fetch", "store", "sig"}
  BY DEF Inv, TypeOK, CheckAsync, PersistAvailable, PersistSignature, At
<1>1. Flying = jobs[j] /\ Flying' = jobs'[j] /\ Unattended
  <2>1. Runner(j)
    BY DEF Runner
  <2>2. ~Complete(j)
    BY <1>0 DEF Complete, At
  <2> QED
    BY <2>1, <2>2, FlyingStep DEF Inv
<1>2. Stage = "asking" /\ Ended = Checking!Open
  BY <1>0, <1>1, StageIs, Endings DEF Requested, Asking, Ended
<1>3. ASSUME NEW k, NEW r, ToRecord(j, k, r),
             <<k, r>> \in {<<"failed", NoRelease>>, <<"nothing", NoRelease>>}
                          \cup {<<"found", q>> : q \in Releases}
      PROVE  Checking!Conclude
  <2>1. Flying'.pc = "record" /\ Flying'.kind = k /\ Flying'.rel = r
    BY <1>0, <1>1, <1>3 DEF ToRecord, CheckJobs
  <2>2. Checking!Ends(k, r)
    BY <1>1, <2>1, EndsAs DEF Over
  <2> QED
    BY <1>2, <1>3, <2>2 DEF Checking!Conclude
<1>4. ASSUME Flying'.pc \in {"store", "sig"} PROVE UNCHANGED Seen
  <2>1. Stage' = "asking"
    BY <1>4, StageIs DEF Requested, Asking
  <2> QED
    BY <1>1, <1>2, <2>1, WithinStage
<1>5. CASE CheckAsync(j)
  <2>1. CASE ToRecord(j, "failed", NoRelease) \/ ToRecord(j, "nothing", NoRelease)
    BY <1>3, <2>1
  <2>2. ASSUME NEW r \in Releases,
               jobs' = [jobs EXCEPT ![j].pc = "store", ![j].kind = "found", ![j].rel = r]
        PROVE  Flying'.pc = "store"
    BY <1>0, <1>1, <2>2 DEF CheckJobs
  <2> QED
    BY <1>4, <1>5, <2>1, <2>2, Zenon DEF CheckAsync
<1>6. CASE PersistAvailable(j)
  <2>1. CASE jobs' = [jobs EXCEPT ![j].pc = "sig"]
    BY <1>0, <1>1, <1>4, <2>1 DEF CheckJobs
  <2>2. CASE ToRecord(j, "failed", NoRelease)
    BY <1>3, <2>2
  <2> QED
    BY <1>6, <2>1, <2>2, Zenon DEF PersistAvailable
<1>7. CASE PersistSignature(j)
  <2>1. jobs[j].pc = "sig"
    BY <1>7 DEF PersistSignature, At
  <2>2. jobs[j].rel \in Releases
    BY <1>0, <2>1, RepositoryBounds
       DEF Inv, InvFresh, Fresh, TypeOK, CheckJobs, Slots, NoRelease, Releases
  <2>3. CASE ToRecord(j, "found", jobs[j].rel)
    BY <1>3, <2>2, <2>3
  <2>4. CASE ToRecord(j, "failed", NoRelease)
    BY <1>3, <2>4
  <2> QED
    BY <1>7, <2>3, <2>4, Zenon DEF PersistSignature
<1> QED
  BY <1>5, <1>6, <1>7

\* Marking, recording and publishing are within a stage
LEMMA StoreSeen ==
    ASSUME Inv, NEW j \in Jobs,
           \/ RunInFlight(j) \/ SetChecking(j) \/ Record(j) \/ FinishRead(j) \/ FinishWrite(j)
    PROVE  UNCHANGED Seen
<1>0. /\ jobs \in [Jobs -> CheckJobs] /\ jobs[j] \in CheckJobs
      /\ jobs[j].pc \in {"queued", "mark", "record", "finish", "publish"}
  BY DEF Inv, TypeOK, RunInFlight, SetChecking, Record, FinishRead, FinishWrite, At
<1>1. Flying = jobs[j] /\ Flying' = jobs'[j] /\ Unattended
  <2>1. Runner(j)
    BY DEF Runner
  <2>2. ~Complete(j)
    BY <1>0 DEF Complete, At
  <2> QED
    BY <2>1, <2>2, FlyingStep DEF Inv
<1>2. /\ jobs'[j].force = jobs[j].force
      /\ jobs'[j].kind = jobs[j].kind /\ jobs'[j].rel = jobs[j].rel
  BY <1>0 DEF RunInFlight, SetChecking, Record, FinishRead, FinishWrite, CheckJobs
<1>3. \/ jobs[j].pc \in Requested /\ jobs'[j].pc \in Requested
      \/ jobs[j].pc \in Over /\ jobs'[j].pc \in Over
  BY <1>0 DEF RunInFlight, SetChecking, Record, FinishRead, FinishWrite, CheckJobs, At, Requested, Over
<1> QED
  BY <1>1, <1>2, <1>3, StaysSeen

\* The slot is freed and the waiter answered in one step
LEMMA CompleteSeen ==
    ASSUME Inv, NEW j \in Jobs, Complete(j)
    PROVE  Checking!Tell
<1>0. jobs[j].pc = "complete" /\ TypeOK /\ InvFlight
  BY DEF Complete, At, Inv
<1>1. inFlight = j /\ Flying = jobs[j]
  BY <1>0, FlyingIs
<1>2. Stage = "over" /\ Ended = EndOf(jobs[j]) /\ Insisted = FALSE
  BY <1>0, <1>1, StageIs DEF Requested, Asking, Over, Ended, Insisted
<1>3. inFlight' = NoJob /\ shut' = shut
  BY <1>1 DEF Complete
<1>4. Flying' = NoCheck
  BY <1>3 DEF Flying
<1>5. Stage' = "none" /\ Ended' = Checking!Open /\ Insisted' = FALSE
  BY <1>4, StageIs, Endings DEF Requested, Asking, Over, Ended, Insisted, NoCheck
<1>6. CASE att.pc = "asked"
  <2>1. att.job = j
    BY <1>1, <1>6 DEF Inv, InvFlight
  <2>2. att' = [att EXCEPT !.pc = "answered", !.job = NoJob, !.prev = Final(j),
                           !.kind = jobs[j].kind, !.rel = jobs[j].rel]
    BY <1>6, <2>1 DEF Complete
  <2>3. att'.pc = "answered" /\ att'.kind = jobs[j].kind /\ att'.rel = jobs[j].rel
    BY <1>0, <2>2 DEF TypeOK, Attempts
  <2>4. Waiter = "waiting" /\ Waiter' = "told" /\ WasTold' = EndOf(jobs[j])
    BY <1>6, <2>3 DEF Waiter, WasTold, EndOf
  <2> QED
    BY <1>2, <1>3, <1>5, <2>4 DEF Checking!Tell
<1>7. CASE att.pc # "asked"
  <2>1. att' = att /\ Waiter # "waiting"
    BY <1>7 DEF Complete, Waiter
  <2> QED
    BY <1>2, <1>3, <1>5, <2>1, WaiterKept DEF Checking!Tell
<1> QED
  BY <1>6, <1>7

\* Every request takes part in the check there is, or starts it
LEMMA RequestSeen ==
    ASSUME Inv, NEW j \in Jobs, NEW force \in BOOLEAN, RequestCheck(j, force)
    PROVE  /\ ~shut
           /\ Stage' = IF Stage = "none" THEN "requested" ELSE Stage
           /\ Insisted' = (Insisted \/ (force /\ Stage' = "requested"))
           /\ Ended' = Ended
<1>0. jobs \in [Jobs -> CheckJobs] /\ TypeOK /\ InvFlight /\ inFlight' = j /\ j # NoJob
  BY RequestFrame, RepositoryBounds DEF Inv, TypeOK, Jobs, NoJob
<1>1. ~shut /\ jobs' = [jobs EXCEPT ![j] =
                  IF Idle(j) THEN [NoCheck EXCEPT !.pc = "queued", !.force = force]
                  ELSE [jobs[j] EXCEPT !.force = jobs[j].force \/ force]]
  BY DEF RequestCheck
<1>2. Flying' = jobs'[j]
  BY <1>0 DEF Flying
<1>3. CASE Idle(j)
  <2>1. inFlight = NoJob
    BY <1>0, <1>3, RequestFrame DEF Idle
  <2>2. Flying = NoCheck
    BY <2>1 DEF Flying
  <2>3. Flying'.pc = "queued" /\ Flying'.force = force
    BY <1>0, <1>1, <1>2, <1>3 DEF NoCheck
  <2>4. Stage = "none" /\ ~Insisted /\ Ended = Checking!Open
    BY <2>2, StageIs, Endings DEF Requested, Asking, Over, Insisted, Ended, NoCheck
  <2>5. Stage' = "requested" /\ Insisted' = force /\ Ended' = Checking!Open
    BY <2>3, StageIs, Endings DEF Requested, Insisted, Ended
  <2> QED
    BY <1>1, <2>4, <2>5
<1>4. CASE ~Idle(j)
  <2>1. Flying = jobs[j]
    BY <1>0, <1>4, FlyingIs DEF Idle
  <2>2. /\ Flying'.pc = Flying.pc /\ Flying'.kind = Flying.kind /\ Flying'.rel = Flying.rel
        /\ Flying'.force = (Flying.force \/ force) /\ Flying.pc # "none"
    BY <1>0, <1>1, <1>2, <1>4, <2>1 DEF CheckJobs, Idle
  <2>3. Stage' = Stage
    BY <2>2, StageIs
  <2>4. Stage # "none"
    BY <1>0, <2>2, StageIs, FlyingType DEF CheckJobs, Requested, Asking, Over
  <2>5. Ended' = Ended
    BY <2>2, <2>3 DEF Ended, EndOf
  <2>6. Insisted' = (Insisted \/ (force /\ Stage = "requested"))
    BY <2>2, <2>3 DEF Insisted
  <2> QED
    BY <1>1, <2>3, <2>4, <2>5, <2>6
<1> QED
  BY <1>3, <1>4

\* Only a click waits, and only a check that ends answers
LEMMA AttemptPlace ==
    ASSUME TypeOK, Attempt, ~Click
    PROVE  att'.pc \notin {"asked", "answered"}
<1>0. att \in Attempts
  BY DEF TypeOK
<1> USE <1>0 DEF NoAttempt, End, Attempts
<1>1. CASE TakeAnswer \/ GiveUp
  BY <1>1, PinFrame DEF TakeAnswer, GiveUp
<1>2. CASE PersistInstaller \/ PersistManifest
  BY <1>2 DEF PersistInstaller, PersistManifest
<1>3. CASE PersistMetadata
  <2>1. att' = [att EXCEPT !.pc = "record", !.prev = snap] \/ att' = NoAttempt
    BY <1>3, Zenon DEF PersistMetadata
  <2>2. CASE att' = [att EXCEPT !.pc = "record", !.prev = snap]
    BY <2>2
  <2> QED
    BY <2>1, <2>2
<1>4. CASE RecordDownloaded
  BY <1>4 DEF RecordDownloaded
<1>5. CASE TryVerify
  BY <1>5 DEF TryVerify
<1>6. CASE ClearFiles
  BY <1>6 DEF ClearFiles
<1>7. CASE ClearDownloaded
  BY <1>7 DEF ClearDownloaded
<1> QED
  BY <1>1, <1>2, <1>3, <1>4, <1>5, <1>6, <1>7 DEF Attempt

LEMMA AttemptSeen ==
    ASSUME Inv, Attempt
    PROVE  [Checking!Wait \/ Checking!Leave]_Seen
<1>1. CASE Click
  <2>0. att.pc = "idle" /\ shut' = shut
    BY <1>1, Zenon DEF Click, Doing
  <2>w. Waiter = "nobody" /\ WasTold = Checking!Open
    BY <2>0, AwayWaits
  <2>1. CASE Pin(snap) /\ UNCHANGED <<inFlight, jobs>>
    <3>1. att'.pc \notin {"asked", "answered"}
      BY <2>1, PinFrame
    <3>2. Flying' = Flying
      BY <2>1 DEF Flying
    <3> QED
      BY <2>0, <2>w, <3>1, <3>2, AwayWaitsNext, SameCheck DEF Seen, Checking!checkVars
  <2>2. ASSUME NEW j \in Jobs, RequestCheck(j, TRUE),
               att' = [NoAttempt EXCEPT !.pc = "asked", !.job = j]
        PROVE  Checking!Wait
    <3>1. att'.pc = "asked"
      BY <2>2 DEF NoAttempt
    <3>2. Waiter' = "waiting" /\ WasTold' = Checking!Open
      BY <3>1, Endings DEF Waiter, WasTold
    <3>3. /\ ~shut /\ Stage' = IF Stage = "none" THEN "requested" ELSE Stage
          /\ Insisted' = (Insisted \/ (TRUE /\ Stage' = "requested")) /\ Ended' = Ended
      BY <2>2, RequestSeen
    <3> QED
      BY <2>0, <2>w, <3>2, <3>3 DEF Checking!Wait, Checking!Request
  <2>3. \/ Pin(snap) /\ UNCHANGED <<inFlight, jobs>>
        \/ \E j \in Jobs : RequestCheck(j, TRUE) /\ att' = [NoAttempt EXCEPT !.pc = "asked", !.job = j]
    BY <1>1, Zenon DEF Click
  <2>4. (\E j \in Jobs : RequestCheck(j, TRUE) /\ att' = [NoAttempt EXCEPT !.pc = "asked", !.job = j])
           => Checking!Wait
    BY <2>2, Zenon
  <2> QED
    BY <2>1, <2>3, <2>4, Zenon
<1>2. CASE ~Click
  <2>0. UNCHANGED <<inFlight, jobs, shut>> /\ att'.pc # "asked"
    BY <1>2, AttemptFrame DEF Bystanders, Inv
  <2>1. Flying' = Flying
    BY <2>0 DEF Flying
  <2>2. UNCHANGED <<Stage, Insisted, Ended>>
    BY <2>1, SameCheck
  <2>3. CASE att.pc \in {"asked", "answered"}
    <3>1. att'.pc \notin {"asked", "answered"}
      BY <1>2, AttemptPlace DEF Inv
    <3>2. Waiter # "nobody"
      BY <2>3 DEF Waiter
    <3> QED
      BY <2>0, <2>2, <3>1, <3>2, AwayWaitsNext DEF Checking!Leave
  <2>4. CASE att.pc \notin {"asked", "answered"}
    <3>1. att'.pc \notin {"asked", "answered"}
      BY <1>2, AttemptPlace DEF Inv
    <3> QED
      BY <2>0, <2>2, <2>4, <3>1, AwayWaits, AwayWaitsNext DEF Seen, Checking!checkVars
  <2> QED
    BY <2>3, <2>4
<1> QED
  BY <1>1, <1>2

LEMMA SharedCheckStep ==
    ASSUME Inv, InvOpen, [Next]_vars
    PROVE  [Checking!Next]_Seen
<1> USE DEF Checking!Next
<1>1. CASE HydrateRead \/ HydrateWrite
  <2>1. UNCHANGED <<inFlight, jobs, att, shut>>
    BY <1>1 DEF HydrateRead, HydrateWrite
  <2>2. Flying' = Flying
    BY <2>1 DEF Flying
  <2> QED
    BY <2>1, <2>2, SameCheck, WaiterKept DEF Seen, Checking!checkVars
<1>2. CASE Tick
  <2>1. PICK j \in Jobs : RequestCheck(j, FALSE)
    BY <1>2 DEF Tick
  <2>2. UNCHANGED <<att, shut>>
    BY <1>2 DEF Tick
  <2>3. /\ ~shut /\ Stage' = IF Stage = "none" THEN "requested" ELSE Stage
        /\ Insisted' = (Insisted \/ (FALSE /\ Stage' = "requested")) /\ Ended' = Ended
    BY <2>1, RequestSeen
  <2> QED
    BY <2>2, <2>3, WaiterKept DEF Checking!Tick, Checking!Request
<1>3. ASSUME NEW j \in Jobs, Runner(j) PROVE [Checking!Next]_Seen
  <2>1. CASE Gate(j)
    BY <2>1, GateSeen DEF Inv
  <2>2. CASE CheckAsync(j) \/ PersistAvailable(j) \/ PersistSignature(j)
    BY <2>2, SourceSeen
  <2>3. CASE RunInFlight(j) \/ SetChecking(j) \/ Record(j) \/ FinishRead(j) \/ FinishWrite(j)
    BY <2>3, StoreSeen
  <2>4. CASE Complete(j)
    BY <2>4, CompleteSeen
  <2> QED
    BY <1>3, <2>1, <2>2, <2>3, <2>4 DEF Runner
<1>4. CASE Attempt
  BY <1>4, AttemptSeen
<1>5. CASE Shutdown
  <2>1. UNCHANGED <<inFlight, jobs, att>> /\ ~shut /\ shut'
    BY <1>5 DEF Shutdown
  <2>2. Flying' = Flying
    BY <2>1 DEF Flying
  <2> QED
    BY <2>1, <2>2, SameCheck, WaiterKept DEF Checking!Close
<1>6. CASE Restart
  <2>1. inFlight' = NoJob /\ att' = NoAttempt /\ shut' = FALSE
    BY <1>6 DEF Restart
  <2>2. Flying' = NoCheck /\ att'.pc = "idle"
    BY <2>1 DEF Flying, NoAttempt
  <2>3. Stage' = "none" /\ ~Insisted' /\ Ended' = Checking!Open
    BY <2>2, StageIs, Endings DEF Requested, Asking, Over, Insisted, Ended, NoCheck
  <2> QED
    BY <2>1, <2>2, <2>3, AwayWaitsNext DEF Checking!Restart
<1>7. CASE UNCHANGED vars
  <2>1. UNCHANGED <<inFlight, jobs, att, shut>>
    BY <1>7 DEF vars, memory
  <2>2. Flying' = Flying
    BY <2>1 DEF Flying
  <2> QED
    BY <2>1, <2>2, SameCheck, WaiterKept DEF Seen, Checking!checkVars
<1> QED
  BY <1>1, <1>2, <1>3, <1>4, <1>5, <1>6, <1>7 DEF Next

\* The requests of the timer, of the user and of the attempts share their checks as SharedCheck.tla
\* promises, for any number of releases and restarts: a request that insists is not throttled away
\* if it comes in time, and whoever waits is told of the check it waited for (RequestCheck(),
\* RunInFlight(), FinishInFlight(), Dispose())
THEOREM SharedCheckImplemented == Spec => ImplementsSharedCheck
<1>1. Init => Checking!Init
  <2> SUFFICES ASSUME Init PROVE Checking!Init
    OBVIOUS
  <2>1. Flying = NoCheck /\ att.pc = "idle" /\ ~shut
    BY DEF Init, Flying, NoAttempt
  <2>2. Stage = "none" /\ ~Insisted /\ Ended = Checking!Open
    BY <2>1, StageIs, Endings DEF Requested, Asking, Over, Insisted, Ended, NoCheck
  <2> QED
    BY <2>1, <2>2, AwayWaits DEF Checking!Init
<1>2. Inv /\ InvOpen /\ [Next]_vars => [Checking!Next]_Seen
  BY SharedCheckStep
<1> QED
  BY <1>1, <1>2, InvIsInvariant, OpenInvariance, PTL DEF Spec, ImplementsSharedCheck, Checking!Spec, Seen

=============================================================================
