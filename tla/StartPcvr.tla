------------------------------ MODULE StartPcvr ------------------------------
(***************************************************************************)
(* The launch transaction of the Quest host companion: POST /start_pcvr    *)
(* (quest/host/internal/server/start_pcvr.go), the /status handler that    *)
(* can end a transaction from outside (server.go), and the part of         *)
(* steamvr.Launcher they call.  Several HTTP handlers run at once; they    *)
(* share, under txMu, the gate (inflight) and the receipts (results).      *)
(*                                                                         *)
(* Only requests that passed authentication, the rate limiters and the     *)
(* validation of the body are modelled.  Time passes in ticks, at any      *)
(* moment: a lease holds the ticks it has left, a receipt its age.         *)
(***************************************************************************)
EXTENDS Integers, FiniteSets

CONSTANTS Handlers,      \* handler goroutines serving /start_pcvr
          Ids,           \* request_id values
          Payloads,      \* digests of the request body
          TxCap,         \* capacity of the receipts (1024)
          TxTTL,         \* ticks a receipt is honoured (30 s)
          StartupLease,  \* ticks of a startup lease (60 s)
          NoHandler,     \* no handler holds the pointer to the transaction
          NoTx,          \* the nil inflight pointer
          NoReceipt      \* an absent entry of results

Outcomes == {"STARTED", "ALREADY_RUNNING", "RECONNECT_REQUIRED"}

Receipts == [payload : Payloads, outcome : Outcomes, age : 0..TxTTL]

\* A transaction.  holder is the handler whose local variable tx.owner still
\* points to it and whose owner flag is set: a handler owns at most one, so
\* the holder stands for the pointer identity that finishTxLocked compares.
Txs == [id : Ids, payload : Payloads, dispatched : BOOLEAN,
        left : -1..StartupLease, holder : Handlers \cup {NoHandler}]

ASSUME CapAssumption == TxCap \in Nat \ {0}
ASSUME TimeAssumption == TxTTL \in Nat \ {0} /\ StartupLease \in Nat \ {0}
ASSUME ValueAssumption == /\ IsFiniteSet(Ids)
                          /\ NoHandler \notin Handlers
                          /\ NoTx \notin Txs
                          /\ NoReceipt \notin Receipts

\* Where a handler is between the fresh lookup and the launch.
Preflight == {"peer", "probe", "running", "codec", "start", "spawn"}

\* A launch was made and markDispatched has not recorded it yet.
Marking == {"mark", "markLate"}

Places == {"idle", "wait", "observed"} \cup Preflight \cup Marking

VARIABLES
  inflight,   \* Server.inflight: the transaction that holds the gate, or NoTx
  results,    \* Server.results: the receipt of a request id, or NoReceipt
  pc,         \* where each handler is
  req,        \* the request each handler serves
  seen,       \* /status: what its probe of vrserver returned and it has not used
  vr,         \* whether vrserver runs
  launch,     \* the last launch: none, late (its goroutine outlived Start), starting
  window      \* ticks left of the lease that belongs to the last launch

server == <<inflight, results>>
world == <<vr, launch, window>>
vars == <<inflight, results, pc, req, seen, vr, launch, window>>

TypeOK ==
  /\ inflight \in Txs \cup {NoTx}
  /\ results \in [Ids -> Receipts \cup {NoReceipt}]
  /\ pc \in [Handlers -> Places]
  /\ req \in [Handlers -> [id : Ids, payload : Payloads]]
  /\ seen \in BOOLEAN
  /\ vr \in BOOLEAN
  /\ launch \in {"none", "late", "starting"}
  /\ window \in -1..StartupLease

Init ==
  /\ inflight = NoTx
  /\ results = [i \in Ids |-> NoReceipt]
  /\ pc = [h \in Handlers |-> "idle"]
  /\ req \in [Handlers -> [id : Ids, payload : Payloads]]
  /\ seen = FALSE
  /\ vr \in BOOLEAN
  /\ launch = "none"
  /\ window = -1

-----------------------------------------------------------------------------
(* The transaction, each operator one critical section of txMu.            *)

Cached(rs) == {i \in Ids : rs[i] # NoReceipt}

ExpiredReceipt(r) == r # NoReceipt /\ r.age >= TxTTL

Pruned == [i \in Ids |-> IF ExpiredReceipt(results[i]) THEN NoReceipt ELSE results[i]]

\* Bug: the lease of a preflight runs out too.
BadLeaseOver == inflight # NoTx /\ inflight.left < 0

\* Only a dispatched startup can expire, and only after its lease.
LeaseOver == /\ inflight # NoTx
             /\ inflight.dispatched
             /\ inflight.left < 0

GateFree == inflight = NoTx \/ LeaseOver

\* Bug: the last slot is not counted.
BadCacheFull(rs) == Cardinality(Cached(rs)) > TxCap

CacheFull(rs) == Cardinality(Cached(rs)) >= TxCap

\* Bug: ownership goes by request id instead of pointer identity.
BadOwns(h) == inflight # NoTx /\ inflight.id = req[h].id

Owns(h) == inflight # NoTx /\ inflight.holder = h

\* finishTxLocked of the transaction in the gate, with a receipt.
FinishWith(outcome) ==
  /\ inflight' = NoTx
  /\ results' = [results EXCEPT ![inflight.id] =
                   [payload |-> inflight.payload, outcome |-> outcome, age |-> 0]]

\* Bug: the receipt is written whether or not the gate is still the handler's.
BadFinalise(h, outcome) ==
  /\ inflight' = IF Owns(h) THEN NoTx ELSE inflight
  /\ results' = [results EXCEPT ![req[h].id] =
                   [payload |-> req[h].payload, outcome |-> outcome, age |-> 0]]

\* completeTx with cache: a handler that lost the gate changes nothing.
Finalise(h, outcome) ==
  IF Owns(h) THEN FinishWith(outcome) ELSE UNCHANGED server

\* completeTx without cache: the gate opens and the failure is not kept.
FailStart(h) ==
  /\ inflight' = IF Owns(h) THEN NoTx ELSE inflight
  /\ UNCHANGED results

\* The transaction as markDispatched leaves it for its new holder.
Dispatched(holder) ==
  [inflight EXCEPT !.dispatched = TRUE, !.left = StartupLease, !.holder = holder]

Goto(h, place) == pc' = [pc EXCEPT ![h] = place]

-----------------------------------------------------------------------------
(* POST /start_pcvr                                                        *)

\* lookupOrBeginTx that finds a receipt (txCompleted, txConflict), a held gate
\* (txInProgress, txConflict, txStarting) or no free slot (txCacheFull): the
\* handler answers and is done.  The last one has already cleared an expired
\* transaction.
Refuse(h, r) ==
  LET live == Pruned
  IN  /\ pc[h] = "idle"
      /\ \/ /\ live[r.id] # NoReceipt \/ ~GateFree
            /\ UNCHANGED inflight
         \/ /\ live[r.id] = NoReceipt
            /\ GateFree
            /\ CacheFull(live)
            /\ inflight' = NoTx
      /\ results' = live
      /\ req' = [req EXCEPT ![h] = r]
      /\ UNCHANGED <<pc, seen, world>>

\* lookupOrBeginTx that takes the gate (txFresh).
Begin(h, r) ==
  LET live == Pruned
  IN  /\ pc[h] = "idle"
      /\ live[r.id] = NoReceipt
      /\ GateFree
      /\ ~CacheFull(live)
      /\ inflight' = [id |-> r.id, payload |-> r.payload, dispatched |-> FALSE,
                      left |-> StartupLease, holder |-> h]
      /\ results' = live
      /\ req' = [req EXCEPT ![h] = r]
      /\ Goto(h, "peer")
      /\ UNCHANGED <<seen, world>>

\* The three preflight calls that may fail: EnsurePeer (or nothing to bind),
\* the probe of vrserver, and CodecState with the codec rules of a cold start.
EnsurePeer(h) ==
  /\ pc[h] = "peer"
  /\ \/ Goto(h, "probe") /\ UNCHANGED server
     \/ Goto(h, "idle") /\ FailStart(h)
  /\ UNCHANGED <<req, seen, world>>

Probe(h) ==
  /\ pc[h] = "probe"
  /\ \/ Goto(h, IF vr THEN "running" ELSE "codec") /\ UNCHANGED server
     \/ Goto(h, "idle") /\ FailStart(h)
  /\ UNCHANGED <<req, seen, world>>

\* SteamVR was already up: the answer is kept, or the versions do not match.
AlreadyRunning(h) ==
  /\ pc[h] = "running"
  /\ \/ \E o \in {"ALREADY_RUNNING", "RECONNECT_REQUIRED"} : Finalise(h, o)
     \/ FailStart(h)
  /\ Goto(h, "idle")
  /\ UNCHANGED <<req, seen, world>>

CheckCodec(h) ==
  /\ pc[h] = "codec"
  /\ \/ Goto(h, "start") /\ UNCHANGED server
     \/ Goto(h, "idle") /\ FailStart(h)
  /\ UNCHANGED <<req, seen, world>>

\* Launcher.Start: the second probe, then a launch unless vrserver runs or
\* the probe failed.
LauncherProbe(h) ==
  /\ pc[h] = "start"
  /\ \/ ~vr /\ Goto(h, "spawn") /\ UNCHANGED server
     \/ Goto(h, "idle") /\ FailStart(h)
  /\ UNCHANGED <<req, seen, world>>

\* launchFn answers within launchTimeout.
Spawn(h) ==
  /\ pc[h] = "spawn"
  /\ launch' = "starting"
  /\ window' = StartupLease
  /\ Goto(h, "mark")
  /\ UNCHANGED <<server, req, seen, vr>>

\* launchFn fails.
SpawnFails(h) ==
  /\ pc[h] = "spawn"
  /\ FailStart(h)
  /\ Goto(h, "idle")
  /\ UNCHANGED <<req, seen, world>>

\* launchTimeout passes first: the goroutine may still launch later.
SpawnLate(h) ==
  /\ pc[h] = "spawn"
  /\ launch' = "late"
  /\ window' = StartupLease
  /\ Goto(h, "markLate")
  /\ UNCHANGED <<server, req, seen, vr>>

\* markDispatched after a launch that answered; the handler goes on to wait.
MarkDispatched(h) ==
  /\ pc[h] = "mark"
  /\ inflight' = IF Owns(h) THEN Dispatched(h) ELSE inflight
  /\ Goto(h, "wait")
  /\ UNCHANGED <<results, req, seen, world>>

\* Bug: an uncertain launch keeps the gate without being marked dispatched.
BadMarkLate(h) ==
  /\ pc[h] = "markLate"
  /\ inflight' = IF Owns(h) THEN [inflight EXCEPT !.holder = NoHandler] ELSE inflight
  /\ Goto(h, "idle")
  /\ UNCHANGED <<results, req, seen, world>>

\* markDispatched after DeadlineExceeded; the handler gives up ownership.
MarkLate(h) ==
  /\ pc[h] = "markLate"
  /\ inflight' = IF Owns(h) THEN Dispatched(NoHandler) ELSE inflight
  /\ Goto(h, "idle")
  /\ UNCHANGED <<results, req, seen, world>>

\* waitForVRServer sees vrserver ...
Observe(h) ==
  /\ pc[h] = "wait"
  /\ vr
  /\ Goto(h, "observed")
  /\ UNCHANGED <<server, req, seen, world>>

\* ... and the handler caches STARTED, if the gate is still its own.
Started(h) ==
  /\ pc[h] = "observed"
  /\ Finalise(h, "STARTED")
  /\ Goto(h, "idle")
  /\ UNCHANGED <<req, seen, world>>

\* Bug: the wait that ends without vrserver fails the transaction.
BadGiveUp(h) ==
  /\ pc[h] = "wait"
  /\ inflight' = IF Owns(h) THEN NoTx ELSE inflight
  /\ Goto(h, "idle")
  /\ UNCHANGED <<results, req, seen, world>>

\* startupProbe passes first: STARTING, the lease stays in the gate.
GiveUp(h) ==
  /\ pc[h] = "wait"
  /\ inflight' = IF Owns(h) THEN [inflight EXCEPT !.holder = NoHandler] ELSE inflight
  /\ Goto(h, "idle")
  /\ UNCHANGED <<results, req, seen, world>>

-----------------------------------------------------------------------------
(* GET /status                                                             *)

\* The probe of vrserver; the one of the dashboard follows before its result
\* is used.
StatusProbe ==
  /\ ~seen
  /\ vr
  /\ seen' = TRUE
  /\ UNCHANGED <<server, pc, req, world>>

\* resolveDispatchedTx.
StatusResolve ==
  /\ seen
  /\ seen' = FALSE
  /\ IF inflight # NoTx /\ inflight.dispatched
     THEN FinishWith("STARTED")
     ELSE UNCHANGED server
  /\ UNCHANGED <<pc, req, world>>

\* The probe of the dashboard failed: an error answer, nothing is resolved.
StatusFails ==
  /\ seen
  /\ seen' = FALSE
  /\ UNCHANGED <<server, pc, req, world>>

-----------------------------------------------------------------------------
(* Time and SteamVR (external).                                            *)

Older(r) == IF r = NoReceipt THEN r
            ELSE [r EXCEPT !.age = IF @ < TxTTL THEN @ + 1 ELSE @]

Less(n) == IF n < 0 THEN n ELSE n - 1

Tick ==
  /\ inflight' = IF inflight = NoTx THEN NoTx ELSE [inflight EXCEPT !.left = Less(@)]
  /\ results' = [i \in Ids |-> Older(results[i])]
  /\ window' = Less(window)
  /\ UNCHANGED <<pc, req, seen, vr, launch>>

\* vrserver comes up, from a launch or by the user's hand, or exits.
VrUp ==
  /\ ~vr
  /\ vr' = TRUE
  /\ launch' = IF launch = "starting" THEN "none" ELSE launch
  /\ UNCHANGED <<server, pc, req, seen, window>>

VrExits ==
  /\ vr
  /\ vr' = FALSE
  /\ UNCHANGED <<server, pc, req, seen, launch, window>>

\* A late launch is made after all, or a launch comes to nothing.
LateSpawn ==
  /\ launch = "late"
  /\ launch' = IF vr THEN "none" ELSE "starting"
  /\ UNCHANGED <<server, pc, req, seen, vr, window>>

LaunchDies ==
  /\ launch # "none"
  /\ launch' = "none"
  /\ UNCHANGED <<server, pc, req, seen, vr, window>>

Serve(h) == \/ EnsurePeer(h) \/ Probe(h) \/ AlreadyRunning(h) \/ CheckCodec(h)
            \/ LauncherProbe(h) \/ Spawn(h) \/ SpawnFails(h) \/ SpawnLate(h)
            \/ MarkDispatched(h) \/ MarkLate(h)
            \/ Observe(h) \/ Started(h) \/ GiveUp(h)

Accept(h) == \E r \in [id : Ids, payload : Payloads] : Refuse(h, r) \/ Begin(h, r)

Status == StatusProbe \/ StatusResolve \/ StatusFails

SteamVR == VrUp \/ VrExits \/ LateSpawn \/ LaunchDies

Next == \/ \E h \in Handlers : Accept(h) \/ Serve(h)
        \/ Status
        \/ Tick
        \/ SteamVR

\* Every call a handler makes is bounded by a timeout, and time passes.
Fairness == /\ \A h \in Handlers : WF_vars(Serve(h))
            /\ WF_vars(Tick)

Spec == Init /\ [][Next]_vars /\ Fairness

-----------------------------------------------------------------------------
(* The gate a client sees.                                                 *)

\* The transaction is launched from the launch on, not only once it is marked.
Phase ==
  IF inflight = NoTx THEN "free"
  ELSE IF LeaseOver THEN "over"
  ELSE IF inflight.dispatched \/ (\E h \in Handlers : Owns(h) /\ pc[h] \in Marking)
  THEN "starting" ELSE "preparing"

Request == IF inflight = NoTx THEN NoReceipt
           ELSE [id |-> inflight.id, payload |-> inflight.payload]

Told == [i \in Ids |-> IF Pruned[i] = NoReceipt THEN NoReceipt
                       ELSE [payload |-> results[i].payload, outcome |-> results[i].outcome]]

Gate == INSTANCE LaunchGate
          WITH Cap <- TxCap, Nothing <- NoReceipt, phase <- Phase, request <- Request, told <- Told

-----------------------------------------------------------------------------
(* What the transaction promises.                                          *)

\* A handler on its way to a launch holds the gate, with an undispatched
\* transaction that carries its own request: a lease that runs out cannot hand
\* the gate of a slow preflight to another request (lookupOrBeginTx), so two
\* handlers never prepare a launch at once.
PreflightHoldsGate ==
  \A h \in Handlers : pc[h] \in Preflight \cup Marking =>
    /\ Owns(h)
    /\ ~inflight.dispatched
    /\ inflight.id = req[h].id
    /\ inflight.payload = req[h].payload

\* The receipt of the transaction in the gate has its slot: results never
\* exceed txCap, whoever finishes the transaction ("Its slot was reserved
\* before side effects").
SlotReserved ==
  /\ Cardinality(Cached(results)) <= TxCap
  /\ inflight # NoTx => Cardinality(Cached(results)) < TxCap

\* A receipt is never dropped before its TTL, and neither its payload nor its
\* outcome ever changes while it is honoured: a late handler or a /status
\* answer cannot rewrite what a retry was told.
ReceiptKept ==
  [][\A i \in Ids : (results[i] # NoReceipt /\ ~ExpiredReceipt(results[i])) =>
       /\ results'[i] # NoReceipt
       /\ results'[i].payload = results[i].payload
       /\ results'[i].outcome = results[i].outcome]_vars

Launches(h) == pc[h] = "spawn" /\ pc'[h] \in Marking

\* No request launches SteamVR under a request id whose receipt still stands,
\* so that a retry of a finished request never starts a second copy.
ReplayNeverLaunches ==
  [][\A h \in Handlers : Launches(h) =>
       (results[req[h].id] = NoReceipt \/ ExpiredReceipt(results[req[h].id]))]_vars

\* To a client the handlers, /status and the leases together are one gate
\* (LaunchGate): whatever overlaps or comes late, a taking launches at most once,
\* a launch that was made is answered STARTED or holds the gate for its lease, and
\* is never reported as a failure that may be tried again at once.
ImplementsGate == Gate!Spec

\* Whoever takes the gate, it opens again: every path of the handler either
\* clears it or leaves a dispatched transaction whose lease runs out.
GateOpens == []<>GateFree

\* Until the launched vrserver was observed, no request inside the lease starts
\* a second copy (the comment in handleStatus: before that transition "every
\* /start_pcvr inside the lease must return STARTING (no second launch)").
SingleLaunch ==
  [][\A h \in Handlers : Launches(h) => ~(launch = "starting" /\ window >= 0)]_vars

=============================================================================
