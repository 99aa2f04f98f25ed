--------------------------- MODULE StartPcvrProofs ---------------------------
(***************************************************************************)
(* The safety properties of StartPcvr hold for every number of handlers,   *)
(* request ids and payloads, every capacity, TTL and lease.                *)
(***************************************************************************)
EXTENDS StartPcvr, FiniteSetTheorems, TLAPS

\* The transaction in the gate has no receipt yet: its request id was looked
\* up under the same lock, and no other transaction can finish while it is in.
GateHasNoReceipt == inflight # NoTx => results[inflight.id] = NoReceipt

IInv == TypeOK /\ PreflightHoldsGate /\ SlotReserved /\ GateHasNoReceipt

\* The values that stand for "none" are none of the values they replace.
LEMMA NoneIsNone == /\ \A t \in Txs : t # NoTx
                    /\ \A r \in Receipts : r # NoReceipt
                    /\ \A h \in Handlers : h # NoHandler
    BY ValueAssumption

\* A transaction with new fields is a transaction of the same request.
LEMMA ChangedTx ==
    ASSUME NEW t \in Txs, NEW g \in Handlers \cup {NoHandler}, NEW n \in -1..StartupLease,
           NEW d \in BOOLEAN
    PROVE  LET u == [t EXCEPT !.dispatched = d, !.left = n, !.holder = g]
           IN  u \in Txs /\ u.id = t.id /\ u.payload = t.payload
    <1> DEFINE t1 == [t EXCEPT !.dispatched = d]
               t2 == [t1 EXCEPT !.left = n]
               t3 == [t2 EXCEPT !.holder = g]
    <1>1. t1 \in Txs /\ t1.id = t.id /\ t1.payload = t.payload
        BY DEF Txs
    <1>2. t2 \in Txs /\ t2.id = t.id /\ t2.payload = t.payload
        BY <1>1 DEF Txs
    <1>3. t3 \in Txs /\ t3.id = t.id /\ t3.payload = t.payload
        BY <1>2 DEF Txs
    <1>4. t3 = [t EXCEPT !.dispatched = d, !.left = n, !.holder = g]
        OBVIOUS
    <1> QED BY <1>3, <1>4

\* What the three kinds of steps that change it do to a transaction.
LEMMA ChangedGate ==
    ASSUME inflight \in Txs, NEW g \in Handlers \cup {NoHandler}
    PROVE  /\ Dispatched(g) \in Txs /\ Dispatched(g).id = inflight.id
           /\ [inflight EXCEPT !.holder = g] \in Txs
           /\ [inflight EXCEPT !.holder = g].id = inflight.id
           /\ [inflight EXCEPT !.left = Less(@)] \in Txs
           /\ [inflight EXCEPT !.left = Less(@)].id = inflight.id
    <1>1. StartupLease \in -1..StartupLease /\ Less(inflight.left) \in -1..StartupLease
        BY TimeAssumption DEF Txs, Less
    <1>2. Dispatched(g) \in Txs /\ Dispatched(g).id = inflight.id
        BY <1>1, ChangedTx DEF Dispatched
    <1>3. /\ [inflight EXCEPT !.holder = g] \in Txs
          /\ [inflight EXCEPT !.holder = g].id = inflight.id
        BY DEF Txs
    <1>4. /\ [inflight EXCEPT !.left = Less(@)] \in Txs
          /\ [inflight EXCEPT !.left = Less(@)].id = inflight.id
        BY <1>1 DEF Txs
    <1> QED BY <1>2, <1>3, <1>4

\* Pruning keeps the type of the receipts.
LEMMA PrunedType == ASSUME TypeOK PROVE Pruned \in [Ids -> Receipts \cup {NoReceipt}]
    BY DEF TypeOK, Pruned

-----------------------------------------------------------------------------
(* What a step does to the gate and the receipts                           *)

\* A finished transaction leaves the gate and its receipt.
Finishes == inflight # NoTx /\ \E o \in Outcomes : FinishWith(o)

\* The gate opens without a receipt; expired receipts may go.
Opens == inflight' = NoTx /\ results' \in {results, Pruned}

\* A transaction is taken in.
Takes == \E h \in Handlers, i \in Ids, p \in Payloads :
             /\ inflight' = [id |-> i, payload |-> p, dispatched |-> FALSE,
                             left |-> StartupLease, holder |-> h]
             /\ results' = Pruned
             /\ Pruned[i] = NoReceipt
             /\ ~CacheFull(Pruned)

\* The transaction in the gate goes on, under the same request id.
Keeps == /\ inflight = NoTx <=> inflight' = NoTx
         /\ inflight # NoTx => inflight'.id = inflight.id
         /\ results' \in {results, Pruned, [i \in Ids |-> Older(results[i])]}

\* Every step is one of the four.
LEMMA ServerSteps ==
    ASSUME TypeOK, [Next]_vars PROVE Finishes \/ Opens \/ Takes \/ Keeps
    <1> USE DEF server
    <1>1. ASSUME NEW h \in Handlers, NEW o \in Outcomes, Finalise(h, o)
          PROVE  Finishes \/ Keeps
        BY <1>1 DEF Finalise, Finishes, Keeps, Owns
    <1>2. ASSUME NEW h \in Handlers, FailStart(h) PROVE Opens \/ Keeps
        BY <1>2 DEF FailStart, Opens, Keeps
    <1>3. ASSUME UNCHANGED server PROVE Keeps
        BY <1>3 DEF Keeps
    <1>4. ASSUME NEW h \in Handlers, NEW r \in [id : Ids, payload : Payloads], Refuse(h, r)
          PROVE  Opens \/ Keeps
        BY <1>4 DEF Refuse, Opens, Keeps
    <1>5. ASSUME NEW h \in Handlers, NEW r \in [id : Ids, payload : Payloads], Begin(h, r)
          PROVE  Takes
        BY <1>5 DEF Begin, Takes
    <1>6. ASSUME NEW h \in Handlers, Serve(h) PROVE Finishes \/ Opens \/ Keeps
        <2>1. CASE AlreadyRunning(h) \/ Started(h)
            <3>1. \/ Finalise(h, "ALREADY_RUNNING") \/ Finalise(h, "RECONNECT_REQUIRED")
                  \/ Finalise(h, "STARTED") \/ FailStart(h)
                BY <2>1 DEF AlreadyRunning, Started
            <3> QED BY <3>1, <1>1, <1>2 DEF Outcomes
        <2>2. CASE EnsurePeer(h) \/ Probe(h) \/ CheckCodec(h) \/ LauncherProbe(h) \/ SpawnFails(h)
            BY <2>2, <1>2, <1>3 DEF EnsurePeer, Probe, CheckCodec, LauncherProbe, SpawnFails
        <2>3. CASE Spawn(h) \/ SpawnLate(h) \/ Observe(h)
            BY <2>3, <1>3 DEF Spawn, SpawnLate, Observe
        <2>4. CASE MarkDispatched(h) \/ MarkLate(h) \/ GiveUp(h)
            <3>1. Owns(h) => inflight \in Txs
                BY DEF TypeOK, Owns
            <3>2. /\ results' = results
                  /\ inflight' \in {inflight, Dispatched(h), Dispatched(NoHandler),
                                    [inflight EXCEPT !.holder = NoHandler]}
                  /\ ~Owns(h) => inflight' = inflight
                BY <2>4 DEF MarkDispatched, MarkLate, GiveUp
            <3>3. CASE Owns(h)
                <4> DEFINE ok(t) == t \in Txs /\ t.id = inflight.id
                <4>1. ok(inflight) /\ ok(Dispatched(h)) /\ ok(Dispatched(NoHandler))
                      /\ ok([inflight EXCEPT !.holder = NoHandler])
                    BY <3>1, <3>3, ChangedGate
                <4> HIDE DEF ok
                <4>2. ok(inflight')
                    BY <4>1, <3>2
                <4> USE DEF ok
                <4> QED BY <4>2, <3>1, <3>2, <3>3, NoneIsNone DEF Keeps
            <3> QED BY <3>2, <3>3 DEF Keeps
        <2> QED BY <1>6, <2>1, <2>2, <2>3, <2>4 DEF Serve
    <1>7. CASE Status
        BY <1>7, <1>3 DEF Status, StatusProbe, StatusResolve, StatusFails, Finishes, Outcomes
    <1>8. CASE Tick
        <2>1. inflight # NoTx => /\ [inflight EXCEPT !.left = Less(@)] \in Txs
                                 /\ [inflight EXCEPT !.left = Less(@)].id = inflight.id
            BY ChangedGate DEF TypeOK
        <2> QED BY <1>8, <2>1, NoneIsNone DEF Tick, Keeps
    <1>9. CASE SteamVR
        BY <1>9, <1>3 DEF SteamVR, VrUp, VrExits, LateSpawn, LaunchDies
    <1>10. CASE UNCHANGED vars
        BY <1>10, <1>3 DEF vars
    <1> QED BY <1>4, <1>5, <1>6, <1>7, <1>8, <1>9, <1>10 DEF Next, Accept

-----------------------------------------------------------------------------
(* Every step keeps the inductive invariant                                *)

\* The types are kept.
LEMMA TypeStep == TypeOK /\ [Next]_vars => TypeOK'
    <1> SUFFICES ASSUME TypeOK, [Next]_vars PROVE TypeOK'
        OBVIOUS
    <1>1. \A h \in Handlers, p \in Places : [pc EXCEPT ![h] = p] \in [Handlers -> Places]
        BY DEF TypeOK
    <1>2. \A g \in Handlers \cup {NoHandler} : inflight # NoTx =>
              /\ Dispatched(g) \in Txs
              /\ [inflight EXCEPT !.holder = g] \in Txs
              /\ [inflight EXCEPT !.left = Less(@)] \in Txs
        BY ChangedGate DEF TypeOK
    <1>3. ASSUME NEW o \in Outcomes, inflight # NoTx, FinishWith(o)
          PROVE  inflight' = NoTx /\ results' \in [Ids -> Receipts \cup {NoReceipt}]
        <2>1. inflight.id \in Ids /\ inflight.payload \in Payloads
            BY <1>3 DEF TypeOK, Txs
        <2>2. [payload |-> inflight.payload, outcome |-> o, age |-> 0] \in Receipts
            BY <2>1, TimeAssumption DEF Receipts
        <2> QED BY <1>3, <2>2 DEF FinishWith, TypeOK
    <1>4. ASSUME NEW h \in Handlers, NEW o \in Outcomes, Finalise(h, o)
          PROVE  /\ inflight' \in Txs \cup {NoTx}
                 /\ results' \in [Ids -> Receipts \cup {NoReceipt}]
        BY <1>3, <1>4 DEF Finalise, Owns, server, TypeOK
    <1>5. ASSUME NEW h \in Handlers, FailStart(h)
          PROVE  inflight' \in Txs \cup {NoTx} /\ results' = results
        BY <1>5 DEF FailStart, TypeOK
    <1>6. ASSUME NEW h \in Handlers, NEW r \in [id : Ids, payload : Payloads],
                 Refuse(h, r) \/ Begin(h, r)
          PROVE  TypeOK'
        <2>1. inflight' \in Txs \cup {NoTx}
            <3>1. [id |-> r.id, payload |-> r.payload, dispatched |-> FALSE,
                   left |-> StartupLease, holder |-> h] \in Txs
                BY TimeAssumption DEF Txs
            <3>2. inflight' \in {inflight, NoTx, [id |-> r.id, payload |-> r.payload,
                      dispatched |-> FALSE, left |-> StartupLease, holder |-> h]}
                BY <1>6 DEF Refuse, Begin
            <3> QED BY <3>1, <3>2 DEF TypeOK
        <2>2. results' \in [Ids -> Receipts \cup {NoReceipt}]
            BY <1>6, PrunedType DEF Refuse, Begin
        <2>3. pc' \in [Handlers -> Places]
            BY <1>6, <1>1 DEF Refuse, Begin, Goto, Places, Preflight, TypeOK
        <2>4. req' \in [Handlers -> [id : Ids, payload : Payloads]]
            BY <1>6 DEF Refuse, Begin, TypeOK
        <2>5. UNCHANGED <<seen, world>>
            BY <1>6 DEF Refuse, Begin
        <2> QED BY <2>1, <2>2, <2>3, <2>4, <2>5 DEF TypeOK, world
    <1>7. ASSUME NEW h \in Handlers, Serve(h) PROVE TypeOK'
        <2>1. \E p \in Places : pc' = [pc EXCEPT ![h] = p]
            BY <1>7 DEF Serve, EnsurePeer, Probe, AlreadyRunning, CheckCodec, LauncherProbe, Spawn,
                SpawnFails, SpawnLate, MarkDispatched, MarkLate, Observe, Started, GiveUp, Goto,
                Places, Preflight, Marking
        <2>2. /\ inflight' \in Txs \cup {NoTx}
              /\ results' \in [Ids -> Receipts \cup {NoReceipt}]
            <3>1. CASE UNCHANGED server
                BY <3>1 DEF server, TypeOK
            <3>2. CASE AlreadyRunning(h) \/ Started(h)
                <4>1. \/ Finalise(h, "ALREADY_RUNNING") \/ Finalise(h, "RECONNECT_REQUIRED")
                      \/ Finalise(h, "STARTED") \/ FailStart(h)
                    BY <3>2 DEF AlreadyRunning, Started
                <4> QED BY <4>1, <1>4, <1>5 DEF Outcomes, TypeOK
            <3>3. CASE FailStart(h)
                BY <3>3, <1>5 DEF TypeOK
            <3>4. CASE MarkDispatched(h) \/ MarkLate(h) \/ GiveUp(h)
                BY <3>4, <1>2 DEF MarkDispatched, MarkLate, GiveUp, Owns, TypeOK
            <3> QED
                BY <1>7, <3>1, <3>2, <3>3, <3>4
                DEF Serve, EnsurePeer, Probe, CheckCodec, LauncherProbe, Spawn, SpawnFails,
                    SpawnLate, Observe, server
        <2>3. /\ launch' \in {"none", "late", "starting"}
              /\ window' \in -1..StartupLease
              /\ UNCHANGED <<req, seen, vr>>
            BY <1>7, TimeAssumption
            DEF Serve, EnsurePeer, Probe, AlreadyRunning, CheckCodec, LauncherProbe, Spawn,
                SpawnFails, SpawnLate, MarkDispatched, MarkLate, Observe, Started, GiveUp, world,
                TypeOK
        <2> QED BY <2>1, <2>2, <2>3, <1>1 DEF TypeOK
    <1>8. CASE Status
        <2>1. UNCHANGED <<pc, req, world>> /\ seen' \in BOOLEAN
            BY <1>8 DEF Status, StatusProbe, StatusResolve, StatusFails
        <2>2. /\ inflight' \in Txs \cup {NoTx}
              /\ results' \in [Ids -> Receipts \cup {NoReceipt}]
            BY <1>8, <1>3
            DEF Status, StatusProbe, StatusResolve, StatusFails, server, Outcomes, TypeOK
        <2> QED BY <2>1, <2>2 DEF TypeOK, world
    <1>9. CASE Tick
        <2>1. \A r \in Receipts \cup {NoReceipt} : Older(r) \in Receipts \cup {NoReceipt}
            BY TimeAssumption DEF Older, Receipts
        <2>2. results' \in [Ids -> Receipts \cup {NoReceipt}]
            BY <1>9, <2>1 DEF Tick, TypeOK
        <2>3. inflight' \in Txs \cup {NoTx}
            BY <1>9, <1>2 DEF Tick, TypeOK
        <2>4. window' \in -1..StartupLease /\ UNCHANGED <<pc, req, seen, vr, launch>>
            BY <1>9, TimeAssumption DEF Tick, Less, TypeOK
        <2> QED BY <2>2, <2>3, <2>4 DEF TypeOK
    <1>10. CASE SteamVR
        BY <1>10 DEF SteamVR, VrUp, VrExits, LateSpawn, LaunchDies, TypeOK, server
    <1>11. CASE UNCHANGED vars
        BY <1>11 DEF vars, TypeOK
    <1> QED BY <1>6, <1>7, <1>8, <1>9, <1>10, <1>11 DEF Next, Accept

\* A finished transaction adds the one receipt that GateHasNoReceipt left out.
LEMMA FinishAdds ==
    ASSUME TypeOK, GateHasNoReceipt, inflight # NoTx, NEW o \in Outcomes, FinishWith(o)
    PROVE  /\ inflight.id \in Ids \ Cached(results)
           /\ Cached(results') = Cached(results) \cup {inflight.id}
    <1>1. inflight.id \in Ids /\ inflight.payload \in Payloads
        BY DEF TypeOK, Txs
    <1>2. [payload |-> inflight.payload, outcome |-> o, age |-> 0] \in Receipts
        BY <1>1, TimeAssumption DEF Receipts
    <1>3. results'[inflight.id] # NoReceipt
        BY <1>1, <1>2, NoneIsNone DEF FinishWith, TypeOK
    <1>4. \A i \in Ids : i # inflight.id => results'[i] = results[i]
        BY <1>1 DEF FinishWith, TypeOK
    <1> QED BY <1>1, <1>3, <1>4 DEF Cached, GateHasNoReceipt

\* Neither pruning nor aging adds a receipt.
LEMMA NoneAdded ==
    ASSUME TypeOK, results' \in {results, Pruned, [i \in Ids |-> Older(results[i])]}
    PROVE  /\ Cached(results') \subseteq Cached(results)
           /\ Cached(results') \subseteq Ids /\ Cached(results) \subseteq Ids
           /\ \A i \in Ids : results[i] = NoReceipt => results'[i] = NoReceipt
    <1>1. \A i \in Ids : results[i] = NoReceipt => results'[i] = NoReceipt
        BY DEF Pruned, ExpiredReceipt, Older
    <1> QED BY <1>1 DEF Cached

\* Sizes of sets of request ids.
LEMMA CardinalityFacts ==
    ASSUME NEW S \in SUBSET Ids, NEW T \in SUBSET S
    PROVE  /\ Cardinality(S) \in Nat /\ Cardinality(T) \in Nat
           /\ Cardinality(T) <= Cardinality(S)
           /\ \A i \in Ids \ S : Cardinality(S \cup {i}) = Cardinality(S) + 1
    <1>1. IsFiniteSet(S) /\ IsFiniteSet(T)
        BY FS_Subset, ValueAssumption
    <1> QED BY <1>1, FS_Subset, FS_CardinalityType, FS_AddElement

\* The slot of the transaction in the gate stays free until it is filled.
LEMMA SlotStep == IInv /\ [Next]_vars => SlotReserved' /\ GateHasNoReceipt'
    <1> SUFFICES ASSUME IInv, [Next]_vars PROVE SlotReserved' /\ GateHasNoReceipt'
        OBVIOUS
    <1> USE CapAssumption
    <1>1. CASE Finishes
        <2>1. PICK o \in Outcomes : inflight # NoTx /\ FinishWith(o)
            BY <1>1 DEF Finishes
        <2>2. inflight' = NoTx
            BY <2>1 DEF FinishWith
        <2>3. /\ inflight.id \in Ids \ Cached(results)
              /\ Cached(results') = Cached(results) \cup {inflight.id}
            BY <2>1, FinishAdds DEF IInv
        <2>4. Cardinality(Cached(results')) = Cardinality(Cached(results)) + 1
              /\ Cardinality(Cached(results)) \in Nat
            BY <2>3, CardinalityFacts DEF Cached
        <2>5. Cardinality(Cached(results)) < TxCap
            BY <2>1 DEF IInv, SlotReserved
        <2> QED BY <2>2, <2>4, <2>5 DEF SlotReserved, GateHasNoReceipt
    <1>2. ASSUME results' \in {results, Pruned, [i \in Ids |-> Older(results[i])]}
          PROVE  /\ Cardinality(Cached(results')) <= Cardinality(Cached(results))
                 /\ Cardinality(Cached(results')) \in Nat
                 /\ Cardinality(Cached(results)) \in Nat
        BY <1>2, NoneAdded, CardinalityFacts DEF IInv
    <1>3. CASE Opens
        BY <1>3, <1>2 DEF Opens, IInv, SlotReserved, GateHasNoReceipt
    <1>4. CASE Takes
        <2>1. PICK h \in Handlers, i \in Ids, p \in Payloads :
                  /\ inflight' = [id |-> i, payload |-> p, dispatched |-> FALSE,
                                  left |-> StartupLease, holder |-> h]
                  /\ results' = Pruned /\ Pruned[i] = NoReceipt /\ ~CacheFull(Pruned)
            BY <1>4 DEF Takes
        <2>2. Cardinality(Cached(results')) < TxCap
            BY <2>1, <1>2 DEF CacheFull
        <2>3. inflight'.id = i
            BY <2>1
        <2> QED BY <2>1, <2>2, <2>3, <1>2 DEF SlotReserved, GateHasNoReceipt
    <1>5. CASE Keeps
        <2>1. /\ inflight = NoTx <=> inflight' = NoTx
              /\ inflight # NoTx => inflight'.id = inflight.id /\ inflight.id \in Ids
            BY <1>5 DEF Keeps, IInv, TypeOK, Txs
        <2>2. results' \in {results, Pruned, [i \in Ids |-> Older(results[i])]}
            BY <1>5 DEF Keeps
        <2>3. SlotReserved'
            BY <2>1, <2>2, <1>2 DEF IInv, SlotReserved
        <2>4. GateHasNoReceipt'
            BY <2>1, <2>2, NoneAdded DEF IInv, GateHasNoReceipt
        <2> QED BY <2>3, <2>4
    <1> QED BY <1>1, <1>3, <1>4, <1>5, ServerSteps DEF IInv

\* Nobody prepares a launch while the gate is free or a startup is dispatched,
\* and nobody but its holder while it is held.
LEMMA HolderAlone ==
    ASSUME PreflightHoldsGate, NEW h \in Handlers, pc[h] \in Preflight \cup Marking
    PROVE  ~GateFree /\ ~inflight.dispatched /\ inflight # NoTx
           /\ \A g \in Handlers : Owns(g) => g = h
    BY DEF PreflightHoldsGate, Owns, GateFree, LeaseOver

\* Only a fresh lookup starts a preflight, and only when the gate is free.
LEMMA GateStep == IInv /\ [Next]_vars => PreflightHoldsGate'
    <1> SUFFICES ASSUME IInv, [Next]_vars,
                        NEW g \in Handlers, pc'[g] \in Preflight \cup Marking
                 PROVE  /\ inflight' # NoTx /\ inflight'.holder = g /\ ~inflight'.dispatched
                        /\ inflight'.id = req'[g].id /\ inflight'.payload = req'[g].payload
        BY DEF PreflightHoldsGate, Owns
    <1> DEFINE held == /\ inflight # NoTx /\ inflight.holder = g /\ ~inflight.dispatched
                       /\ inflight.id = req[g].id /\ inflight.payload = req[g].payload
    <1>1. pc[g] \in Preflight \cup Marking => held
        BY DEF IInv, PreflightHoldsGate, Owns
    <1>2. ASSUME pc[g] \in Preflight \cup Marking, inflight' = inflight, req'[g] = req[g]
          PROVE  /\ inflight' # NoTx /\ inflight'.holder = g /\ ~inflight'.dispatched
                 /\ inflight'.id = req'[g].id /\ inflight'.payload = req'[g].payload
        BY <1>1, <1>2
    <1>3. ASSUME NEW h \in Handlers, NEW r \in [id : Ids, payload : Payloads], Refuse(h, r)
          PROVE  pc[g] \in Preflight \cup Marking /\ inflight' = inflight /\ req'[g] = req[g]
        <2>1. pc' = pc /\ pc[h] = "idle" /\ req' = [req EXCEPT ![h] = r]
              /\ (inflight' = inflight \/ GateFree)
            BY <1>3 DEF Refuse
        <2>2. g # h
            BY <2>1 DEF Preflight, Marking
        <2> QED BY <2>1, <2>2, HolderAlone DEF IInv, TypeOK
    <1>4. ASSUME NEW h \in Handlers, NEW r \in [id : Ids, payload : Payloads], Begin(h, r)
          PROVE  /\ inflight' # NoTx /\ inflight'.holder = g /\ ~inflight'.dispatched
                 /\ inflight'.id = req'[g].id /\ inflight'.payload = req'[g].payload
        <2>1. /\ GateFree /\ pc' = [pc EXCEPT ![h] = "peer"] /\ req' = [req EXCEPT ![h] = r]
              /\ inflight' = [id |-> r.id, payload |-> r.payload, dispatched |-> FALSE,
                              left |-> StartupLease, holder |-> h]
            BY <1>4 DEF Begin, Goto
        <2>2. g = h
            BY <2>1, HolderAlone DEF IInv, TypeOK
        <2>3. inflight' \in Txs
            BY <2>1, TimeAssumption DEF Txs
        <2> QED BY <2>1, <2>2, <2>3, NoneIsNone DEF IInv, TypeOK
    <1>5. ASSUME NEW h \in Handlers, Serve(h)
          PROVE  pc[g] \in Preflight \cup Marking /\ inflight' = inflight /\ req'[g] = req[g]
        <2>1. req' = req
            BY <1>5 DEF Serve, EnsurePeer, Probe, AlreadyRunning, CheckCodec, LauncherProbe, Spawn,
                SpawnFails, SpawnLate, MarkDispatched, MarkLate, Observe, Started, GiveUp
        <2>2. \E p \in Places : pc' = [pc EXCEPT ![h] = p]
            BY <1>5 DEF Serve, EnsurePeer, Probe, AlreadyRunning, CheckCodec, LauncherProbe, Spawn,
                SpawnFails, SpawnLate, MarkDispatched, MarkLate, Observe, Started, GiveUp, Goto,
                Places, Preflight, Marking
        <2>3. inflight' = inflight \/ Owns(h)
            BY <1>5 DEF Serve, EnsurePeer, Probe, AlreadyRunning, CheckCodec, LauncherProbe, Spawn,
                SpawnFails, SpawnLate, MarkDispatched, MarkLate, Observe, Started, GiveUp,
                FailStart, Finalise, server
        <2>4. CASE g # h
            <3>1. pc[g] \in Preflight \cup Marking
                BY <2>2, <2>4 DEF IInv, TypeOK
            <3> QED BY <3>1, <2>1, <2>3, <2>4, HolderAlone DEF IInv
        <2>5. CASE g = h
            <3>1. pc'[h] # "idle" /\ pc'[h] # "wait" /\ pc'[h] # "observed"
                BY <2>5 DEF Preflight, Marking
            <3>2. \A p : pc' = [pc EXCEPT ![h] = p] => pc'[h] = p
                BY DEF IInv, TypeOK
            <3>3. EnsurePeer(h) \/ Probe(h) \/ CheckCodec(h) \/ LauncherProbe(h) \/ Spawn(h)
                  \/ SpawnLate(h)
                BY <1>5, <3>1, <3>2
                DEF Serve, AlreadyRunning, SpawnFails, MarkDispatched, MarkLate, Observe, Started,
                    GiveUp, Goto
            <3>4. pc[h] \in Preflight /\ inflight' = inflight
                BY <3>1, <3>2, <3>3
                DEF EnsurePeer, Probe, CheckCodec, LauncherProbe, Spawn, SpawnLate, Goto, Preflight,
                    server
            <3> QED BY <3>4, <2>1, <2>5
        <2> QED BY <2>4, <2>5
    <1>6. CASE Status
        <2>1. pc' = pc /\ req' = req /\ (inflight' = inflight \/ inflight.dispatched)
            BY <1>6 DEF Status, StatusProbe, StatusResolve, StatusFails, server
        <2> QED BY <2>1, <1>2, HolderAlone DEF IInv
    <1>7. CASE Tick
        <2>1. /\ pc' = pc /\ req' = req
              /\ inflight # NoTx => inflight' = [inflight EXCEPT !.left = Less(@)]
            BY <1>7 DEF Tick
        <2>2. held /\ inflight \in Txs
            BY <2>1, <1>1 DEF IInv, TypeOK
        <2>3. inflight' \in Txs
            BY <2>1, <2>2, ChangedGate
        <2> QED BY <2>1, <2>2, <2>3, NoneIsNone DEF Txs
    <1>8. CASE SteamVR
        BY <1>8, <1>2 DEF SteamVR, VrUp, VrExits, LateSpawn, LaunchDies, server
    <1>9. CASE UNCHANGED vars
        BY <1>9, <1>2 DEF vars
    <1> QED
        BY <1>2, <1>3, <1>4, <1>5, <1>6, <1>7, <1>8, <1>9 DEF Next, Accept

-----------------------------------------------------------------------------
(* Theorems                                                                *)

\* The gate is free and nothing is cached when the companion starts.
LEMMA InitIInv == Init => IInv
    <1> SUFFICES ASSUME Init PROVE IInv
        OBVIOUS
    <1>1. TypeOK
        <2>1. -1 \in -1..StartupLease /\ "idle" \in Places
            BY TimeAssumption DEF Places
        <2> QED BY <2>1 DEF Init, TypeOK
    <1>2. PreflightHoldsGate
        BY DEF Init, PreflightHoldsGate, Preflight, Marking
    <1>3. Cached(results) = {}
        BY DEF Init, Cached
    <1>4. inflight = NoTx
        BY DEF Init
    <1>5. SlotReserved
        BY <1>3, <1>4, FS_EmptySet, CapAssumption DEF SlotReserved
    <1>6. GateHasNoReceipt
        BY <1>4 DEF GateHasNoReceipt
    <1> QED
        BY <1>1, <1>2, <1>5, <1>6 DEF IInv

\* The inductive invariant holds throughout.
LEMMA Invariance == Spec => []IInv
    <1>1. IInv /\ [Next]_vars => IInv'
        BY TypeStep, GateStep, SlotStep DEF IInv
    <1> QED BY <1>1, InitIInv, PTL DEF Spec

\* The gate, the receipts and the handlers keep their types.
THEOREM TypeCorrect == Spec => []TypeOK
    BY Invariance, PTL DEF IInv

\* A slow preflight never shares the gate: whoever is on the way to a launch
\* owns an undispatched transaction of its own request.
THEOREM GateExclusive == Spec => []PreflightHoldsGate
    BY Invariance, PTL DEF IInv

\* The receipts never exceed txCap.
THEOREM CacheBounded == Spec => []SlotReserved
    BY Invariance, PTL DEF IInv

\* A launch under a request id means that the id has no standing receipt.
THEOREM LaunchNotReplayed == Spec => ReplayNeverLaunches
    <1>1. ASSUME IInv, [Next]_vars, NEW h \in Handlers, Launches(h)
          PROVE  results[req[h].id] = NoReceipt
        <2>1. pc[h] \in Preflight
            BY <1>1 DEF Launches, Preflight
        <2> QED BY <1>1, <2>1 DEF IInv, PreflightHoldsGate, Owns, GateHasNoReceipt
    <1>2. IInv /\ [Next]_vars =>
              [\A h \in Handlers : Launches(h) =>
                 (results[req[h].id] = NoReceipt \/ ExpiredReceipt(results[req[h].id]))]_vars
        BY <1>1
    <1> QED BY <1>2, Invariance, PTL DEF Spec, ReplayNeverLaunches

\* A receipt stands unchanged until it expires.
THEOREM ReceiptStands == Spec => ReceiptKept
    <1>1. ASSUME IInv, [Next]_vars, NEW i \in Ids,
                 results[i] # NoReceipt, ~ExpiredReceipt(results[i])
          PROVE  /\ results'[i] # NoReceipt
                 /\ results'[i].payload = results[i].payload
                 /\ results'[i].outcome = results[i].outcome
        <2>1. results[i] \in Receipts
            BY <1>1 DEF IInv, TypeOK
        <2>2. ASSUME results' \in {results, Pruned, [j \in Ids |-> Older(results[j])]}
              PROVE  \/ results'[i] = results[i]
                     \/ results'[i] = [results[i] EXCEPT !.age =
                                          IF @ < TxTTL THEN @ + 1 ELSE @]
            BY <1>1, <2>2 DEF Pruned, Older
        <2>3. LET r == [results[i] EXCEPT !.age = IF @ < TxTTL THEN @ + 1 ELSE @]
              IN  r \in Receipts /\ r.payload = results[i].payload
                  /\ r.outcome = results[i].outcome
            BY <2>1, TimeAssumption DEF Receipts
        <2>4. CASE Finishes
            <3>1. PICK o \in Outcomes : inflight # NoTx /\ FinishWith(o)
                BY <2>4 DEF Finishes
            <3>2. i # inflight.id /\ inflight.id \in Ids
                BY <1>1, <3>1 DEF IInv, GateHasNoReceipt, TypeOK, Txs
            <3>3. results'[i] = results[i]
                BY <1>1, <3>1, <3>2 DEF FinishWith, IInv, TypeOK
            <3> QED BY <1>1, <3>3
        <2>5. CASE Opens \/ Takes \/ Keeps
            <3>1. results' \in {results, Pruned, [j \in Ids |-> Older(results[j])]}
                BY <2>5 DEF Opens, Takes, Keeps
            <3> QED BY <1>1, <3>1, <2>2, <2>3, NoneIsNone
        <2> QED BY <1>1, <2>4, <2>5, ServerSteps DEF IInv
    <1>2. IInv /\ [Next]_vars =>
              [\A i \in Ids : (results[i] # NoReceipt /\ ~ExpiredReceipt(results[i])) =>
                 /\ results'[i] # NoReceipt
                 /\ results'[i].payload = results[i].payload
                 /\ results'[i].outcome = results[i].outcome]_vars
        BY <1>1
    <1> QED BY <1>2, Invariance, PTL DEF Spec, ReceiptKept

-----------------------------------------------------------------------------
(* The gate a client sees                                                  *)

\* An undispatched transaction belongs to a handler that prepares its launch.
Prepared ==
    inflight # NoTx /\ ~inflight.dispatched =>
        inflight.holder \in Handlers /\ pc[inflight.holder] \in Preflight \cup Marking

LEMMA PreparedStep == IInv /\ Prepared /\ [Next]_vars => Prepared'
    <1> SUFFICES ASSUME IInv, Prepared, [Next]_vars, inflight' # NoTx, ~inflight'.dispatched
                 PROVE  /\ inflight'.holder \in Handlers
                        /\ pc'[inflight'.holder] \in Preflight \cup Marking
        BY DEF Prepared
    <1>0. pc \in [Handlers -> Places] /\ inflight \in Txs \cup {NoTx}
        BY DEF IInv, TypeOK
    <1>1. ASSUME inflight' = inflight, pc' = pc
          PROVE  /\ inflight'.holder \in Handlers
                 /\ pc'[inflight'.holder] \in Preflight \cup Marking
        BY <1>1 DEF Prepared
    <1>2. ASSUME NEW h \in Handlers, NEW r \in [id : Ids, payload : Payloads], Refuse(h, r)
          PROVE  /\ inflight'.holder \in Handlers
                 /\ pc'[inflight'.holder] \in Preflight \cup Marking
        BY <1>1, <1>2 DEF Refuse
    <1>3. ASSUME NEW h \in Handlers, NEW r \in [id : Ids, payload : Payloads], Begin(h, r)
          PROVE  /\ inflight'.holder \in Handlers
                 /\ pc'[inflight'.holder] \in Preflight \cup Marking
        <2>1. inflight'.holder = h /\ pc'[h] = "peer"
            BY <1>0, <1>3 DEF Begin, Goto
        <2> QED BY <2>1 DEF Preflight
    <1>4. ASSUME NEW h \in Handlers, Serve(h)
          PROVE  /\ inflight'.holder \in Handlers
                 /\ pc'[inflight'.holder] \in Preflight \cup Marking
        <2>1. \E p \in Places : pc' = [pc EXCEPT ![h] = p]
            BY <1>4 DEF Serve, EnsurePeer, Probe, AlreadyRunning, CheckCodec, LauncherProbe, Spawn,
                SpawnFails, SpawnLate, MarkDispatched, MarkLate, Observe, Started, GiveUp, Goto,
                Places, Preflight, Marking
        <2>2. CASE ~Owns(h)
            <3>1. inflight' = inflight
                BY <1>4, <2>2 DEF Serve, EnsurePeer, Probe, AlreadyRunning, CheckCodec,
                    LauncherProbe, Spawn, SpawnFails, SpawnLate, MarkDispatched, MarkLate, Observe,
                    Started, GiveUp, FailStart, Finalise, server
            <3>2. inflight.holder \in Handlers \ {h} /\ pc[inflight.holder] \in Preflight \cup Marking
                BY <2>2, <3>1 DEF Prepared, Owns
            <3> QED BY <1>0, <2>1, <3>1, <3>2
        <2>3. CASE Owns(h)
            <3>1. inflight # NoTx /\ inflight.holder = h /\ inflight \in Txs
                BY <1>0, <2>3 DEF Owns
            <3>2. CASE pc[h] \in {"wait", "observed"}
                <4>1. inflight.dispatched
                    BY <3>1, <3>2 DEF Prepared, Preflight, Marking
                <4>2. inflight' \in {inflight, NoTx, [inflight EXCEPT !.holder = NoHandler]}
                    BY <1>4, <2>3, <3>2 DEF Serve, EnsurePeer, Probe, AlreadyRunning, CheckCodec,
                        LauncherProbe, Spawn, SpawnFails, SpawnLate, MarkDispatched, MarkLate,
                        Observe, Started, GiveUp, Finalise, FinishWith, server
                <4>3. [inflight EXCEPT !.holder = NoHandler].dispatched
                    BY <3>1, <4>1 DEF Txs
                <4> QED BY <4>1, <4>2, <4>3
            <3>3. CASE MarkDispatched(h) \/ MarkLate(h)
                <4>1. Dispatched(h).dispatched /\ Dispatched(NoHandler).dispatched
                    BY <3>1 DEF Dispatched, Txs
                <4> QED BY <2>3, <3>3, <4>1 DEF MarkDispatched, MarkLate
            <3>4. CASE AlreadyRunning(h) \/ SpawnFails(h) \/ FailStart(h)
                BY <2>3, <3>4 DEF AlreadyRunning, SpawnFails, Finalise, FinishWith, FailStart
            <3>5. CASE (EnsurePeer(h) \/ Probe(h) \/ CheckCodec(h) \/ LauncherProbe(h) \/ Spawn(h)
                        \/ SpawnLate(h)) /\ ~FailStart(h)
                <4>1. inflight' = inflight /\ pc'[h] \in Preflight \cup Marking
                    BY <1>0, <3>5 DEF EnsurePeer, Probe, CheckCodec, LauncherProbe, Spawn, SpawnLate,
                        Goto, Preflight, Marking, server
                <4> QED BY <3>1, <4>1
            <3> QED
                BY <1>4, <3>2, <3>3, <3>4, <3>5 DEF Serve, Observe, Started, GiveUp
        <2> QED BY <2>2, <2>3
    <1>5. CASE Status
        BY <1>5, <1>1 DEF Status, StatusProbe, StatusResolve, StatusFails, FinishWith, server
    <1>6. CASE Tick
        <2>1. inflight # NoTx /\ inflight' = [inflight EXCEPT !.left = Less(@)] /\ pc' = pc
            BY <1>6 DEF Tick
        <2>2. inflight'.holder = inflight.holder /\ inflight'.dispatched = inflight.dispatched
            BY <1>0, <2>1 DEF Txs
        <2> QED BY <2>1, <2>2 DEF Prepared
    <1>7. CASE SteamVR
        BY <1>7, <1>1 DEF SteamVR, VrUp, VrExits, LateSpawn, LaunchDies, server
    <1>8. CASE UNCHANGED vars
        BY <1>8, <1>1 DEF vars
    <1> QED
        BY <1>2, <1>3, <1>4, <1>5, <1>6, <1>7, <1>8 DEF Next, Accept

\* The phase of the gate, from the transaction alone.
PhaseIs ==
    /\ inflight = NoTx => Phase = "free"
    /\ inflight # NoTx /\ inflight.dispatched =>
           Phase = IF inflight.left < 0 THEN "over" ELSE "starting"
    /\ inflight # NoTx /\ ~inflight.dispatched =>
           Phase = IF pc[inflight.holder] \in Marking THEN "starting" ELSE "preparing"

LEMMA PhaseFacts == IInv /\ Prepared => PhaseIs
    <1> SUFFICES ASSUME IInv, Prepared PROVE PhaseIs
        OBVIOUS
    <1>1. CASE inflight = NoTx
        BY <1>1 DEF PhaseIs, Phase
    <1>2. CASE inflight # NoTx /\ inflight.dispatched
        BY <1>2 DEF PhaseIs, Phase, LeaseOver
    <1>3. CASE inflight # NoTx /\ ~inflight.dispatched
        <2>1. inflight.holder \in Handlers
            BY <1>3 DEF Prepared
        <2>2. (\E h \in Handlers : Owns(h) /\ pc[h] \in Marking) <=> pc[inflight.holder] \in Marking
            BY <1>3, <2>1 DEF Owns
        <2> QED BY <1>3, <2>2 DEF PhaseIs, Phase, LeaseOver
    <1> QED BY <1>1, <1>2, <1>3

\* What a client is told when receipts are kept, pruned, or grow older.
LEMMA ToldFacts ==
    ASSUME IInv
    PROVE  /\ results' \in {results, Pruned} => Told' = Told
           /\ results' = [i \in Ids |-> Older(results[i])] =>
                  \E forgotten \in SUBSET Ids :
                      Told' = [i \in Ids |-> IF i \in forgotten THEN NoReceipt ELSE Told[i]]
           /\ \A i \in Ids : Pruned[i] = NoReceipt => Told[i] = NoReceipt
           /\ {i \in Ids : Told[i] # NoReceipt} \subseteq Cached(Pruned)
    <1>0. results \in [Ids -> Receipts \cup {NoReceipt}]
        BY DEF IInv, TypeOK
    <1> DEFINE answer(i) == [payload |-> results[i].payload, outcome |-> results[i].outcome]
               gone(i) == results[i] = NoReceipt \/ ExpiredReceipt(results[i])
    <1>1. Told = [i \in Ids |-> IF gone(i) THEN NoReceipt ELSE answer(i)]
        BY DEF Told, Pruned
    <1>2. ASSUME results' \in {results, Pruned} PROVE Told' = Told
        <2>1. ASSUME NEW i \in Ids
              PROVE  /\ gone(i)' <=> gone(i)
                     /\ ~gone(i) => answer(i)' = answer(i)
            <3>1. CASE results' = results
                BY <3>1 DEF ExpiredReceipt
            <3>2. CASE results'[i] = IF gone(i) THEN NoReceipt ELSE results[i]
                BY <3>2 DEF ExpiredReceipt
            <3> QED BY <1>2, <3>1, <3>2 DEF Pruned
        <2>2. Told' = [i \in Ids |-> IF gone(i)' THEN NoReceipt ELSE answer(i)']
            BY DEF Told, Pruned
        <2> HIDE DEF gone, answer
        <2> QED BY <1>1, <2>1, <2>2
    <1>3. ASSUME results' = [i \in Ids |-> Older(results[i])]
          PROVE  \E forgotten \in SUBSET Ids :
                     Told' = [i \in Ids |-> IF i \in forgotten THEN NoReceipt ELSE Told[i]]
        <2> DEFINE forgotten == {i \in Ids : gone(i)'}
        <2>1. ASSUME NEW i \in Ids
              PROVE  /\ gone(i) => gone(i)'
                     /\ ~gone(i) => answer(i)' = answer(i)
            <3>1. CASE results[i] = NoReceipt
                BY <1>3, <3>1 DEF Older
            <3>2. CASE results[i] \in Receipts /\ results[i] # NoReceipt
                <4>1. /\ results'[i].payload = results[i].payload
                      /\ results'[i].outcome = results[i].outcome
                      /\ results'[i].age = IF results[i].age < TxTTL THEN results[i].age + 1 ELSE results[i].age
                      /\ results'[i] \in Receipts
                    BY <1>3, <3>2, TimeAssumption DEF Older, Receipts
                <4>2. answer(i)' = answer(i)
                    BY <4>1
                <4>3. results[i].age >= TxTTL => results'[i].age >= TxTTL
                    BY <3>2, <4>1, TimeAssumption DEF Receipts
                <4>4. gone(i) => gone(i)'
                    BY <3>2, <4>1, <4>3, NoneIsNone DEF ExpiredReceipt
                <4> QED BY <4>2, <4>4
            <3> QED BY <1>0, <3>1, <3>2
        <2>2. Told' = [i \in Ids |-> IF gone(i)' THEN NoReceipt ELSE answer(i)']
            BY DEF Told, Pruned
        <2> HIDE DEF gone, answer
        <2>3. Told' = [i \in Ids |-> IF i \in forgotten THEN NoReceipt ELSE Told[i]]
            BY <1>1, <2>1, <2>2
        <2> QED BY <2>3
    <1>4. \A i \in Ids : Pruned[i] = NoReceipt => Told[i] = NoReceipt
        BY DEF Told
    <1>5. {i \in Ids : Told[i] # NoReceipt} \subseteq Cached(Pruned)
        BY DEF Told, Cached
    <1> QED BY <1>2, <1>3, <1>4, <1>5

\* A finished transaction is the answer of the gate to its request.
LEMMA FinishAnswers ==
    ASSUME IInv, inflight # NoTx, NEW o \in Outcomes, FinishWith(o),
           IF Phase = "preparing" THEN o \in {"ALREADY_RUNNING", "RECONNECT_REQUIRED"}
           ELSE Phase \in {"starting", "over"} /\ o = "STARTED"
    PROVE  Gate!Answer(o)
    <1>1. /\ inflight.id \in Ids /\ inflight.payload \in Payloads
          /\ results[inflight.id] = NoReceipt
          /\ results \in [Ids -> Receipts \cup {NoReceipt}]
        BY DEF IInv, TypeOK, Txs, GateHasNoReceipt
    <1> DEFINE new == [payload |-> inflight.payload, outcome |-> o, age |-> 0]
    <1>2. new \in Receipts /\ new # NoReceipt /\ ~ExpiredReceipt(new)
        BY <1>1, TimeAssumption, NoneIsNone DEF Receipts, ExpiredReceipt
    <1>3. inflight' = NoTx /\ results' = [results EXCEPT ![inflight.id] = new]
        BY DEF FinishWith
    <1>4. new.payload = inflight.payload /\ new.outcome = o
        OBVIOUS
    <1> HIDE DEF new
    <1>5. Told' = [Told EXCEPT ![inflight.id] = [payload |-> inflight.payload, outcome |-> o]]
        BY <1>1, <1>2, <1>3, <1>4 DEF Told, Pruned
    <1>6. Told[inflight.id] = NoReceipt
        BY <1>1 DEF Told, Pruned, ExpiredReceipt
    <1>7. Phase' = "free" /\ Request' = NoReceipt
        BY <1>3 DEF Phase, Request
    <1>8. Request.id = inflight.id /\ Request.payload = inflight.payload
        BY DEF Request
    <1> QED BY <1>5, <1>6, <1>7, <1>8 DEF Gate!Answer, Gate!Unanswered

LEMMA GateSteps ==
    IInv /\ Prepared /\ PhaseIs /\ PhaseIs' /\ [Next]_vars => [Gate!Next]_(Gate!gateVars)
    <1> SUFFICES ASSUME IInv, Prepared, PhaseIs, PhaseIs', [Next]_vars
                 PROVE  Gate!Next \/ UNCHANGED <<Phase, Request, Told>>
        BY DEF Gate!gateVars
    <1>0. /\ pc \in [Handlers -> Places] /\ inflight \in Txs \cup {NoTx}
          /\ results \in [Ids -> Receipts \cup {NoReceipt}]
        BY DEF IInv, TypeOK
    <1>a. ASSUME inflight' = inflight, results' \in {results, Pruned},
                 \/ inflight = NoTx \/ inflight.dispatched
                 \/ pc'[inflight.holder] \in Marking <=> pc[inflight.holder] \in Marking
          PROVE  UNCHANGED <<Phase, Request, Told>>
        <2>1. Phase' = Phase
            BY <1>a DEF PhaseIs
        <2>2. Told' = Told
            BY <1>a, ToldFacts
        <2>3. Request' = Request
            BY <1>a DEF Request
        <2> QED BY <2>1, <2>2, <2>3
    <1>b. ASSUME inflight # NoTx, Phase \in {"preparing", "over"},
                 inflight' = NoTx, results' \in {results, Pruned}
          PROVE  Gate!Next
        <2>1. Phase' = "free" /\ Request' = NoReceipt
            BY <1>b DEF Phase, Request
        <2>2. Told' = Told
            BY <1>b, ToldFacts
        <2> QED BY <1>b, <2>1, <2>2 DEF Gate!Next, Gate!Leave
    <1>1. ASSUME NEW h \in Handlers, NEW r \in [id : Ids, payload : Payloads], Refuse(h, r)
          PROVE  Gate!Next \/ UNCHANGED <<Phase, Request, Told>>
        <2>1. results' = Pruned /\ pc' = pc
            BY <1>1 DEF Refuse
        <2>2. CASE inflight' = inflight
            BY <1>a, <2>1, <2>2
        <2>3. CASE inflight' # inflight
            <3>1. inflight' = NoTx /\ LeaseOver
                BY <1>1, <2>3 DEF Refuse, GateFree
            <3>2. inflight # NoTx /\ Phase = "over"
                BY <3>1 DEF LeaseOver, Phase
            <3> QED BY <1>b, <2>1, <3>1, <3>2
        <2> QED BY <2>2, <2>3
    <1>2. ASSUME NEW h \in Handlers, NEW r \in [id : Ids, payload : Payloads], Begin(h, r)
          PROVE  Gate!Next
        <2>1. Phase \in {"free", "over"}
            BY <1>2 DEF Begin, GateFree, Phase
        <2>2. Told[r.id] = NoReceipt /\ Told' = Told
            BY <1>2, ToldFacts DEF Begin
        <2>3. Cardinality({i \in Ids : Told[i] # NoReceipt}) < TxCap
            <3>1. IsFiniteSet(Cached(Pruned))
                BY ValueAssumption, FS_Subset DEF Cached
            <3>2. Cardinality({i \in Ids : Told[i] # NoReceipt}) <= Cardinality(Cached(Pruned))
                BY <3>1, ToldFacts, FS_Subset
            <3>3. /\ Cardinality(Cached(Pruned)) \in Nat
                  /\ Cardinality({i \in Ids : Told[i] # NoReceipt}) \in Nat
                BY <3>1, ToldFacts, FS_Subset, FS_CardinalityType
            <3>4. ~(Cardinality(Cached(Pruned)) >= TxCap)
                BY <1>2 DEF Begin, CacheFull
            <3> QED BY <3>2, <3>3, <3>4, CapAssumption
        <2>4. /\ inflight' = [id |-> r.id, payload |-> r.payload, dispatched |-> FALSE,
                              left |-> StartupLease, holder |-> h]
              /\ pc'[h] = "peer"
            BY <1>0, <1>2 DEF Begin, Goto
        <2>5. inflight' \in Txs
            BY <2>4, TimeAssumption DEF Txs
        <2>6. inflight' # NoTx /\ ~inflight'.dispatched /\ inflight'.holder = h
            BY <2>4, <2>5, NoneIsNone
        <2>7. Phase' = "preparing"
            BY <2>4, <2>6 DEF PhaseIs, Marking
        <2>8. Request' = r
            <3>1. r = [id |-> r.id, payload |-> r.payload]
                OBVIOUS
            <3> QED BY <2>4, <2>6, <3>1 DEF Request
        <2>9. {i \in Ids : ~Gate!Unanswered(i)} = {i \in Ids : Told[i] # NoReceipt}
            BY DEF Gate!Unanswered
        <2>10. \A S : Gate!Cardinality(S) = Cardinality(S)
            BY Zenon DEF Gate!Cardinality, Cardinality
        <2>11. Gate!Cardinality({i \in Ids : ~Gate!Unanswered(i)}) < TxCap
            BY <2>3, <2>9, <2>10
        <2>12. Gate!Take(r)
            BY <2>1, <2>2, <2>7, <2>8, <2>11 DEF Gate!Take, Gate!Unanswered
        <2> QED BY <2>12 DEF Gate!Next
    <1>3. ASSUME NEW h \in Handlers, Serve(h)
          PROVE  Gate!Next \/ UNCHANGED <<Phase, Request, Told>>
        <2>0. \E p \in Places : pc' = [pc EXCEPT ![h] = p]
            BY <1>3 DEF Serve, EnsurePeer, Probe, AlreadyRunning, CheckCodec, LauncherProbe, Spawn,
                SpawnFails, SpawnLate, MarkDispatched, MarkLate, Observe, Started, GiveUp, Goto,
                Places, Preflight, Marking
        <2>1. CASE ~Owns(h)
            <3>1. inflight' = inflight /\ results' = results
                BY <1>3, <2>1 DEF Serve, EnsurePeer, Probe, AlreadyRunning, CheckCodec,
                    LauncherProbe, Spawn, SpawnFails, SpawnLate, MarkDispatched, MarkLate, Observe,
                    Started, GiveUp, FailStart, Finalise, server
            <3>2. inflight = NoTx \/ inflight.dispatched \/ pc'[inflight.holder] = pc[inflight.holder]
                BY <1>0, <2>0, <2>1 DEF Owns, Prepared
            <3> QED BY <1>a, <3>1, <3>2
        <2>2. ASSUME Owns(h), pc[h] \in Preflight
              PROVE  Gate!Next \/ UNCHANGED <<Phase, Request, Told>>
            <3>1. inflight # NoTx /\ inflight.holder = h /\ ~inflight.dispatched /\ inflight \in Txs
                BY <1>0, <2>2 DEF Owns, IInv, PreflightHoldsGate
            <3>2. Phase = "preparing"
                BY <2>2, <3>1 DEF PhaseIs, Preflight, Marking
            <3>3. CASE FailStart(h)
                BY <1>b, <2>2, <3>1, <3>2, <3>3 DEF FailStart
            <3>4. CASE \E o \in {"ALREADY_RUNNING", "RECONNECT_REQUIRED"} : Finalise(h, o)
                <4>1. PICK o \in {"ALREADY_RUNNING", "RECONNECT_REQUIRED"} : FinishWith(o)
                    BY <2>2, <3>4 DEF Finalise
                <4>2. Gate!Answer(o)
                    BY <3>1, <3>2, <4>1, FinishAnswers DEF Outcomes
                <4> QED BY <4>2 DEF Gate!Next
            <3>5. CASE Spawn(h) \/ SpawnLate(h)
                <4>1. inflight' = inflight /\ results' = results /\ pc'[h] \in Marking
                    BY <1>0, <3>5 DEF Spawn, SpawnLate, Goto, Marking, server
                <4>2. Phase' = "starting"
                    BY <3>1, <4>1 DEF PhaseIs
                <4>3. Told' = Told /\ Request' = Request
                    BY <4>1, ToldFacts DEF Request
                <4>4. Gate!Unanswered(Request.id)
                    BY <3>1 DEF Gate!Unanswered, Request, Told, Pruned, ExpiredReceipt, IInv,
                        GateHasNoReceipt, Txs
                <4> QED BY <3>2, <4>2, <4>3, <4>4 DEF Gate!Next, Gate!Launch
            <3>6. CASE UNCHANGED server /\ pc'[h] \notin Marking
                <4>1. inflight' = inflight /\ results' = results
                    BY <3>6 DEF server
                <4>2. pc[h] \notin Marking
                    BY <2>2 DEF Preflight, Marking
                <4> QED BY <1>a, <3>1, <3>6, <4>1, <4>2
            <3>7. \/ FailStart(h) \/ Spawn(h) \/ SpawnLate(h)
                  \/ \E o \in {"ALREADY_RUNNING", "RECONNECT_REQUIRED"} : Finalise(h, o)
                  \/ UNCHANGED server /\ \E p \in {"probe", "running", "codec", "start", "spawn"} :
                         Goto(h, p)
                BY <1>3, <2>2 DEF Serve, EnsurePeer, Probe, AlreadyRunning, CheckCodec,
                    LauncherProbe, SpawnFails, MarkDispatched, MarkLate, Observe, Started, GiveUp,
                    Preflight
            <3>8. (\E p \in {"probe", "running", "codec", "start", "spawn"} : Goto(h, p)) =>
                      pc'[h] \notin Marking
                BY <1>0 DEF Goto, Marking
            <3> QED BY <3>3, <3>4, <3>5, <3>6, <3>7, <3>8
        <2>3. CASE Owns(h) /\ (MarkDispatched(h) \/ MarkLate(h))
            <3>1. /\ inflight # NoTx /\ inflight.holder = h /\ ~inflight.dispatched
                  /\ inflight \in Txs /\ pc[h] \in Marking
                BY <1>0, <2>3 DEF Owns, IInv, PreflightHoldsGate, MarkDispatched, MarkLate, Marking
            <3>2. PICK g \in Handlers \cup {NoHandler} : inflight' = Dispatched(g)
                BY <2>3 DEF MarkDispatched, MarkLate
            <3>3. /\ inflight'.dispatched /\ inflight'.left = StartupLease
                  /\ inflight'.id = inflight.id /\ inflight'.payload = inflight.payload
                  /\ inflight' \in Txs
                BY <3>1, <3>2, ChangedGate DEF Dispatched, Txs
            <3>4. inflight' # NoTx
                BY <3>3, NoneIsNone
            <3>5. Phase = "starting" /\ Phase' = "starting"
                BY <3>1, <3>3, <3>4, TimeAssumption DEF PhaseIs
            <3>6. Told' = Told
                BY <2>3, ToldFacts DEF MarkDispatched, MarkLate
            <3>7. Request' = Request
                BY <3>1, <3>3, <3>4 DEF Request
            <3> QED BY <3>5, <3>6, <3>7
        <2>4. ASSUME Owns(h), pc[h] \in {"wait", "observed"}
              PROVE  Gate!Next \/ UNCHANGED <<Phase, Request, Told>>
            <3>1. inflight # NoTx /\ inflight.holder = h /\ inflight.dispatched /\ inflight \in Txs
                BY <1>0, <2>4 DEF Owns, Prepared, Preflight, Marking
            <3>2. Phase \in {"starting", "over"}
                BY <3>1 DEF PhaseIs
            <3>3. CASE FinishWith("STARTED")
                <4>1. Gate!Answer("STARTED")
                    BY <3>1, <3>2, <3>3, FinishAnswers DEF Outcomes
                <4> QED BY <4>1 DEF Gate!Next
            <3>4. CASE inflight' = inflight /\ results' = results
                BY <1>a, <3>1, <3>4
            <3>5. CASE inflight' = [inflight EXCEPT !.holder = NoHandler] /\ results' = results
                <4>1. /\ inflight'.dispatched /\ inflight'.left = inflight.left
                      /\ inflight'.id = inflight.id /\ inflight'.payload = inflight.payload
                      /\ inflight' \in Txs
                    BY <3>1, <3>5 DEF Txs
                <4>2. inflight' # NoTx
                    BY <4>1, NoneIsNone
                <4>3. Phase' = Phase
                    BY <3>1, <4>1, <4>2 DEF PhaseIs
                <4>4. Told' = Told
                    BY <3>5, ToldFacts
                <4>5. Request' = Request
                    BY <3>1, <4>1, <4>2 DEF Request
                <4> QED BY <4>3, <4>4, <4>5
            <3> QED
                BY <1>3, <2>4, <3>3, <3>4, <3>5 DEF Serve, EnsurePeer, Probe, AlreadyRunning,
                    CheckCodec, LauncherProbe, Spawn, SpawnFails, SpawnLate, MarkDispatched,
                    MarkLate, Observe, Started, GiveUp, Finalise, server
        <2>5. pc[h] \in Preflight \cup {"wait", "observed"} \/ MarkDispatched(h) \/ MarkLate(h)
            BY <1>3 DEF Serve, EnsurePeer, Probe, AlreadyRunning, CheckCodec, LauncherProbe, Spawn,
                SpawnFails, SpawnLate, Observe, Started, GiveUp, Preflight
        <2> QED BY <2>1, <2>2, <2>3, <2>4, <2>5
    <1>4. ASSUME Status PROVE Gate!Next \/ UNCHANGED <<Phase, Request, Told>>
        <2>1. CASE inflight' = inflight /\ results' = results /\ pc' = pc
            BY <1>a, <2>1
        <2>2. CASE inflight # NoTx /\ inflight.dispatched /\ FinishWith("STARTED")
            <3>1. Phase \in {"starting", "over"}
                BY <2>2 DEF PhaseIs
            <3>2. Gate!Answer("STARTED")
                BY <2>2, <3>1, FinishAnswers DEF Outcomes
            <3> QED BY <3>2 DEF Gate!Next
        <2> QED BY <1>4, <2>1, <2>2 DEF Status, StatusProbe, StatusResolve, StatusFails, server
    <1>5. ASSUME Tick PROVE Gate!Next
        <2>1. PICK forgotten \in SUBSET Ids :
                  Told' = [i \in Ids |-> IF i \in forgotten THEN NoReceipt ELSE Told[i]]
            BY <1>5, ToldFacts DEF Tick
        <2>2. CASE inflight = NoTx
            <3>1. inflight' = NoTx
                BY <1>5, <2>2 DEF Tick
            <3>2. Phase' = Phase /\ Request' = Request
                BY <2>2, <3>1 DEF PhaseIs, Request
            <3> QED BY <2>1, <3>2 DEF Gate!Next, Gate!Pass
        <2>3. CASE inflight # NoTx
            <3>1. inflight' = [inflight EXCEPT !.left = Less(@)] /\ pc' = pc /\ inflight \in Txs
                BY <1>0, <1>5, <2>3 DEF Tick
            <3>2. /\ inflight'.dispatched = inflight.dispatched /\ inflight'.id = inflight.id
                  /\ inflight'.payload = inflight.payload /\ inflight'.holder = inflight.holder
                  /\ inflight'.left = Less(inflight.left) /\ inflight.left \in Int
                BY <3>1 DEF Txs
            <3>3. inflight' \in Txs /\ inflight' # NoTx
                BY <3>1, ChangedGate, NoneIsNone
            <3>4. inflight.left < 0 => inflight'.left < 0
                BY <3>2 DEF Less
            <3>5. Phase' = Phase \/ (Phase = "starting" /\ Phase' = "over")
                BY <2>3, <3>1, <3>2, <3>3, <3>4 DEF PhaseIs
            <3>6. Request' = Request
                BY <2>3, <3>2, <3>3 DEF Request
            <3> QED BY <2>1, <3>5, <3>6 DEF Gate!Next, Gate!Pass
        <2> QED BY <2>2, <2>3
    <1>6. ASSUME SteamVR \/ UNCHANGED vars PROVE UNCHANGED <<Phase, Request, Told>>
        <2>1. inflight' = inflight /\ results' = results /\ pc' = pc
            BY <1>6 DEF SteamVR, VrUp, VrExits, LateSpawn, LaunchDies, server, vars
        <2> QED BY <1>a, <2>1
    <1> QED
        BY <1>1, <1>2, <1>3, <1>4, <1>5, <1>6 DEF Next, Accept

\* To a client the handlers, /status and the leases are one gate: a taking
\* launches at most once, and a launch that was made is answered STARTED or
\* holds the gate for its lease.
THEOREM GateImplemented == Spec => ImplementsGate
    <1>1. Init => Prepared
        BY DEF Init, Prepared
    <1>2. Init => Gate!Init
        <2> SUFFICES ASSUME Init PROVE Gate!Init
            OBVIOUS
        <2>1. \A i \in Ids : Pruned[i] = NoReceipt
            BY DEF Init, Pruned
        <2>2. Told = [i \in Ids |-> NoReceipt]
            BY <2>1 DEF Told
        <2> QED BY <2>2 DEF Init, Gate!Init, Phase, Request
    <1>3. Spec => []Prepared
        BY <1>1, PreparedStep, Invariance, PTL DEF Spec
    <1> QED
        BY <1>2, <1>3, Invariance, PhaseFacts, GateSteps, PTL
        DEF Spec, ImplementsGate, Gate!Spec, Gate!gateVars

-----------------------------------------------------------------------------
(* Why a second launch can happen at all                                   *)

\* An observation of vrserver ends a transaction as started only when no launch
\* is still to come up: the code does not see to it (finding 3), as /status and
\* the handler that waits may use an observation older than the launch.
FreshObservations ==
    [][(inflight # NoTx /\ FinishWith("STARTED")) => launch = "none"]_vars

\* Inside its lease a launch that has not come up holds the gate: marked, with
\* at least as much left as the lease of the launch, or with a handler that is
\* about to mark it.
LaunchHoldsGate ==
    launch # "none" /\ window >= 0 =>
        /\ inflight # NoTx
        /\ \/ inflight.dispatched /\ inflight.left >= window
           \/ \E h \in Handlers : Owns(h) /\ pc[h] \in Marking

\* A marked transaction has the whole lease.
LEMMA MarkedTx ==
    ASSUME inflight \in Txs, NEW g \in Handlers \cup {NoHandler}
    PROVE  /\ Dispatched(g) \in Txs
           /\ Dispatched(g).dispatched /\ Dispatched(g).left = StartupLease
    <1>1. \A t \in Txs : /\ [t EXCEPT !.dispatched = TRUE] \in Txs
                         /\ [t EXCEPT !.dispatched = TRUE].dispatched
        BY DEF Txs
    <1>2. StartupLease \in -1..StartupLease
        BY TimeAssumption
    <1>3. \A t \in Txs : LET u == [t EXCEPT !.left = StartupLease]
                         IN  u \in Txs /\ u.dispatched = t.dispatched /\ u.left = StartupLease
        BY <1>2 DEF Txs
    <1>4. \A t \in Txs : LET u == [t EXCEPT !.holder = g]
                         IN  u \in Txs /\ u.dispatched = t.dispatched /\ u.left = t.left
        BY DEF Txs
    <1> QED BY <1>1, <1>3, <1>4 DEF Dispatched

LEMMA LaunchHoldsGateStep ==
    ASSUME IInv, LaunchHoldsGate, [Next]_vars,
           (inflight # NoTx /\ FinishWith("STARTED")) => launch = "none"
    PROVE  LaunchHoldsGate'
    <1>0. /\ pc \in [Handlers -> Places] /\ inflight \in Txs \cup {NoTx}
          /\ window \in Int /\ StartupLease \in Nat
        BY TimeAssumption DEF IInv, TypeOK
    <1> SUFFICES ASSUME launch' # "none", window' >= 0
                 PROVE  /\ inflight' # NoTx
                        /\ \/ inflight'.dispatched /\ inflight'.left >= window'
                           \/ \E h \in Handlers : Owns(h)' /\ pc'[h] \in Marking
        BY DEF LaunchHoldsGate
    <1> DEFINE Marked == inflight.dispatched /\ inflight.left >= window
               Holds  == inflight # NoTx /\ (Marked \/ \E h \in Handlers : Owns(h) /\ pc[h] \in Marking)
    \* All but a launch, a mark and a tick leave the gate to the launch that has it.
    <1>1. ASSUME launch # "none", window' = window
          PROVE  Holds /\ ~(inflight # NoTx /\ FinishWith("STARTED"))
        BY <1>1 DEF LaunchHoldsGate
    <1>2. ASSUME launch # "none", window' = window, inflight' = inflight, pc' = pc
          PROVE  LaunchHoldsGate'
        BY <1>1, <1>2 DEF LaunchHoldsGate, Owns
    <1>3. ASSUME NEW h \in Handlers, NEW r \in [id : Ids, payload : Payloads],
                 Refuse(h, r) \/ Begin(h, r)
          PROVE  LaunchHoldsGate'
        <2>1. launch # "none" /\ window' = window /\ pc[h] = "idle"
            BY <1>3 DEF Refuse, Begin, world
        <2>2. CASE ~GateFree
            <3>1. inflight' = inflight /\ pc' = pc
                BY <1>3, <2>2 DEF Refuse, Begin
            <3> QED BY <1>2, <2>1, <3>1
        <2>3. CASE GateFree
            <3>1. Holds /\ LeaseOver
                BY <1>1, <2>1, <2>3 DEF GateFree
            <3>2. inflight.dispatched /\ inflight.left < 0 /\ inflight \in Txs
                BY <1>0, <3>1 DEF LeaseOver
            <3>3. \A g \in Handlers : ~(Owns(g) /\ pc[g] \in Marking)
                BY <3>2 DEF IInv, PreflightHoldsGate
            <3>4. inflight.left >= window /\ window >= 0 /\ inflight.left \in Int
                BY <3>1, <3>2, <3>3, <2>1 DEF Txs
            <3> QED BY <3>2, <3>4, <1>0
        <2> QED BY <2>2, <2>3
    <1>4. ASSUME NEW h \in Handlers, Serve(h) PROVE LaunchHoldsGate'
        <2>1. CASE Spawn(h) \/ SpawnLate(h)
            <3>1. pc[h] = "spawn" /\ pc'[h] \in Marking /\ inflight' = inflight
                BY <1>0, <2>1 DEF Spawn, SpawnLate, Goto, server, Marking
            <3>2. Owns(h)
                BY <3>1 DEF IInv, PreflightHoldsGate, Preflight
            <3> QED BY <3>1, <3>2 DEF LaunchHoldsGate, Owns
        <2>2. CASE MarkDispatched(h) \/ MarkLate(h)
            <3>1. launch # "none" /\ window' = window /\ pc[h] \in Marking
                BY <2>2 DEF MarkDispatched, MarkLate, world, Marking
            <3>2. Owns(h) /\ inflight # NoTx /\ inflight \in Txs
                BY <1>0, <3>1 DEF IInv, PreflightHoldsGate, Owns
            <3>3. PICK g \in Handlers \cup {NoHandler} : inflight' = Dispatched(g)
                BY <2>2, <3>2 DEF MarkDispatched, MarkLate
            <3>4. inflight' \in Txs /\ inflight'.dispatched /\ inflight'.left = StartupLease
                BY <3>2, <3>3, MarkedTx
            <3>5. inflight' # NoTx /\ StartupLease >= window'
                BY <3>1, <3>4, <1>0, NoneIsNone DEF IInv, TypeOK
            <3> QED BY <3>4, <3>5 DEF LaunchHoldsGate
        <2>3. CASE pc[h] \notin {"spawn"} \cup Marking \/ SpawnFails(h)
            <3>1. launch # "none" /\ window' = window /\ pc[h] \notin Marking
                BY <1>4, <2>3 DEF Serve, EnsurePeer, Probe, AlreadyRunning, CheckCodec,
                    LauncherProbe, Spawn, SpawnFails, SpawnLate, MarkDispatched, MarkLate, Observe,
                    Started, GiveUp, world, Marking
            <3>2. \A g \in Handlers \ {h} : pc'[g] = pc[g]
                BY <1>0, <1>4, <2>3 DEF Serve, EnsurePeer, Probe, AlreadyRunning, CheckCodec,
                    LauncherProbe, Spawn, SpawnFails, SpawnLate, MarkDispatched, MarkLate, Observe,
                    Started, GiveUp, Goto
            <3>3. Holds /\ ~(inflight # NoTx /\ FinishWith("STARTED"))
                BY <1>1, <3>1
            <3>4. CASE inflight' = inflight
                BY <3>1, <3>2, <3>3, <3>4 DEF LaunchHoldsGate, Owns
            <3>5. CASE inflight' # inflight
                <4>1. Owns(h)
                    BY <1>4, <2>3, <3>5 DEF Serve, EnsurePeer, Probe, AlreadyRunning, CheckCodec,
                        LauncherProbe, Spawn, SpawnFails, SpawnLate, MarkDispatched, MarkLate,
                        Observe, Started, GiveUp, Finalise, FailStart, server, Marking
                <4>2. inflight.dispatched /\ inflight.left >= window /\ inflight \in Txs
                    BY <1>0, <3>1, <3>3, <4>1 DEF Owns
                <4>3. pc[h] \notin Preflight
                    BY <4>2 DEF IInv, PreflightHoldsGate
                <4>4. GiveUp(h)
                    BY <1>4, <2>3, <3>3, <3>5, <4>1, <4>3 DEF Serve, EnsurePeer, Probe,
                        AlreadyRunning, CheckCodec, LauncherProbe, Spawn, SpawnFails, SpawnLate,
                        MarkDispatched, MarkLate, Observe, Started, Finalise, server, Marking,
                        Preflight
                <4>5. inflight' = [inflight EXCEPT !.holder = NoHandler]
                    BY <4>1, <4>4 DEF GiveUp
                <4>6. inflight' \in Txs /\ inflight'.dispatched /\ inflight'.left = inflight.left
                    BY <4>2, <4>5 DEF Txs
                <4> QED BY <3>1, <4>2, <4>6, NoneIsNone DEF LaunchHoldsGate
            <3> QED BY <3>4, <3>5
        <2> QED BY <1>4, <2>1, <2>2, <2>3
            DEF Serve, EnsurePeer, Probe, AlreadyRunning, CheckCodec, LauncherProbe, Observe,
                Started, GiveUp, Marking
    <1>5. CASE Status
        <2>1. launch # "none" /\ window' = window /\ pc' = pc
            BY <1>5 DEF Status, StatusProbe, StatusResolve, StatusFails, world
        <2>2. inflight' = inflight
            BY <1>5, <1>1, <2>1 DEF Status, StatusProbe, StatusResolve, StatusFails, server
        <2> QED BY <1>2, <2>1, <2>2 DEF LaunchHoldsGate
    <1>6. CASE Tick
        <2>1. launch # "none" /\ window' = Less(window) /\ pc' = pc
            BY <1>6 DEF Tick
        <2>2. window >= 0 /\ window' = window - 1
            BY <2>1, <1>0 DEF Less
        <2>3. Holds
            BY <2>1, <2>2 DEF LaunchHoldsGate
        <2>4. inflight \in Txs /\ inflight' = [inflight EXCEPT !.left = Less(@)]
            BY <1>0, <1>6, <2>3 DEF Tick
        <2>5. /\ inflight'.dispatched = inflight.dispatched /\ inflight'.holder = inflight.holder
              /\ inflight'.left = Less(inflight.left) /\ inflight.left \in Int
            BY <2>4 DEF Txs
        <2>6. inflight' # NoTx
            BY <2>4, ChangedGate, NoneIsNone
        <2>7. inflight.left >= window => inflight'.left >= window'
            BY <1>0, <2>2, <2>5 DEF Less
        <2> QED BY <2>1, <2>3, <2>5, <2>6, <2>7 DEF Owns
    <1>7. CASE SteamVR \/ UNCHANGED vars
        <2>1. launch # "none" /\ window' = window /\ inflight' = inflight /\ pc' = pc
            BY <1>7 DEF SteamVR, VrUp, VrExits, LateSpawn, LaunchDies, server, vars
        <2> QED BY <1>2, <2>1 DEF LaunchHoldsGate
    <1> QED
        BY <1>3, <1>4, <1>5, <1>6, <1>7 DEF Next, Accept, LaunchHoldsGate

\* A second copy of SteamVR inside the lease has one cause: an observation that was
\* older than the launch it ended.  With fresh observations the gate alone keeps
\* every later request from launching, also while a launch outlives its Start and
\* whatever becomes of the handler that made it.
THEOREM FreshObservationsSuffice == Spec /\ FreshObservations => SingleLaunch
    <1>1. Init => LaunchHoldsGate
        BY DEF Init, LaunchHoldsGate
    <1>2. ASSUME IInv, LaunchHoldsGate, NEW h \in Handlers, Launches(h)
          PROVE  ~(launch = "starting" /\ window >= 0)
        <2>1. pc[h] = "spawn" /\ Owns(h) /\ ~inflight.dispatched
            BY <1>2 DEF Launches, IInv, PreflightHoldsGate, Preflight
        <2>2. \A g \in Handlers : Owns(g) => g = h
            BY <2>1 DEF Owns
        <2> QED BY <1>2, <2>1, <2>2 DEF LaunchHoldsGate, Marking
    <1>3. IInv /\ LaunchHoldsGate /\ [Next]_vars =>
              [\A h \in Handlers : Launches(h) => ~(launch = "starting" /\ window >= 0)]_vars
        BY <1>2
    <1>4. IInv /\ LaunchHoldsGate /\ [Next]_vars
              /\ [(inflight # NoTx /\ FinishWith("STARTED")) => launch = "none"]_vars
              => LaunchHoldsGate'
        <2>1. ASSUME LaunchHoldsGate, UNCHANGED vars PROVE LaunchHoldsGate'
            BY <2>1 DEF vars, server, world, LaunchHoldsGate, Owns
        <2> QED BY <2>1, LaunchHoldsGateStep
    <1> QED BY <1>1, <1>3, <1>4, Invariance, PTL DEF Spec, FreshObservations, SingleLaunch

-----------------------------------------------------------------------------
(* Why the gate opens again                                                *)

\* The steps a handler takes at most until its transaction is marked.
ServesLeft(place) ==
    CASE place = "peer" -> 6
      [] place = "probe" -> 5
      [] place \in {"running", "codec"} -> 4
      [] place = "start" -> 3
      [] place = "spawn" -> 2
      [] place \in Marking -> 1
      [] OTHER -> 0

\* How far the gate is from opening: a preparing handler first takes its steps
\* and then leaves a whole lease, of which every tick takes one.
GateStepsLeft ==
    IF GateFree THEN 0
    ELSE IF inflight.dispatched THEN inflight.left + 1
    ELSE StartupLease + 1 + ServesLeft(pc[inflight.holder])

\* A gate that is not free is in the hands of a handler that prepares a launch,
\* or of a lease that runs.
GateTended ==
    ~GateFree =>
        IF inflight.dispatched THEN inflight.left >= 0
        ELSE inflight.holder \in Handlers /\ pc[inflight.holder] \in Preflight \cup Marking

\* No step takes a gate that is not free away from the transaction in it, or
\* further from opening; a step of the handler that prepares, or a tick of the
\* lease that runs, takes it nearer.
GateNearer ==
    ~GateFree =>
        /\ GateFree' \/ (inflight'.id = inflight.id /\ inflight'.payload = inflight.payload)
        /\ GateStepsLeft' <= GateStepsLeft
        /\ (IF inflight.dispatched THEN Tick ELSE Serve(inflight.holder))
               => GateStepsLeft' < GateStepsLeft

\* Every step of a preparing handler is a step down.
LEMMA ServesLeftFacts ==
    /\ \A p \in Preflight \cup Marking : ServesLeft(p) \in Nat \ {0}
    /\ ServesLeft("peer") = 6 /\ ServesLeft("probe") = 5 /\ ServesLeft("running") = 4
    /\ ServesLeft("codec") = 4 /\ ServesLeft("start") = 3 /\ ServesLeft("spawn") = 2
    /\ ServesLeft("mark") = 1 /\ ServesLeft("markLate") = 1
    <1>1. /\ ServesLeft("peer") = 6 /\ ServesLeft("probe") = 5 /\ ServesLeft("running") = 4
          /\ ServesLeft("codec") = 4 /\ ServesLeft("start") = 3 /\ ServesLeft("spawn") = 2
          /\ ServesLeft("mark") = 1 /\ ServesLeft("markLate") = 1
        BY DEF ServesLeft, Marking
    <1>2. ASSUME NEW p \in Preflight \cup Marking PROVE ServesLeft(p) \in 1..6
        BY <1>1, <1>2 DEF Preflight, Marking
    <1> QED BY <1>1, <1>2

\* The rank of a gate, by who holds it.
LEMMA GateStepsFacts ==
    ASSUME TypeOK, Prepared
    PROVE  /\ GateStepsLeft \in Nat
           /\ GateFree => GateStepsLeft = 0
           /\ ~GateFree => inflight \in Txs /\ GateStepsLeft >= 1
           /\ ~GateFree /\ inflight.dispatched =>
                  inflight.left \in 0..StartupLease /\ GateStepsLeft = inflight.left + 1
           /\ ~GateFree /\ ~inflight.dispatched =>
                  /\ inflight.holder \in Handlers
                  /\ pc[inflight.holder] \in Preflight \cup Marking
                  /\ ServesLeft(pc[inflight.holder]) \in Nat \ {0}
                  /\ GateStepsLeft = StartupLease + 1 + ServesLeft(pc[inflight.holder])
    <1>1. CASE GateFree
        BY <1>1 DEF GateStepsLeft
    <1>2. CASE ~GateFree /\ inflight.dispatched
        <2>1. inflight # NoTx /\ inflight \in Txs /\ ~(inflight.left < 0)
            BY <1>2 DEF GateFree, LeaseOver, TypeOK
        <2>2. inflight.left \in 0..StartupLease
            BY <2>1, TimeAssumption DEF Txs
        <2>3. GateStepsLeft = inflight.left + 1
            BY <1>2 DEF GateStepsLeft
        <2> QED BY <1>2, <2>1, <2>2, <2>3, TimeAssumption
    <1>3. CASE ~GateFree /\ ~inflight.dispatched
        <2>1. inflight # NoTx /\ inflight \in Txs
            BY <1>3 DEF GateFree, TypeOK
        <2>2. inflight.holder \in Handlers /\ pc[inflight.holder] \in Preflight \cup Marking
            BY <1>3, <2>1 DEF Prepared
        <2>3. ServesLeft(pc[inflight.holder]) \in Nat \ {0}
            BY <2>2, ServesLeftFacts
        <2>4. GateStepsLeft = StartupLease + 1 + ServesLeft(pc[inflight.holder])
            BY <1>3 DEF GateStepsLeft
        <2> QED BY <1>3, <2>1, <2>2, <2>3, <2>4, TimeAssumption
    <1> QED BY <1>1, <1>2, <1>3

\* A step that frees the gate is a step down.
LEMMA OpeningIsNearer ==
    ASSUME TypeOK, Prepared, ~GateFree, TypeOK', Prepared', inflight' = NoTx
    PROVE  GateNearer
    <1>1. GateFree' /\ GateStepsLeft' = 0
        BY DEF GateFree, GateStepsLeft
    <1>2. GateStepsLeft \in Nat \ {0}
        BY GateStepsFacts
    <1> QED BY <1>1, <1>2 DEF GateNearer

\* While a lease runs only a tick changes what is left of it.
LEMMA LeaseNearer ==
    ASSUME IInv, Prepared, ~GateFree, inflight.dispatched, [Next]_vars,
           TypeOK', Prepared', inflight' # NoTx
    PROVE  GateNearer
    <1>0. inflight \in Txs /\ inflight # NoTx /\ GateStepsLeft = inflight.left + 1
          /\ inflight.left \in 0..StartupLease
        BY GateStepsFacts DEF IInv, GateFree
    <1> DEFINE held == /\ inflight'.dispatched /\ inflight'.id = inflight.id
                       /\ inflight'.payload = inflight.payload
    <1>1. ASSUME held, inflight'.left = inflight.left, ~Tick
          PROVE  GateNearer
        <2>1. ~GateFree' /\ GateStepsLeft' = GateStepsLeft
            BY <1>0, <1>1 DEF GateFree, LeaseOver, GateStepsLeft
        <2> QED BY <1>0, <1>1, <2>1 DEF GateNearer
    <1>2. ASSUME held, inflight'.left = inflight.left - 1
          PROVE  GateNearer
        <2>1. CASE GateFree'
            BY <1>0, <1>2, <2>1 DEF GateStepsLeft, GateNearer
        <2>2. CASE ~GateFree'
            <3>1. GateStepsLeft' = inflight.left
                BY <1>0, <1>2, <2>2 DEF GateStepsLeft
            <3> QED BY <1>0, <1>2, <3>1 DEF GateNearer
        <2> QED BY <2>1, <2>2
    <1>3. Tick => inflight' = [inflight EXCEPT !.left = Less(@)]
        BY <1>0 DEF Tick
    <1>4. ASSUME Tick PROVE GateNearer
        <2>1. held /\ inflight'.left = Less(inflight.left)
            BY <1>0, <1>3, <1>4 DEF Txs
        <2>2. Less(inflight.left) = inflight.left - 1
            BY <1>0, TimeAssumption DEF Less
        <2> QED BY <1>2, <2>1, <2>2
    <1>5. ASSUME ~Tick PROVE held /\ inflight'.left = inflight.left
        <2>1. inflight' \in {inflight, [inflight EXCEPT !.holder = NoHandler]}
            <3>1. ASSUME NEW h \in Handlers, Accept(h) PROVE inflight' = inflight
                BY <3>1 DEF Accept, Refuse, Begin
            <3>2. ASSUME NEW h \in Handlers, Serve(h)
                  PROVE  inflight' \in {inflight, [inflight EXCEPT !.holder = NoHandler]}
                <4>1. pc[h] \notin Preflight \cup Marking
                    BY DEF IInv, PreflightHoldsGate
                <4> QED BY <3>2, <4>1 DEF Serve, EnsurePeer, Probe, AlreadyRunning, CheckCodec,
                    LauncherProbe, Spawn, SpawnFails, SpawnLate, MarkDispatched, MarkLate, Observe,
                    Started, GiveUp, Finalise, FinishWith, server, Preflight, Marking
            <3>3. CASE Status
                BY <3>3, <1>0 DEF Status, StatusProbe, StatusResolve, StatusFails, FinishWith, server
            <3>4. CASE SteamVR \/ UNCHANGED vars
                BY <3>4 DEF SteamVR, VrUp, VrExits, LateSpawn, LaunchDies, server, vars
            <3> QED BY <1>5, <3>1, <3>2, <3>3, <3>4 DEF Next
        <2> QED BY <1>0, <2>1 DEF Txs
    <1> QED BY <1>1, <1>4, <1>5

\* While a launch is prepared only the handler that prepares it changes the gate.
LEMMA PreparingNearer ==
    ASSUME IInv, Prepared, ~GateFree, ~inflight.dispatched, [Next]_vars,
           TypeOK', Prepared', inflight' # NoTx
    PROVE  GateNearer
    <1> DEFINE h == inflight.holder
    <1>0. /\ inflight \in Txs /\ inflight # NoTx /\ h \in Handlers
          /\ pc[h] \in Preflight \cup Marking /\ ServesLeft(pc[h]) \in Nat \ {0}
          /\ GateStepsLeft = StartupLease + 1 + ServesLeft(pc[h])
          /\ pc \in [Handlers -> Places] /\ StartupLease \in Nat
        BY GateStepsFacts, TimeAssumption DEF IInv, GateFree, TypeOK
    <1> DEFINE same == inflight'.id = inflight.id /\ inflight'.payload = inflight.payload
    <1>1. ASSUME same, ~inflight'.dispatched, inflight'.holder = h, pc'[h] = pc[h], ~Serve(h)
          PROVE  GateNearer
        <2>1. ~GateFree' /\ GateStepsLeft' = GateStepsLeft
            BY <1>0, <1>1 DEF GateFree, LeaseOver, GateStepsLeft
        <2> QED BY <1>0, <1>1, <2>1 DEF GateNearer
    <1>2. ASSUME same, inflight'.dispatched, inflight'.left = StartupLease
          PROVE  GateNearer
        <2>1. ~GateFree' /\ GateStepsLeft' = StartupLease + 1
            BY <1>0, <1>2 DEF GateFree, LeaseOver, GateStepsLeft
        <2> QED BY <1>0, <1>2, <2>1 DEF GateNearer
    <1>3. ASSUME inflight' = inflight, ServesLeft(pc'[h]) \in Nat,
                 ServesLeft(pc'[h]) < ServesLeft(pc[h])
          PROVE  GateNearer
        <2>1. ~GateFree' /\ GateStepsLeft' = StartupLease + 1 + ServesLeft(pc'[h])
            BY <1>0, <1>3 DEF GateFree, LeaseOver, GateStepsLeft
        <2> QED BY <1>0, <1>3, <2>1 DEF GateNearer
    <1>4. CASE Serve(h)
        <2>1. Owns(h)
            BY <1>0 DEF Owns
        <2>2. CASE MarkDispatched(h) \/ MarkLate(h)
            <3>1. PICK g \in Handlers \cup {NoHandler} : inflight' = Dispatched(g)
                BY <1>0, <2>1, <2>2 DEF MarkDispatched, MarkLate
            <3>2. same /\ inflight'.dispatched /\ inflight'.left = StartupLease
                BY <1>0, <3>1 DEF Dispatched, Txs
            <3> QED BY <1>2, <3>2
        <2>3. CASE EnsurePeer(h)
            <3>1. inflight' = inflight /\ pc[h] = "peer" /\ pc'[h] = "probe"
                BY <1>0, <2>1, <2>3 DEF EnsurePeer, Goto, FailStart, server
            <3> QED BY <1>3, <3>1, ServesLeftFacts
        <2>4. CASE Probe(h)
            <3>1. inflight' = inflight /\ pc[h] = "probe" /\ pc'[h] \in {"running", "codec"}
                BY <1>0, <2>1, <2>4 DEF Probe, Goto, FailStart, server
            <3>2. ServesLeft(pc[h]) = 5 /\ ServesLeft(pc'[h]) = 4
                BY <3>1, ServesLeftFacts
            <3> QED BY <1>3, <3>1, <3>2
        <2>5. CASE CheckCodec(h)
            <3>1. inflight' = inflight /\ pc[h] = "codec" /\ pc'[h] = "start"
                BY <1>0, <2>1, <2>5 DEF CheckCodec, Goto, FailStart, server
            <3> QED BY <1>3, <3>1, ServesLeftFacts
        <2>6. CASE LauncherProbe(h)
            <3>1. inflight' = inflight /\ pc[h] = "start" /\ pc'[h] = "spawn"
                BY <1>0, <2>1, <2>6 DEF LauncherProbe, Goto, FailStart, server
            <3> QED BY <1>3, <3>1, ServesLeftFacts
        <2>7. CASE Spawn(h) \/ SpawnLate(h)
            <3>1. inflight' = inflight /\ pc[h] = "spawn" /\ pc'[h] \in Marking
                BY <1>0, <2>7 DEF Spawn, SpawnLate, Goto, server, Marking
            <3>2. ServesLeft(pc[h]) = 2 /\ ServesLeft(pc'[h]) = 1
                BY <3>1, ServesLeftFacts DEF Marking
            <3> QED BY <1>3, <3>1, <3>2
        <2>8. CASE AlreadyRunning(h) \/ SpawnFails(h)
            BY <2>1, <2>8 DEF AlreadyRunning, SpawnFails, Finalise, FinishWith, FailStart
        <2>9. CASE Observe(h) \/ Started(h) \/ GiveUp(h)
            BY <1>0, <2>9 DEF Observe, Started, GiveUp, Preflight, Marking
        <2> QED
            BY <1>4, <2>2, <2>3, <2>4, <2>5, <2>6, <2>7, <2>8, <2>9 DEF Serve
    <1>5. CASE ~Serve(h)
        <2>1. ASSUME inflight' = inflight, pc'[h] = pc[h] PROVE GateNearer
            BY <1>1, <1>5, <2>1
        <2>2. ASSUME NEW g \in Handlers, Accept(g) PROVE GateNearer
            <3>1. inflight' = inflight /\ pc' = pc
                BY <2>2 DEF Accept, Refuse, Begin
            <3> QED BY <2>1, <3>1
        <2>3. ASSUME NEW g \in Handlers, Serve(g) PROVE GateNearer
            <3>1. g # h /\ ~Owns(g)
                BY <1>5, <2>3 DEF Owns
            <3>2. inflight' = inflight
                BY <2>3, <3>1 DEF Serve, EnsurePeer, Probe, AlreadyRunning, CheckCodec,
                    LauncherProbe, Spawn, SpawnFails, SpawnLate, MarkDispatched, MarkLate, Observe,
                    Started, GiveUp, FailStart, Finalise, server
            <3>3. \E p : pc' = [pc EXCEPT ![g] = p]
                BY <2>3 DEF Serve, EnsurePeer, Probe, AlreadyRunning, CheckCodec, LauncherProbe,
                    Spawn, SpawnFails, SpawnLate, MarkDispatched, MarkLate, Observe, Started,
                    GiveUp, Goto
            <3>4. pc'[h] = pc[h]
                BY <1>0, <3>1, <3>3
            <3> QED BY <2>1, <3>2, <3>4
        <2>4. CASE Status
            <3>1. inflight' = inflight /\ pc' = pc
                BY <2>4 DEF Status, StatusProbe, StatusResolve, StatusFails, server
            <3> QED BY <2>1, <3>1
        <2>5. CASE Tick
            <3>1. inflight' = [inflight EXCEPT !.left = Less(@)] /\ pc' = pc
                BY <1>0, <2>5 DEF Tick
            <3>2. same /\ inflight'.dispatched = inflight.dispatched /\ inflight'.holder = h
                BY <1>0, <3>1 DEF Txs
            <3> QED BY <1>1, <1>5, <3>1, <3>2
        <2>6. CASE SteamVR \/ UNCHANGED vars
            <3>1. inflight' = inflight /\ pc' = pc
                BY <2>6 DEF SteamVR, VrUp, VrExits, LateSpawn, LaunchDies, server, vars
            <3> QED BY <2>1, <3>1
        <2> QED BY <2>2, <2>3, <2>4, <2>5, <2>6 DEF Next
    <1> QED BY <1>4, <1>5

\* The safety half of GateOpens.  Whoever takes the gate, it is tended until it is
\* free, by a handler that prepares a launch or by a lease that runs, and it cannot
\* be kept: every step of that handler and every tick of that lease takes it nearer
\* to opening, and nobody, neither another request, /status nor SteamVR, takes it
\* back or puts another transaction in (lookupOrBeginTx, markDispatched, completeTx).
THEOREM GateCountsDown == Spec => [](GateTended /\ GateStepsLeft \in Nat) /\ [][GateNearer]_vars
    <1>1. Init => Prepared
        BY DEF Init, Prepared
    <1>2. Spec => []Prepared
        BY <1>1, PreparedStep, Invariance, PTL DEF Spec
    <1>3. IInv /\ Prepared => GateTended /\ GateStepsLeft \in Nat
        BY GateStepsFacts DEF IInv, GateTended
    <1>4. IInv /\ Prepared /\ IInv' /\ Prepared' /\ [Next]_vars => [GateNearer]_vars
        <2> SUFFICES ASSUME IInv, Prepared, IInv', Prepared', [Next]_vars, ~GateFree
                     PROVE  GateNearer
            BY DEF GateNearer
        <2>1. TypeOK /\ TypeOK'
            BY DEF IInv
        <2> QED BY <2>1, OpeningIsNearer, LeaseNearer, PreparingNearer
    <1> QED BY <1>2, <1>3, <1>4, Invariance, PTL DEF Spec

=============================================================================
