------------------------- MODULE InstanceGuardProofs -------------------------
(***************************************************************************)
(* What the single instance promises, for any number of launches, rounds   *)
(* and targets.  The argument is about the requests under way: a client    *)
(* waits for one answer at a time (InvOnce), what a request says was true  *)
(* of its sender and stays so (InvSlots), and who was told that an         *)
(* instance closes was told of a target that it never looks up again       *)
(* (InvTold).                                                              *)
(***************************************************************************)
EXTENDS InstanceGuard, TLAPS

\* The service thread of q still has to answer req[q]
Serving(q) == srv[q] \in {"snapshot", "fallback", "answer", "late"}

\* A request under way at q: the one it serves, at 0, and the ones queued
Slot(q, i) == IF i = 0 THEN req[q] ELSE queue[q][i]
Held(q, i) == IF i = 0 THEN Serving(q) ELSE i \in 1 .. Len(queue[q])

\* A request to replace is for an older instance in Game Mode, the one its sender saw first
Older(m) ==
    /\ m.gen \in Launches /\ m.gen < m.from
    /\ gaming[m.gen] /\ gaming[m.from] /\ observed[m.from] = m.gen

\* The instance p spoke to last is not one it had replaced
Safe(p) == ~(replacing[p] /\ peer[p] = observed[p])

SlotOK(m) ==
    /\ m.op = "replace" => Older(m)
    /\ m.live => pc[m.from] = (IF m.op = "status" THEN "asked" ELSE "waiting")
    /\ m.live /\ m.op = "activate" => Safe(m.from)

InvSlots == \A q \in Launches, i \in Nat : Held(q, i) => SlotOK(Slot(q, i))

InvOnce ==
    \A q, r \in Launches, i, j \in Nat :
        /\ Held(q, i) /\ Slot(q, i).live /\ Held(r, j) /\ Slot(r, j).live
        /\ Slot(q, i).from = Slot(r, j).from
        => q = r /\ i = j

InvServe ==
    \A q \in Launches :
        /\ srv[q] # "accept" => req[q].op = "replace" /\ req[q].gen = q /\ Older(req[q])
        /\ srv[q] = "late" => shut[q] # "no"

InvSafe ==
    \A p \in Launches : /\ pc[p] \in {"request", "activated"} => Safe(p)
                        /\ pc[p] = "request" => peer[p] # NoOne

\* q will not look up again what it hands on
Settled(q) ==
    \/ srv[q] = "stop" \/ pc[q] = "dead"
    \/ shut[q] # "no" /\ srv[q] \in {"accept", "late"}

InvTold ==
    \A p \in Launches : (told[p] # NoOne /\ pc[p] \in Waiting \cup {"bind"}) =>
        handoff[p] = captured[told[p]] /\ Settled(told[p])

Inv == TypeOK /\ InvSlots /\ InvOnce /\ InvServe /\ InvSafe /\ InvTold /\ ReplacesOlder

USE DEF NoOne

\* Numbers of processes are positive
LEMMA LaunchesPositive == Launches \subseteq Nat \ {0} /\ NoOne \notin Launches
BY BoundsAssumption DEF Launches

\* The initial state
LEMMA InitInv == Init => Inv
<1> SUFFICES ASSUME Init PROVE Inv
  OBVIOUS
<1> USE DEF Init
<1>1. /\ pc \in [Launches -> Places] /\ gaming \in [Launches -> BOOLEAN] /\ lock \in Launches \cup {NoOne}
      /\ observed \in [Launches -> Launches \cup {NoOne}] /\ replacing \in [Launches -> BOOLEAN]
      /\ acked \in [Launches -> BOOLEAN] /\ starting \in [Launches -> BOOLEAN]
      /\ peer \in [Launches -> Launches \cup {NoOne}]
      /\ by \in [Launches -> Launches \cup {NoOne}] /\ told \in [Launches -> Launches \cup {NoOne}]
  BY DEF Places, Waiting
<1>2. left \in [Launches -> 0 .. Rounds]
  BY BoundsAssumption
<1>3. /\ handoff \in [Launches -> Handoffs] /\ stream \in [Launches -> Handoffs]
      /\ captured \in [Launches -> Handoffs] /\ had \in [Launches -> Handoffs]
      /\ shut \in [Launches -> {"no", "quit", "replace"}]
      /\ srv \in [Launches -> {"accept", "snapshot", "fallback", "answer", "late", "stop"}]
  BY DEF Handoffs
<1>4. queue \in [Launches -> Seq(Requests)]
  OBVIOUS
<1>5. req \in [Launches -> Requests]
  BY DEF Requests, NoRequest
<1>6. TypeOK
  BY <1>1, <1>2, <1>3, <1>4, <1>5 DEF TypeOK
<1>7. /\ \A q \in Launches : srv[q] = "accept" /\ queue[q] = << >> /\ pc[q] = "acquire"
      /\ \A q \in Launches : by[q] = NoOne /\ told[q] = NoOne
  OBVIOUS
<1>8. \A q \in Launches, i \in Nat : ~Held(q, i)
  BY <1>7 DEF Held, Serving
<1> HIDE DEF Init
<1>9. InvSlots /\ InvOnce
  BY <1>8 DEF InvSlots, InvOnce
<1>10. InvServe /\ InvSafe /\ InvTold /\ ReplacesOlder
  BY <1>7 DEF InvServe, InvSafe, InvTold, ReplacesOlder
<1> QED
  BY <1>6, <1>9, <1>10 DEF Inv

-----------------------------------------------------------------------------
(* Types *)

\* Requests that are given up are requests still
LEMMA GiveUpTyped ==
    ASSUME TypeOK, NEW p \in Launches, GiveUp(p)
    PROVE  /\ queue' \in [Launches -> Seq(Requests)] /\ req' \in [Launches -> Requests]
           /\ \A q \in Launches : Len(queue'[q]) = Len(queue[q])
           /\ \A q \in Launches : \A i \in 1 .. Len(queue[q]) :
                queue'[q][i] = [queue[q][i] EXCEPT !.live = @ /\ queue[q][i].from # p]
           /\ \A q \in Launches : req'[q] = [req[q] EXCEPT !.live = @ /\ req[q].from # p]
<1> DEFINE Gone(m) == [m EXCEPT !.live = m.live /\ m.from # p]
<1>1. \A m \in Requests : Gone(m) \in Requests
  BY DEF Requests
<1>2. /\ queue' = [q \in Launches |-> [i \in DOMAIN queue[q] |-> Gone(queue[q][i])]]
      /\ req' = [q \in Launches |-> Gone(req[q])]
  BY DEF GiveUp
<1> HIDE DEF Gone
<1>3. ASSUME NEW q \in Launches
      PROVE  /\ queue'[q] \in Seq(Requests) /\ Len(queue'[q]) = Len(queue[q])
             /\ \A i \in 1 .. Len(queue[q]) : queue'[q][i] = Gone(queue[q][i])
  <2>1. queue[q] \in Seq(Requests)
    BY DEF TypeOK
  <2>2. queue'[q] = [i \in 1 .. Len(queue[q]) |-> Gone(queue[q][i])]
    BY <1>2, <2>1
  <2>3. \A i \in 1 .. Len(queue[q]) : Gone(queue[q][i]) \in Requests
    BY <1>1, <2>1
  <2> QED
    BY <2>1, <2>2, <2>3
<1>4. req' \in [Launches -> Requests]
  BY <1>1, <1>2 DEF TypeOK
<1>5. queue' \in [Launches -> Seq(Requests)]
  BY <1>2, <1>3
<1>6. \A q \in Launches : req'[q] = Gone(req[q])
  BY <1>2
<1> QED
  BY <1>3, <1>4, <1>5, <1>6 DEF Gone

\* A new request joins the queue of the holder of the flock, or there is no answer
LEMMA ExchangeTyped ==
    ASSUME TypeOK, NEW p \in Launches, NEW op \in {"status", "activate", "replace"},
           NEW g \in Launches \cup {NoOne}, NEW place \in Places, Exchange(p, op, g, place)
    PROVE  /\ queue' \in [Launches -> Seq(Requests)]
           /\ \/ pc' = [pc EXCEPT ![p] = "acquire"] /\ queue' = queue
              \/ /\ lock \in Launches /\ pc[lock] = "primary" /\ pc' = [pc EXCEPT ![p] = place]
                 /\ queue' = [queue EXCEPT ![lock] =
                        Append(queue[lock], [from |-> p, op |-> op, gen |-> g, live |-> TRUE])]
           /\ pc' \in [Launches -> Places]
<1>1. [from |-> p, op |-> op, gen |-> g, live |-> TRUE] \in Requests
  BY DEF Requests
<1>2. CASE lock # NoOne /\ pc[lock] = "primary" /\ Goto(p, place) /\ queue' =
             [queue EXCEPT ![lock] = Append(queue[lock], [from |-> p, op |-> op, gen |-> g, live |-> TRUE])]
  BY <1>1, <1>2 DEF TypeOK, Goto
<1>3. CASE Goto(p, "acquire") /\ queue' = queue
  BY <1>3 DEF TypeOK, Goto, Places, Waiting
<1> QED
  BY <1>2, <1>3 DEF Exchange

\* Taking the first request
LEMMA DequeueTyped ==
    ASSUME TypeOK, NEW q \in Launches, Accepts(q), Dequeue(q)
    PROVE  /\ Head1(q) \in Requests /\ Head1(q) = queue[q][1] /\ Head1(q).from \in Launches
           /\ Len(queue[q]) \in Nat /\ Len(queue[q]) > 0
           /\ queue' \in [Launches -> Seq(Requests)]
           /\ Len(queue'[q]) = Len(queue[q]) - 1
           /\ \A i \in 1 .. Len(queue[q]) - 1 : queue'[q][i] = queue[q][i + 1]
           /\ \A r \in Launches \ {q} : queue'[r] = queue[r]
<1>1. queue[q] \in Seq(Requests) /\ queue[q] # << >>
  BY DEF TypeOK, Accepts
<1>2. Head1(q) \in Requests /\ Head1(q) = queue[q][1] /\ Len(queue[q]) \in Nat /\ Len(queue[q]) > 0
  BY <1>1 DEF Head1
<1>3. Tail(queue[q]) \in Seq(Requests) /\ Len(Tail(queue[q])) = Len(queue[q]) - 1
      /\ \A i \in 1 .. Len(queue[q]) - 1 : Tail(queue[q])[i] = queue[q][i + 1]
  BY <1>1
<1>4. queue' = [queue EXCEPT ![q] = Tail(queue[q])]
  BY DEF Dequeue
<1>5. queue'[q] = Tail(queue[q]) /\ \A r \in Launches \ {q} : queue'[r] = queue[r]
  BY <1>4 DEF TypeOK
<1>6. queue' \in [Launches -> Seq(Requests)]
  BY <1>3, <1>4 DEF TypeOK
<1> QED
  BY <1>2, <1>3, <1>5, <1>6 DEF Requests

\* What an answer does to its client keeps the types
LEMMA HearTyped ==
    ASSUME TypeOK, NEW p \in Launches, NEW q \in Launches
    PROVE  /\ Extend(p) => left' \in [Launches -> 0 .. Rounds]
           /\ HearClosing(p, q) => /\ handoff' \in [Launches -> Handoffs]
                                   /\ left' \in [Launches -> 0 .. Rounds]
                                   /\ acked' \in [Launches -> BOOLEAN]
                                   /\ told' \in [Launches -> Launches \cup {NoOne}]
                                   /\ pc' \in [Launches -> Places]
<1>1. Extend(p) => left' \in [Launches -> 0 .. Rounds]
  BY BoundsAssumption DEF TypeOK, Extend
<1>2. ASSUME HearClosing(p, q)
      PROVE  /\ handoff' \in [Launches -> Handoffs] /\ acked' \in [Launches -> BOOLEAN]
             /\ told' \in [Launches -> Launches \cup {NoOne}] /\ Extend(p)
  BY <1>2 DEF TypeOK, HearClosing
<1>3. ASSUME HearClosing(p, q) PROVE pc' \in [Launches -> Places]
  BY <1>3 DEF TypeOK, HearClosing, Goto, Places, Waiting
<1> QED
  BY <1>1, <1>2, <1>3

\* Leaving enter() keeps the types
LEMMA LeaveTyped ==
    ASSUME TypeOK, NEW p \in Launches, NEW place \in Places, Leave(p, place)
    PROVE  /\ pc' \in [Launches -> Places] /\ left' \in [Launches -> 0 .. Rounds]
           /\ acked' \in [Launches -> BOOLEAN] /\ replacing' \in [Launches -> BOOLEAN]
           /\ peer' \in [Launches -> Launches \cup {NoOne}] /\ observed' = observed
<1>1. pc' \in [Launches -> Places]
  BY DEF TypeOK, Leave, Goto
<1>2. left' \in [Launches -> 0 .. Rounds]
  BY BoundsAssumption DEF TypeOK, Leave
<1>3. /\ acked' \in [Launches -> BOOLEAN] /\ replacing' \in [Launches -> BOOLEAN]
      /\ peer' \in [Launches -> Launches \cup {NoOne}] /\ observed' = observed
  BY DEF TypeOK, Leave
<1> QED
  BY <1>1, <1>2, <1>3

LEMMA FailTyped ==
    ASSUME TypeOK, NEW p \in Launches, Fail(p)
    PROVE  /\ pc' \in [Launches -> Places] /\ left' \in [Launches -> 0 .. Rounds]
           /\ acked' \in [Launches -> BOOLEAN] /\ replacing' \in [Launches -> BOOLEAN]
           /\ peer' \in [Launches -> Launches \cup {NoOne}] /\ observed' = observed
           /\ handoff' \in [Launches -> Handoffs] /\ told' \in [Launches -> Launches \cup {NoOne}]
<1>1. "failed" \in Places
  BY DEF Places
<1>2. Leave(p, "failed")
  BY DEF Fail
<1>3. handoff' \in [Launches -> Handoffs] /\ told' \in [Launches -> Launches \cup {NoOne}]
  BY DEF Fail, TypeOK, Handoffs
<1> QED
  BY <1>1, <1>2, <1>3, LeaveTyped

\* The steps of enter() keep the types
LEMMA EnterTyped ==
    ASSUME TypeOK, NEW p \in Launches, Enter(p)
    PROVE  TypeOK'
<1> USE DEF service, client
<1>1. CASE Interrupted(p)
  <2>1. shut' \in [Launches -> {"no", "quit", "replace"}] /\ Fail(p)
        /\ UNCHANGED <<gaming, lock, stream, starting, queue, srv, req, captured, had, by>>
    BY <1>1 DEF Interrupted, TypeOK
  <2> QED
    BY <2>1, FailTyped DEF TypeOK
<1>2. CASE TakeLock(p)
  <2>1. Leave(p, "bind") /\ lock' = p
        /\ UNCHANGED <<gaming, handoff, shut, stream, starting, queue, srv, req, captured, had, by, told>>
    BY <1>2 DEF TakeLock
  <2>2. "bind" \in Places
    BY DEF Places
  <2> QED
    BY <2>1, <2>2, LeaveTyped DEF TypeOK
<1>3. CASE TimeOut(p)
  <2>1. Fail(p) /\ UNCHANGED <<gaming, lock, shut, stream, starting, queue, srv, req, captured, had, by>>
    BY <1>3 DEF TimeOut
  <2> QED
    BY <2>1, FailTyped DEF TypeOK
<1>4. CASE AskStatus(p)
  <2>1. Exchange(p, "status", NoOne, "asked") /\ left' = [left EXCEPT ![p] = left[p] - 1] /\ left[p] # 0
        /\ UNCHANGED <<gaming, lock, observed, replacing, acked, peer, handoff, shut, stream,
                       starting, srv, req, captured, had, by, told>>
    BY <1>4 DEF AskStatus, Expired
  <2>2. left' \in [Launches -> 0 .. Rounds]
    BY <2>1, BoundsAssumption DEF TypeOK
  <2>3. pc' \in [Launches -> Places] /\ queue' \in [Launches -> Seq(Requests)]
    <3>1. "asked" \in Places
      BY DEF Places, Waiting
    <3> QED
      BY <2>1, <3>1, ExchangeTyped
  <2> QED
    BY <2>1, <2>2, <2>3 DEF TypeOK
<1>5. CASE SendRequest(p)
  <2> DEFINE replace == MayReplace(p, peer[p])
             op == IF replace THEN "replace" ELSE "activate"
  <2>1. Exchange(p, op, peer[p], "waiting") /\ replacing' = [replacing EXCEPT ![p] = @ \/ replace]
        /\ UNCHANGED <<gaming, lock, observed, acked, left, peer, handoff, shut, stream,
                       starting, srv, req, captured, had, by, told>>
    BY <1>5 DEF SendRequest
  <2>2. replacing' \in [Launches -> BOOLEAN]
    <3>1. replacing[p] \in BOOLEAN /\ replace \in BOOLEAN
      BY DEF TypeOK, MayReplace
    <3> HIDE DEF replace
    <3> QED
      BY <2>1, <3>1 DEF TypeOK
  <2>3. pc' \in [Launches -> Places] /\ queue' \in [Launches -> Seq(Requests)]
    <3>1. "waiting" \in Places /\ op \in {"status", "activate", "replace"} /\ peer[p] \in Launches \cup {NoOne}
      BY DEF Places, Waiting, TypeOK
    <3> HIDE DEF op
    <3> QED
      BY <2>1, <3>1, ExchangeTyped
  <2> QED
    BY <2>1, <2>2, <2>3 DEF TypeOK
<1>6. CASE GiveUp(p)
  <2>1. pc' \in [Launches -> Places]
    BY <1>6 DEF GiveUp, Goto, TypeOK, Places, Waiting
  <2>2. UNCHANGED <<gaming, lock, observed, replacing, acked, left, peer, handoff, shut, stream, starting,
                    srv, captured, had, by, told>>
    BY <1>6 DEF GiveUp
  <2> QED
    BY <1>6, <2>1, <2>2, GiveUpTyped DEF TypeOK
<1>7. CASE Bind(p)
  BY <1>7 DEF Bind, Goto, TypeOK, Places
<1>8. CASE BindFails(p)
  <2>1. Fail(p) /\ lock' = NoOne
        /\ UNCHANGED <<gaming, shut, stream, starting, queue, srv, req, captured, had, by>>
    BY <1>8 DEF BindFails
  <2> QED
    BY <2>1, FailTyped DEF TypeOK
<1> QED
  BY <1>1, <1>2, <1>3, <1>4, <1>5, <1>6, <1>7, <1>8 DEF Enter

\* The steps of the service thread keep the types
LEMMA ServeTyped ==
    ASSUME TypeOK, NEW q \in Launches, Serve(q)
    PROVE  TypeOK'
<1> USE DEF service, client
<1>1. CASE ServeStatus(q)
  <2> DEFINE p == Head1(q).from
  <2>1. p \in Launches /\ queue' \in [Launches -> Seq(Requests)]
    BY <1>1, DequeueTyped DEF ServeStatus
  <2> HIDE DEF p
  <2>2. UNCHANGED <<gaming, lock, replacing, shut, stream, starting, srv, req, captured, had, by>>
    BY <1>1 DEF ServeStatus
  <2>3. CASE ~Head1(q).live
    BY <1>1, <2>1, <2>2, <2>3 DEF ServeStatus, HearNothing, TypeOK
  <2>4. CASE Head1(q).live
    <3>1. /\ observed' = [observed EXCEPT ![p] = IF @ = NoOne THEN q ELSE @]
          /\ peer' = [peer EXCEPT ![p] = q]
          /\ \/ HearClosing(p, q)
             \/ /\ pc' = [pc EXCEPT ![p] = IF MustWait(p, q) THEN "acquire" ELSE "request"]
                /\ UNCHANGED <<handoff, left, acked, told>>
      BY <1>1, <2>4 DEF ServeStatus, Goto, p
    <3>2. observed' \in [Launches -> Launches \cup {NoOne}] /\ peer' \in [Launches -> Launches \cup {NoOne}]
      BY <2>1, <3>1 DEF TypeOK
    <3>3. /\ handoff' \in [Launches -> Handoffs] /\ left' \in [Launches -> 0 .. Rounds]
          /\ acked' \in [Launches -> BOOLEAN] /\ told' \in [Launches -> Launches \cup {NoOne}]
          /\ pc' \in [Launches -> Places]
      <4>1. CASE HearClosing(p, q)
        BY <2>1, <4>1, HearTyped
      <4>2. CASE pc' = [pc EXCEPT ![p] = IF MustWait(p, q) THEN "acquire" ELSE "request"]
                 /\ UNCHANGED <<handoff, left, acked, told>>
        BY <2>1, <4>2 DEF TypeOK, Places, Waiting
      <4> QED
        BY <3>1, <4>1, <4>2
    <3> QED
      BY <2>1, <2>2, <3>2, <3>3 DEF TypeOK
  <2> QED
    BY <2>3, <2>4
<1>2. CASE ServeStale(q)
  <2>1. queue' \in [Launches -> Seq(Requests)]
    BY <1>2, DequeueTyped DEF ServeStale
  <2>2. pc' \in [Launches -> Places]
    BY <1>2 DEF ServeStale, TypeOK, Places, Waiting
  <2> QED
    BY <1>2, <2>1, <2>2 DEF ServeStale, TypeOK
<1>3. CASE ServeActivate(q)
  <2> DEFINE p == Head1(q).from
  <2>1. p \in Launches /\ queue' \in [Launches -> Seq(Requests)]
    BY <1>3, DequeueTyped DEF ServeActivate
  <2> HIDE DEF p
  <2>2. UNCHANGED <<gaming, lock, observed, replacing, peer, shut, stream, starting, srv, req, captured, had, by>>
    BY <1>3 DEF ServeActivate
  <2>3. \/ UNCHANGED <<handoff, left, acked, told, pc>>
        \/ pc' = [pc EXCEPT ![p] = "activated"] /\ UNCHANGED <<handoff, left, acked, told>>
        \/ /\ handoff' = [handoff EXCEPT ![p] = NoTarget] /\ Extend(p) /\ acked' = [acked EXCEPT ![p] = TRUE]
           /\ told' = [told EXCEPT ![p] = NoOne] /\ pc' = [pc EXCEPT ![p] = "acquire"]
    BY <1>3 DEF ServeActivate, HearNothing, Goto, p
  <2>4. /\ handoff' \in [Launches -> Handoffs] /\ acked' \in [Launches -> BOOLEAN]
        /\ told' \in [Launches -> Launches \cup {NoOne}] /\ pc' \in [Launches -> Places]
    BY ZenonT(60), <2>3 DEF TypeOK, Handoffs, Places, Waiting
  <2>5. left' \in [Launches -> 0 .. Rounds]
    BY <2>1, <2>3, HearTyped DEF TypeOK
  <2> QED
    BY <2>1, <2>2, <2>4, <2>5 DEF TypeOK
<1>4. CASE ServeReplace(q)
  <2>1. queue' \in [Launches -> Seq(Requests)] /\ Head1(q) \in Requests
    BY <1>4, DequeueTyped DEF ServeReplace
  <2>2. req' \in [Launches -> Requests]
        /\ srv' \in [Launches -> {"accept", "snapshot", "fallback", "answer", "late", "stop"}]
    BY <1>4, <2>1 DEF ServeReplace, TypeOK
  <2> QED
    BY <1>4, <2>1, <2>2 DEF ServeReplace, TypeOK
<1>5. CASE Snapshot(q)
  BY <1>5 DEF Snapshot, TypeOK
<1>6. CASE Fallback(q)
  BY <1>6 DEF Fallback, TypeOK
<1>7. CASE Answer(q)
  <2>1. req[q].from \in Launches
    BY DEF TypeOK, Requests
  <2>2. /\ srv' \in [Launches -> {"accept", "snapshot", "fallback", "answer", "late", "stop"}]
        /\ had' \in [Launches -> Handoffs]
        /\ UNCHANGED <<gaming, lock, observed, replacing, peer, shut, stream, starting, queue, req, captured, by>>
    BY <1>7 DEF Answer, TypeOK, Handoffs
  <2>3. HearClosing(req[q].from, q) \/ HearNothing
    BY <1>7 DEF Answer
  <2>4. /\ handoff' \in [Launches -> Handoffs] /\ left' \in [Launches -> 0 .. Rounds]
        /\ acked' \in [Launches -> BOOLEAN] /\ told' \in [Launches -> Launches \cup {NoOne}]
        /\ pc' \in [Launches -> Places]
    BY <2>1, <2>3, HearTyped DEF HearNothing, TypeOK
  <2> QED
    BY <2>2, <2>4 DEF TypeOK
<1>8. CASE Stop(q)
  <2>1. req[q].from \in Launches
    BY DEF TypeOK, Requests
  <2> QED
    BY <1>8, <2>1 DEF Stop, TypeOK
<1> QED
  BY <1>1, <1>2, <1>3, <1>4, <1>5, <1>6, <1>7, <1>8 DEF Serve

\* The rest of a process keeps the types
LEMMA LiveTyped ==
    ASSUME TypeOK, NEW q \in Launches, Live(q)
    PROVE  TypeOK'
<1> USE DEF service, client, Handoffs
<1>1. ASSUME NEW t \in Targets, StartStream(q, t) PROVE TypeOK'
  BY <1>1 DEF StartStream, TypeOK
<1>2. CASE ClearHandoff(q)
  BY <1>2 DEF ClearHandoff, TypeOK
<1>3. CASE EndStream(q)
  BY <1>3 DEF EndStream, TypeOK
<1>4. CASE ResumeFails(q)
  BY <1>4 DEF ResumeFails, TypeOK
<1>5. CASE UserQuit(q)
  BY <1>5 DEF UserQuit, TypeOK
<1>6. CASE Die(q)
  <2>1. NoRequest(q) \in Requests
    BY DEF NoRequest, Requests
  <2>2. req' \in [Launches -> Requests] /\ queue' \in [Launches -> Seq(Requests)]
    BY <1>6, <2>1 DEF Die, TypeOK
  <2>3. pc' \in [Launches -> Places]
    BY <1>6 DEF Die, Goto, TypeOK, Places
  <2> QED
    BY <1>6, <2>2, <2>3 DEF Die, TypeOK
<1> QED
  BY <1>1, <1>2, <1>3, <1>4, <1>5, <1>6 DEF Live

-----------------------------------------------------------------------------
(* The requests under way *)

\* Where the request that is now at (q, i) was before the queue of k lost its first
Was(k, q, i) == IF q = k THEN i + 1 ELSE i

\* Every request under way was so before; its client may have given up
Moves(k) ==
    \A q \in Launches, i \in Nat : Held(q, i)' =>
        /\ Held(q, Was(k, q, i))
        /\ Slot(q, i)'.from = Slot(q, Was(k, q, i)).from
        /\ Slot(q, i)'.op = Slot(q, Was(k, q, i)).op
        /\ Slot(q, i)'.gen = Slot(q, Was(k, q, i)).gen
        /\ Slot(q, i)'.live => Slot(q, Was(k, q, i)).live

\* What of a process the requests it sent depend on
SenderKept(p) ==
    pc'[p] = pc[p] /\ replacing'[p] = replacing[p] /\ peer'[p] = peer[p] /\ observed'[p] = observed[p]

\* What "observed" says is not taken back
Faithful ==
    gaming' = gaming /\ \A p \in Launches : observed[p] # NoOne => observed'[p] = observed[p]

LEMMA WasNat ==
    ASSUME NEW k, NEW q \in Launches, NEW i \in Nat
    PROVE  Was(k, q, i) \in Nat /\ (i # 0 => Was(k, q, i) # 0)
BY DEF Was

\* Requests are requests
LEMMA SlotTyped ==
    ASSUME TypeOK, NEW q \in Launches, NEW i \in Nat, Held(q, i)
    PROVE  Slot(q, i) \in Requests /\ Slot(q, i).from \in Launches
<1>1. CASE i = 0
  BY <1>1 DEF Slot, TypeOK, Requests
<1>2. CASE i # 0
  <2>1. queue[q] \in Seq(Requests) /\ i \in 1 .. Len(queue[q])
    BY <1>2 DEF Held, TypeOK
  <2>2. queue[q][i] \in Requests
    BY <2>1
  <2> QED
    BY <1>2, <2>2 DEF Slot, Requests
<1> QED
  BY <1>1, <1>2

\* No two requests become one
LEMMA OnceMoves ==
    ASSUME InvOnce, NEW k, Moves(k)
    PROVE  InvOnce'
<1> SUFFICES ASSUME NEW q \in Launches, NEW r \in Launches, NEW i \in Nat, NEW j \in Nat,
                    Held(q, i)', Slot(q, i)'.live, Held(r, j)', Slot(r, j)'.live,
                    Slot(q, i)'.from = Slot(r, j)'.from
             PROVE  q = r /\ i = j
  BY DEF InvOnce
<1>1. /\ Held(q, Was(k, q, i)) /\ Slot(q, Was(k, q, i)).live
      /\ Held(r, Was(k, r, j)) /\ Slot(r, Was(k, r, j)).live
      /\ Slot(q, Was(k, q, i)).from = Slot(r, Was(k, r, j)).from
  BY DEF Moves
<1>2. Was(k, q, i) \in Nat /\ Was(k, r, j) \in Nat
  BY WasNat
<1>3. q = r /\ Was(k, q, i) = Was(k, r, j)
  BY <1>1, <1>2 DEF InvOnce
<1> QED
  BY <1>3 DEF Was

\* What a request says stays true while its sender waits
LEMMA SlotMoves ==
    ASSUME TypeOK, Faithful, NEW m \in Requests, SlotOK(m), NEW n,
           n.from = m.from, n.op = m.op, n.gen = m.gen, n.live => m.live,
           n.live => SenderKept(m.from)
    PROVE  SlotOK(n)'
<1>1. m.op = "replace" => Older(m)'
  <2>1. SUFFICES ASSUME m.op = "replace" PROVE Older(m)'
    OBVIOUS
  <2>2. Older(m)
    BY <2>1 DEF SlotOK
  <2>3. m.from \in Launches /\ observed[m.from] # NoOne
    BY <2>2, LaunchesPositive DEF Older, Requests
  <2> QED
    BY <2>2, <2>3 DEF Older, Faithful
<1>2. n.op = "replace" => Older(n)'
  BY <1>1 DEF Older
<1>3. n.live => pc'[n.from] = (IF n.op = "status" THEN "asked" ELSE "waiting")
  BY DEF SlotOK, SenderKept
<1>4. n.live /\ n.op = "activate" => Safe(n.from)'
  BY DEF SlotOK, SenderKept, Safe
<1> QED
  BY <1>2, <1>3, <1>4 DEF SlotOK

LEMMA SlotsMove ==
    ASSUME TypeOK, InvSlots, Faithful, NEW k, Moves(k),
           \A q \in Launches, i \in Nat : Held(q, i)' /\ Slot(q, i)'.live => SenderKept(Slot(q, i)'.from)
    PROVE  InvSlots'
<1>1. ASSUME NEW q \in Launches, NEW i \in Nat, Held(q, i)', NEW n, n = Slot(q, i)'
      PROVE  SlotOK(n)'
  <2> DEFINE m == Slot(q, Was(k, q, i))
  <2>1. /\ Held(q, Was(k, q, i)) /\ n.from = m.from /\ n.op = m.op /\ n.gen = m.gen
        /\ (n.live => m.live)
    BY <1>1 DEF Moves
  <2>2. Was(k, q, i) \in Nat
    BY WasNat
  <2>3. SlotOK(m) /\ m \in Requests
    BY <2>1, <2>2, SlotTyped DEF InvSlots
  <2>4. n.live => SenderKept(m.from)
    BY <1>1, <2>1
  <2> HIDE DEF m
  <2> QED
    BY <2>1, <2>3, <2>4, SlotMoves
<1>2. \A q \in Launches, i \in Nat : Held(q, i)' => SlotOK(Slot(q, i))'
  BY <1>1 DEF SlotOK, Older, Safe
<1> QED
  BY <1>2 DEF InvSlots

\* Nothing moves when the queues and the service threads do not
LEMMA StillMoves ==
    ASSUME UNCHANGED <<queue, srv, req>>
    PROVE  Moves(NoOne)
<1>1. \A q \in Launches, i \in Nat : Was(NoOne, q, i) = i
  BY LaunchesPositive DEF Was
<1> QED
  BY <1>1 DEF Moves, Held, Slot, Serving

\* The first of a queue is answered at once
LEMMA DequeueMoves ==
    ASSUME TypeOK, NEW q \in Launches, Accepts(q), Dequeue(q), UNCHANGED <<srv, req>>
    PROVE  Moves(q) /\ ~Held(q, 0)'
<1>1. /\ Len(queue[q]) \in Nat /\ Len(queue'[q]) = Len(queue[q]) - 1
      /\ \A i \in 1 .. Len(queue[q]) - 1 : queue'[q][i] = queue[q][i + 1]
      /\ \A r \in Launches \ {q} : queue'[r] = queue[r]
  BY DequeueTyped
<1>2. ~Held(q, 0) /\ ~Held(q, 0)'
  BY DEF Held, Serving, Accepts
<1>3. ASSUME NEW r \in Launches, NEW i \in Nat, Held(r, i)'
      PROVE  Held(r, Was(q, r, i)) /\ Slot(r, i)' = Slot(r, Was(q, r, i))
  <2>1. CASE r # q
    BY <1>1, <1>3, <2>1 DEF Was, Held, Slot, Serving
  <2>2. CASE r = q
    <3>1. i # 0 /\ i \in 1 .. Len(queue[q]) - 1
      BY <1>1, <1>2, <1>3, <2>2 DEF Held
    <3>2. i + 1 \in 1 .. Len(queue[q]) /\ i + 1 # 0
      BY <1>1, <3>1
    <3> QED
      BY <1>1, <2>2, <3>1, <3>2 DEF Was, Held, Slot
  <2> QED
    BY <2>1, <2>2
<1> QED
  BY <1>2, <1>3 DEF Moves

\* A sender of a live request waits
LEMMA SenderWaits ==
    ASSUME InvSlots, NEW q \in Launches, NEW i \in Nat, Held(q, i), Slot(q, i).live
    PROVE  pc[Slot(q, i).from] \in {"asked", "waiting"}
BY DEF InvSlots, SlotOK

\* A step of a process that does not wait for an answer
LEMMA OwnSlots ==
    ASSUME TypeOK, InvSlots, InvOnce, Faithful, NEW p \in Launches, pc[p] \notin {"asked", "waiting"},
           \A r \in Launches \ {p} : SenderKept(r), Moves(NoOne)
    PROVE  InvSlots' /\ InvOnce'
<1>1. ASSUME NEW q \in Launches, NEW i \in Nat, Held(q, i)', Slot(q, i)'.live
      PROVE  SenderKept(Slot(q, i)'.from)
  <2> DEFINE j == Was(NoOne, q, i)
  <2>1. j \in Nat /\ Held(q, j) /\ Slot(q, j).live /\ Slot(q, i)'.from = Slot(q, j).from
    BY <1>1, WasNat DEF Moves
  <2> HIDE DEF j
  <2>2. Slot(q, j).from \in Launches \ {p}
    BY <2>1, SenderWaits, SlotTyped
  <2> QED
    BY <2>1, <2>2
<1> QED
  BY <1>1, SlotsMove, OnceMoves

\* An answer to c, whose request was at (a, b)
LEMMA AnswerSlots ==
    ASSUME TypeOK, InvSlots, InvOnce, Faithful, NEW k, Moves(k), NEW c \in Launches,
           \A r \in Launches \ {c} : SenderKept(r),
           NEW a \in Launches, NEW b \in Nat, Held(a, b), Slot(a, b).live, Slot(a, b).from = c,
           \A i \in Nat : Held(a, i)' => Was(k, a, i) # b
    PROVE  InvSlots' /\ InvOnce'
<1>1. ASSUME NEW q \in Launches, NEW i \in Nat, Held(q, i)', Slot(q, i)'.live
      PROVE  SenderKept(Slot(q, i)'.from)
  <2> DEFINE j == Was(k, q, i)
  <2>1. j \in Nat /\ Held(q, j) /\ Slot(q, j).live /\ Slot(q, i)'.from = Slot(q, j).from
    BY <1>1, WasNat DEF Moves
  <2>2. ~(q = a /\ j = b)
    BY <1>1
  <2> HIDE DEF j
  <2>3. Slot(q, j).from # c
    BY <2>1, <2>2 DEF InvOnce
  <2>4. Slot(q, j).from \in Launches
    BY <2>1, SlotTyped
  <2> QED
    BY <2>1, <2>3, <2>4
<1> QED
  BY <1>1, SlotsMove, OnceMoves

\* A request that was given up is answered to nobody
LEMMA NobodySlots ==
    ASSUME TypeOK, InvSlots, InvOnce, Faithful, NEW k, Moves(k), \A r \in Launches : SenderKept(r)
    PROVE  InvSlots' /\ InvOnce'
<1>1. ASSUME NEW q \in Launches, NEW i \in Nat, Held(q, i)', Slot(q, i)'.live
      PROVE  SenderKept(Slot(q, i)'.from)
  <2>1. /\ Was(k, q, i) \in Nat /\ Held(q, Was(k, q, i))
        /\ Slot(q, i)'.from = Slot(q, Was(k, q, i)).from
    BY <1>1, WasNat DEF Moves
  <2> QED
    BY <2>1, SlotTyped
<1> QED
  BY <1>1, SlotsMove, OnceMoves

\* A new request of p
LEMMA ExchangeSlots ==
    ASSUME TypeOK, InvSlots, InvOnce, Faithful, NEW p \in Launches, pc[p] \notin {"asked", "waiting"},
           NEW op \in {"status", "activate", "replace"}, NEW g \in Launches \cup {NoOne},
           Exchange(p, op, g, IF op = "status" THEN "asked" ELSE "waiting"),
           UNCHANGED <<srv, req>>, \A r \in Launches \ {p} : SenderKept(r),
           op = "replace" => /\ g \in Launches /\ g < p /\ gaming[g] /\ gaming[p]
                             /\ observed'[p] = g,
           op = "activate" => Safe(p)'
    PROVE  InvSlots' /\ InvOnce'
<1> DEFINE place == IF op = "status" THEN "asked" ELSE "waiting"
           m == [from |-> p, op |-> op, gen |-> g, live |-> TRUE]
<1>0. place \in Places
  BY DEF Places, Waiting
<1>1. \/ pc' = [pc EXCEPT ![p] = "acquire"] /\ queue' = queue
      \/ /\ lock \in Launches /\ pc[lock] = "primary" /\ pc' = [pc EXCEPT ![p] = place]
         /\ queue' = [queue EXCEPT ![lock] = Append(queue[lock], m)]
  BY <1>0, ExchangeTyped
<1>2. CASE queue' = queue
  BY <1>2, StillMoves, OwnSlots
<1>3. CASE /\ lock \in Launches /\ pc[lock] = "primary" /\ pc' = [pc EXCEPT ![p] = place]
           /\ queue' = [queue EXCEPT ![lock] = Append(queue[lock], m)]
  <2>0. PICK h \in Launches : h = lock
    BY <1>3
  <2>1. /\ m.from = p /\ m.op = op /\ m.gen = g /\ m.live = TRUE /\ pc'[p] = place
        /\ place = IF m.op = "status" THEN "asked" ELSE "waiting"
    BY <1>3 DEF TypeOK
  <2>2. /\ queue[h] \in Seq(Requests) /\ m \in Requests
        /\ queue'[h] = Append(queue[h], m) /\ \A r \in Launches \ {h} : queue'[r] = queue[r]
    BY <1>3, <2>0 DEF TypeOK, Requests
  <2> HIDE DEF m, place
  <2>12. PICK l \in Nat : l = Len(queue[h]) + 1
    BY <2>2
  <2>3. /\ Len(queue[h]) \in Nat /\ Len(queue'[h]) = l /\ queue'[h][l] = m
        /\ \A i \in 1 .. Len(queue[h]) : queue'[h][i] = queue[h][i]
    BY <2>2, <2>12
  <2>4. l \in Nat /\ l # 0 /\ 1 .. l = 1 .. Len(queue[h]) \cup {l}
    BY <2>3, <2>12
  <2>5. ASSUME NEW q \in Launches, NEW i \in Nat, Held(q, i)', ~(q = h /\ i = l)
        PROVE  Held(q, i) /\ Slot(q, i)' = Slot(q, i)
    <3>1. CASE q # h \/ i = 0
      BY <2>2, <2>5, <3>1 DEF Held, Slot, Serving
    <3>2. CASE q = h /\ i # 0
      <4>1. i \in 1 .. Len(queue[h])
        BY <2>3, <2>4, <2>5, <3>2 DEF Held
      <4> QED
        BY <2>3, <3>2, <4>1 DEF Held, Slot
    <3> QED
      BY <3>1, <3>2
  <2>6. Slot(h, l)' = m
    BY <2>3, <2>4 DEF Slot
  <2>7. SlotOK(m)'
    <3>1. m.op = "replace" => Older(m)'
      BY <2>1 DEF Older, Faithful
    <3>2. m.op = "activate" => Safe(m.from)'
      BY <2>1
    <3> QED
      BY <2>1, <3>1, <3>2 DEF SlotOK
  <2>8. ASSUME NEW q \in Launches, NEW i \in Nat, Held(q, i), Slot(q, i).live
        PROVE  Slot(q, i).from \in Launches \ {p}
    BY <2>8, SenderWaits, SlotTyped
  <2>9. ASSUME NEW q \in Launches, NEW i \in Nat, Held(q, i)', NEW n, n = Slot(q, i)'
        PROVE  SlotOK(n)'
    <3>1. CASE q = h /\ i = l
      BY <2>6, <2>7, <2>9, <3>1
    <3>2. CASE ~(q = h /\ i = l)
      <4>1. Held(q, i) /\ n = Slot(q, i)
        BY <2>5, <2>9, <3>2
      <4>2. n \in Requests /\ SlotOK(n)
        BY <4>1, SlotTyped DEF InvSlots
      <4>3. n.live => SenderKept(n.from)
        BY <2>8, <4>1
      <4> QED
        BY <4>2, <4>3, SlotMoves
    <3> QED
      BY <3>1, <3>2
  <2>10. \A q \in Launches, i \in Nat : Held(q, i)' => SlotOK(Slot(q, i))'
    BY <2>9 DEF SlotOK, Older, Safe
  <2>11. InvOnce'
    <3> SUFFICES ASSUME NEW q \in Launches, NEW r \in Launches, NEW i \in Nat, NEW j \in Nat,
                        Held(q, i)', Slot(q, i)'.live, Held(r, j)', Slot(r, j)'.live,
                        Slot(q, i)'.from = Slot(r, j)'.from
                 PROVE  q = r /\ i = j
      BY DEF InvOnce
    <3>1. CASE ~(q = h /\ i = l) /\ ~(r = h /\ j = l)
      BY <2>5, <3>1 DEF InvOnce
    <3>2. CASE q = h /\ i = l /\ ~(r = h /\ j = l)
      BY <2>1, <2>5, <2>6, <2>8, <3>2
    <3>3. CASE r = h /\ j = l /\ ~(q = h /\ i = l)
      BY <2>1, <2>5, <2>6, <2>8, <3>3
    <3> QED
      BY <3>1, <3>2, <3>3
  <2> QED
    BY <2>10, <2>11 DEF InvSlots
<1> QED
  BY <1>1, <1>2, <1>3

-----------------------------------------------------------------------------
(* The steps *)

\* Who is dead stays dead, and who closes goes on closing
Lasting == \A q \in Launches : /\ pc[q] = "dead" => pc'[q] = "dead"
                               /\ shut[q] # "no" => shut'[q] # "no"

\* A step that replaces nobody
LEMMA HistoryKept ==
    ASSUME TypeOK, InvServe, ReplacesOlder, Faithful, Lasting, srv' = srv, by' = by,
           \A q \in Launches : /\ req'[q].op = req[q].op /\ req'[q].gen = req[q].gen
                               /\ req'[q].from = req[q].from
    PROVE  InvServe' /\ ReplacesOlder'
<1>1. ASSUME NEW q \in Launches, Older(req[q]) PROVE Older(req[q])'
  <2>1. req[q].from \in Launches /\ observed[req[q].from] # NoOne
    BY <1>1, LaunchesPositive DEF TypeOK, Requests, Older
  <2> QED
    BY <1>1, <2>1 DEF Older, Faithful
<1>2. InvServe'
  BY <1>1 DEF InvServe, Lasting
<1>3. ASSUME NEW q \in Launches, by[q] # NoOne PROVE by[q] \in Launches /\ observed[by[q]] # NoOne
  BY <1>3, LaunchesPositive DEF TypeOK, ReplacesOlder
<1>4. ReplacesOlder'
  BY <1>3 DEF ReplacesOlder, Faithful
<1> QED
  BY <1>2, <1>4

\* A step that tells nobody anything
LEMMA ToldKept ==
    ASSUME TypeOK, InvTold, captured' = captured,
           \A q \in Launches : Settled(q) => Settled(q)',
           \A p \in Launches :
              \/ pc'[p] \notin Waiting \cup {"bind"} \/ told'[p] = NoOne
              \/ /\ told'[p] = told[p] /\ handoff'[p] = handoff[p] /\ pc[p] \in Waiting \cup {"bind"}
    PROVE  InvTold'
<1>1. ASSUME NEW p \in Launches, NEW t, t = told'[p], t # NoOne, pc'[p] \in Waiting \cup {"bind"}
      PROVE  handoff'[p] = captured'[t] /\ Settled(t)'
  <2>1. t = told[p] /\ handoff'[p] = handoff[p] /\ pc[p] \in Waiting \cup {"bind"}
    BY <1>1
  <2>2. t \in Launches /\ handoff[p] = captured[t] /\ Settled(t)
    BY <1>1, <2>1 DEF InvTold, TypeOK
  <2> QED
    BY <2>1, <2>2
<1> QED
  BY <1>1 DEF InvTold, Settled

\* A process that asks nobody goes its way
LEMMA OwnStep ==
    ASSUME Inv, NEW p \in Launches, pc[p] \notin {"asked", "waiting", "dead"},
           UNCHANGED <<queue, srv, req, gaming, observed, captured, by>>, Lasting,
           \A r \in Launches \ {p} : /\ pc'[r] = pc[r] /\ replacing'[r] = replacing[r]
                                     /\ peer'[r] = peer[r] /\ handoff'[r] = handoff[r]
                                     /\ told'[r] = told[r],
           pc'[p] \notin {"request", "activated"},
           \/ pc'[p] \notin Waiting \cup {"bind"} \/ told'[p] = NoOne
           \/ told'[p] = told[p] /\ handoff'[p] = handoff[p] /\ pc[p] \in Waiting \cup {"bind"}
    PROVE  InvSlots' /\ InvOnce' /\ InvServe' /\ InvSafe' /\ InvTold' /\ ReplacesOlder'
<1>1. Faithful /\ Moves(NoOne) /\ \A r \in Launches \ {p} : SenderKept(r)
  BY StillMoves DEF Faithful, SenderKept
<1>2. InvSlots' /\ InvOnce'
  BY <1>1, OwnSlots DEF Inv
<1>3. InvServe' /\ ReplacesOlder'
  BY <1>1, HistoryKept DEF Inv
<1>4. InvSafe'
  BY <1>1 DEF Inv, InvSafe, Safe, SenderKept
<1>5. \A q \in Launches : Settled(q) => Settled(q)'
  BY DEF Settled, Lasting
<1>6. \A r \in Launches :
         \/ pc'[r] \notin Waiting \cup {"bind"} \/ told'[r] = NoOne
         \/ told'[r] = told[r] /\ handoff'[r] = handoff[r] /\ pc[r] \in Waiting \cup {"bind"}
  OBVIOUS
<1>7. InvTold'
  BY <1>5, <1>6, ToldKept DEF Inv
<1> QED
  BY <1>2, <1>3, <1>4, <1>7

\* The steps of enter()
LEMMA EnterStep ==
    ASSUME Inv, NEW p \in Launches, Enter(p)
    PROVE  Inv'
<1>0. TypeOK' /\ TypeOK
  BY EnterTyped DEF Inv
<1> USE DEF service, client
<1>1. CASE Interrupted(p)
  <2>1. Fail(p) /\ pc[p] = "acquire" /\ shut' = [shut EXCEPT ![p] = "quit"]
        /\ UNCHANGED <<gaming, queue, srv, req, captured, by>>
    BY <1>1 DEF Interrupted
  <2>2. /\ UNCHANGED observed /\ pc' = [pc EXCEPT ![p] = "failed"]
        /\ replacing' = [replacing EXCEPT ![p] = FALSE] /\ peer' = [peer EXCEPT ![p] = NoOne]
        /\ handoff' = [handoff EXCEPT ![p] = NoTarget] /\ told' = [told EXCEPT ![p] = NoOne]
    BY <2>1 DEF Fail, Leave, Goto
  <2>3. Lasting
    BY <1>0, <2>1, <2>2 DEF Lasting, TypeOK
  <2>4. InvSlots' /\ InvOnce' /\ InvServe' /\ InvSafe' /\ InvTold' /\ ReplacesOlder'
    BY ZenonT(60), <1>0, <2>1, <2>2, <2>3, OwnStep DEF TypeOK, Waiting
  <2> QED
    BY <1>0, <2>4 DEF Inv
<1>2. CASE TakeLock(p)
  <2>1. Leave(p, "bind") /\ pc[p] = "acquire"
        /\ UNCHANGED <<gaming, queue, srv, req, captured, by, shut, handoff, told>>
    BY <1>2 DEF TakeLock
  <2>2. /\ UNCHANGED observed /\ pc' = [pc EXCEPT ![p] = "bind"]
        /\ replacing' = [replacing EXCEPT ![p] = FALSE] /\ peer' = [peer EXCEPT ![p] = NoOne]
    BY <2>1 DEF Leave, Goto
  <2>3. Lasting
    BY <1>0, <2>1, <2>2 DEF Lasting, TypeOK
  <2>4. InvSlots' /\ InvOnce' /\ InvServe' /\ InvSafe' /\ InvTold' /\ ReplacesOlder'
    BY <1>0, <2>1, <2>2, <2>3, OwnStep DEF TypeOK, Waiting
  <2> QED
    BY <1>0, <2>4 DEF Inv
<1>3. CASE TimeOut(p)
  <2>1. Fail(p) /\ pc[p] = "acquire" /\ UNCHANGED <<gaming, queue, srv, req, captured, by, shut>>
    BY <1>3 DEF TimeOut
  <2>2. /\ UNCHANGED observed /\ pc' = [pc EXCEPT ![p] = "failed"]
        /\ replacing' = [replacing EXCEPT ![p] = FALSE] /\ peer' = [peer EXCEPT ![p] = NoOne]
        /\ handoff' = [handoff EXCEPT ![p] = NoTarget] /\ told' = [told EXCEPT ![p] = NoOne]
    BY <2>1 DEF Fail, Leave, Goto
  <2>3. Lasting
    BY <1>0, <2>1, <2>2 DEF Lasting, TypeOK
  <2>4. InvSlots' /\ InvOnce' /\ InvServe' /\ InvSafe' /\ InvTold' /\ ReplacesOlder'
    BY <1>0, <2>1, <2>2, <2>3, OwnStep DEF TypeOK, Waiting
  <2> QED
    BY <1>0, <2>4 DEF Inv
<1>4. CASE AskStatus(p)
  <2>1. /\ pc[p] = "acquire" /\ Exchange(p, "status", NoOne, "asked")
        /\ UNCHANGED <<gaming, observed, replacing, peer, handoff, shut, srv, req, captured, by, told>>
    BY <1>4 DEF AskStatus
  <2>2. pc' \in {[pc EXCEPT ![p] = "acquire"], [pc EXCEPT ![p] = "asked"]}
    BY <2>1 DEF Exchange, Goto
  <2>3. /\ \A r \in Launches \ {p} : pc'[r] = pc[r] /\ SenderKept(r)
        /\ pc'[p] \in {"acquire", "asked"} /\ Faithful /\ Lasting
    BY <1>0, <2>1, <2>2 DEF SenderKept, Faithful, Lasting, TypeOK
  <2>4. InvSlots' /\ InvOnce'
    <3>1. Exchange(p, "status", NoOne, IF "status" = "status" THEN "asked" ELSE "waiting")
      BY <2>1
    <3> QED
      BY <2>1, <2>3, <3>1, ExchangeSlots DEF Inv
  <2>5. InvServe' /\ ReplacesOlder'
    BY <2>1, <2>3, HistoryKept DEF Inv
  <2>6. InvSafe'
    BY <2>1, <2>3 DEF Inv, InvSafe, Safe, SenderKept
  <2>7. \A q \in Launches : Settled(q) => Settled(q)'
    BY <2>1, <2>3 DEF Settled, Lasting
  <2>8. InvTold'
    BY <2>1, <2>3, <2>7, ToldKept DEF Inv, Waiting
  <2> QED
    BY <1>0, <2>4, <2>5, <2>6, <2>8 DEF Inv
<1>5. CASE SendRequest(p)
  <2> DEFINE replace == MayReplace(p, peer[p])
             op == IF replace THEN "replace" ELSE "activate"
  <2>1. /\ pc[p] = "request" /\ Exchange(p, op, peer[p], "waiting")
        /\ replacing' = [replacing EXCEPT ![p] = @ \/ replace]
        /\ UNCHANGED <<gaming, observed, peer, handoff, shut, srv, req, captured, by, told>>
    BY <1>5 DEF SendRequest
  <2>2. pc' \in {[pc EXCEPT ![p] = "acquire"], [pc EXCEPT ![p] = "waiting"]}
    BY <2>1 DEF Exchange, Goto
  <2>3. /\ \A r \in Launches \ {p} : pc'[r] = pc[r] /\ SenderKept(r)
        /\ pc'[p] \in {"acquire", "waiting"} /\ Faithful /\ Lasting
    BY <1>0, <2>1, <2>2 DEF SenderKept, Faithful, Lasting, TypeOK
  <2>4. InvSlots' /\ InvOnce'
    <3>1. peer[p] \in Launches \cup {NoOne} /\ op \in {"status", "activate", "replace"} /\ op # "status"
      BY <1>0 DEF TypeOK
    <3>2. op = "replace" => /\ peer[p] < p /\ gaming[peer[p]] /\ gaming[p] /\ observed'[p] = peer[p]
                            /\ peer[p] \in Launches
      <4>1. ASSUME replace PROVE peer[p] # NoOne
        BY <1>0, <2>1, <4>1 DEF MayReplace, TypeOK, Inv, InvSafe
      <4> QED
        BY <2>1, <3>1, <4>1 DEF MayReplace
    <3>3. op = "activate" => Safe(p)'
      <4>1. Safe(p)
        BY <2>1 DEF Inv, InvSafe
      <4>2. ASSUME ~replace PROVE replacing'[p] = replacing[p]
        <5>1. replacing'[p] = (replacing[p] \/ replace) /\ replacing[p] \in BOOLEAN
          BY <1>0, <2>1 DEF TypeOK
        <5> HIDE DEF replace
        <5> QED
          BY <4>2, <5>1
      <4> QED
        BY <2>1, <4>1, <4>2 DEF Safe
    <3> HIDE DEF op, replace
    <3>4. Exchange(p, op, peer[p], IF op = "status" THEN "asked" ELSE "waiting")
      BY <2>1, <3>1
    <3>5. PICK g \in Launches \cup {NoOne} : g = peer[p]
      BY <3>1
    <3>6. PICK o \in {"status", "activate", "replace"} : o = op
      BY <3>1
    <3> QED
      BY <2>1, <2>3, <3>1, <3>2, <3>3, <3>4, <3>5, <3>6, ExchangeSlots DEF Inv
  <2> HIDE DEF replace, op
  <2>5. InvServe' /\ ReplacesOlder'
    BY <2>1, <2>3, HistoryKept DEF Inv
  <2>6. InvSafe'
    BY <2>1, <2>3 DEF Inv, InvSafe, Safe, SenderKept
  <2>7. \A q \in Launches : Settled(q) => Settled(q)'
    BY <2>1, <2>3 DEF Settled, Lasting
  <2>8. InvTold'
    <3>1. told'[p] = told[p] /\ handoff'[p] = handoff[p]
      BY <2>1
    <3> QED
      BY <2>1, <2>3, <2>7, <3>1, ToldKept DEF Inv, Waiting
  <2> QED
    BY <1>0, <2>4, <2>5, <2>6, <2>8 DEF Inv
<1>6. CASE GiveUp(p)
  <2>1. /\ pc[p] \in {"asked", "waiting"} /\ pc' = [pc EXCEPT ![p] = "acquire"]
        /\ UNCHANGED <<gaming, observed, replacing, peer, handoff, shut, srv, captured, by, told>>
    BY <1>6 DEF GiveUp, Goto
  <2>2. /\ \A r \in Launches \ {p} : pc'[r] = pc[r] /\ SenderKept(r)
        /\ pc'[p] = "acquire" /\ Faithful /\ Lasting
    BY <1>0, <2>1 DEF SenderKept, Faithful, Lasting, TypeOK
  <2>3. \A q \in Launches :
           /\ req'[q].from = req[q].from /\ req'[q].op = req[q].op /\ req'[q].gen = req[q].gen
           /\ req'[q].live = (req[q].live /\ req[q].from # p)
    <3> TAKE q \in Launches
    <3>1. req[q] \in Requests
      BY <1>0 DEF TypeOK
    <3>2. req'[q] = [req[q] EXCEPT !.live = req[q].live /\ req[q].from # p]
      BY <1>0, <1>6, GiveUpTyped
    <3> QED
      BY <3>1, <3>2 DEF Requests
  <2>4. ASSUME NEW q \in Launches, NEW i \in 1 .. Len(queue[q])
        PROVE  /\ queue'[q][i].from = queue[q][i].from /\ queue'[q][i].op = queue[q][i].op
               /\ queue'[q][i].gen = queue[q][i].gen
               /\ queue'[q][i].live = (queue[q][i].live /\ queue[q][i].from # p)
    <3>1. queue[q] \in Seq(Requests)
      BY <1>0 DEF TypeOK
    <3>2. queue[q][i] \in Requests
      BY <3>1
    <3>3. queue'[q][i] = [queue[q][i] EXCEPT !.live = queue[q][i].live /\ queue[q][i].from # p]
      BY <1>0, <1>6, GiveUpTyped
    <3> QED
      BY <3>2, <3>3 DEF Requests
  <2>5. \A q \in Launches : Len(queue'[q]) = Len(queue[q])
    BY <1>0, <1>6, GiveUpTyped
  <2>6. ASSUME NEW q \in Launches, NEW i \in Nat, Held(q, i)'
        PROVE  /\ Held(q, i) /\ Slot(q, i)'.from = Slot(q, i).from /\ Slot(q, i)'.op = Slot(q, i).op
               /\ Slot(q, i)'.gen = Slot(q, i).gen
               /\ Slot(q, i)'.live => Slot(q, i).live /\ Slot(q, i).from # p
    <3>1. CASE i = 0
      BY <2>1, <2>3, <2>6, <3>1 DEF Held, Slot, Serving
    <3>2. CASE i # 0
      <4>1. i \in 1 .. Len(queue[q])
        BY <2>5, <2>6, <3>2 DEF Held
      <4> QED
        BY <2>4, <3>2, <4>1 DEF Held, Slot
    <3> QED
      BY <3>1, <3>2
  <2>7. Moves(NoOne)
    <3>1. \A q \in Launches, i \in Nat : Was(NoOne, q, i) = i
      BY LaunchesPositive DEF Was
    <3> QED
      BY <2>6, <3>1 DEF Moves
  <2>8. ASSUME NEW q \in Launches, NEW i \in Nat, Held(q, i)', Slot(q, i)'.live
        PROVE  SenderKept(Slot(q, i)'.from)
    <3>1. Held(q, i) /\ Slot(q, i)'.from = Slot(q, i).from /\ Slot(q, i).from # p
      BY <2>6, <2>8
    <3>2. Slot(q, i).from \in Launches
      BY <1>0, <3>1, SlotTyped
    <3> QED
      BY <2>2, <3>1, <3>2
  <2>9. InvSlots' /\ InvOnce'
    BY <2>2, <2>7, <2>8, SlotsMove, OnceMoves DEF Inv
  <2>10. InvServe' /\ ReplacesOlder'
    BY <2>1, <2>2, <2>3, HistoryKept DEF Inv
  <2>11. InvSafe'
    BY <2>1, <2>2 DEF Inv, InvSafe, Safe, SenderKept
  <2>12. \A q \in Launches : Settled(q) => Settled(q)'
    BY <2>1, <2>2 DEF Settled, Lasting
  <2>13. InvTold'
    BY <2>1, <2>2, <2>12, ToldKept DEF Inv, Waiting
  <2> QED
    BY <1>0, <2>9, <2>10, <2>11, <2>13 DEF Inv
<1>7. CASE Bind(p)
  <2>1. /\ pc[p] = "bind" /\ pc' = [pc EXCEPT ![p] = "primary"] /\ told' = [told EXCEPT ![p] = NoOne]
        /\ UNCHANGED <<gaming, queue, srv, req, captured, by, shut, handoff, observed, replacing, peer>>
    BY <1>7 DEF Bind, Goto
  <2>2. Lasting
    BY <1>0, <2>1 DEF Lasting, TypeOK
  <2>3. InvSlots' /\ InvOnce' /\ InvServe' /\ InvSafe' /\ InvTold' /\ ReplacesOlder'
    BY <1>0, <2>1, <2>2, OwnStep DEF TypeOK, Waiting
  <2> QED
    BY <1>0, <2>3 DEF Inv
<1>8. CASE BindFails(p)
  <2>1. Fail(p) /\ pc[p] = "bind" /\ UNCHANGED <<gaming, queue, srv, req, captured, by, shut>>
    BY <1>8 DEF BindFails
  <2>2. /\ UNCHANGED observed /\ pc' = [pc EXCEPT ![p] = "failed"]
        /\ replacing' = [replacing EXCEPT ![p] = FALSE] /\ peer' = [peer EXCEPT ![p] = NoOne]
        /\ handoff' = [handoff EXCEPT ![p] = NoTarget] /\ told' = [told EXCEPT ![p] = NoOne]
    BY <2>1 DEF Fail, Leave, Goto
  <2>3. Lasting
    BY <1>0, <2>1, <2>2 DEF Lasting, TypeOK
  <2>4. InvSlots' /\ InvOnce' /\ InvServe' /\ InvSafe' /\ InvTold' /\ ReplacesOlder'
    BY <1>0, <2>1, <2>2, <2>3, OwnStep DEF TypeOK, Waiting
  <2> QED
    BY <1>0, <2>4 DEF Inv
<1> QED
  BY <1>1, <1>2, <1>3, <1>4, <1>5, <1>6, <1>7, <1>8 DEF Enter

\* An answer leaves every process but the client as it is
LEMMA AnswerStep ==
    ASSUME Inv, NEW q \in Launches, NEW c \in Launches, pc[c] \in {"asked", "waiting"},
           UNCHANGED <<req, gaming, captured, by, shut>>, Faithful, Lasting,
           InvServe', \A r \in Launches : Settled(r) => Settled(r)',
           \A r \in Launches \ {c} :
               pc'[r] = pc[r] /\ handoff'[r] = handoff[r] /\ told'[r] = told[r] /\ SenderKept(r),
           \/ pc'[c] \in {"request", "activated"} /\ Safe(c)'
              /\ (pc'[c] = "request" => peer'[c] # NoOne) /\ handoff'[c] = handoff[c] /\ told'[c] = told[c]
           \/ pc'[c] = "acquire" /\ handoff'[c] = handoff[c] /\ told'[c] = told[c]
           \/ pc'[c] = "acquire" /\ told'[c] = NoOne
           \/ /\ pc'[c] = "acquire" /\ handoff'[c] = captured[q] /\ told'[c] = q
              /\ Settled(q)'
    PROVE  InvSafe' /\ InvTold' /\ ReplacesOlder'
<1>1. InvSafe'
  BY DEF Inv, InvSafe, Safe, SenderKept
<1>2. ASSUME NEW p \in Launches, NEW t, t = told'[p], t # NoOne, pc'[p] \in Waiting \cup {"bind"}
      PROVE  handoff'[p] = captured'[t] /\ Settled(t)'
  <2>1. CASE told'[p] = told[p] /\ handoff'[p] = handoff[p]
    <3>1. pc[p] \in Waiting \cup {"bind"}
      BY <1>2 DEF Waiting
    <3>2. t \in Launches /\ handoff[p] = captured[t] /\ Settled(t)
      BY <1>2, <2>1, <3>1 DEF Inv, InvTold, TypeOK
    <3> QED
      BY <2>1, <3>2
  <2>2. CASE p = c /\ handoff'[p] = captured[q] /\ told'[p] = q /\ Settled(q)'
    BY <1>2, <2>2
  <2> QED
    BY <1>2, <2>1, <2>2
<1>3. InvTold'
  BY <1>2 DEF InvTold, Settled
<1>4. ASSUME NEW r \in Launches, by[r] # NoOne PROVE by[r] \in Launches /\ observed[by[r]] # NoOne
  BY <1>4, LaunchesPositive DEF Inv, TypeOK, ReplacesOlder
<1>5. ReplacesOlder'
  BY <1>4 DEF Inv, ReplacesOlder, Faithful
<1> QED
  BY <1>1, <1>3, <1>5

\* A step that answers nobody
LEMMA QuietStep ==
    ASSUME Inv, UNCHANGED <<pc, gaming, observed, replacing, peer, handoff, told, by, req, captured, shut, srv>>,
           NEW k, Moves(k)
    PROVE  InvSlots' /\ InvOnce' /\ InvServe' /\ InvSafe' /\ InvTold' /\ ReplacesOlder'
<1>1. Faithful /\ Lasting /\ \A r \in Launches : SenderKept(r)
  BY DEF Faithful, Lasting, SenderKept
<1>2. InvSlots' /\ InvOnce'
  BY <1>1, NobodySlots DEF Inv
<1>3. InvServe' /\ ReplacesOlder'
  BY <1>1, HistoryKept DEF Inv
<1>4. InvSafe'
  BY DEF Inv, InvSafe, Safe
<1>5. \A q \in Launches : Settled(q) => Settled(q)'
  BY DEF Settled
<1>6. InvTold'
  BY <1>5 DEF Inv, InvTold, Settled
<1> QED
  BY <1>2, <1>3, <1>4, <1>6

\* The first in the queue of a process that accepts
LEMMA HeadFacts ==
    ASSUME Inv, NEW q \in Launches, Accepts(q)
    PROVE  /\ Held(q, 1) /\ Slot(q, 1) = Head1(q) /\ Head1(q) \in Requests
           /\ Head1(q).from \in Launches /\ SlotOK(Head1(q))
           /\ Head1(q).live => pc[Head1(q).from] \in {"asked", "waiting"}
<1>1. queue[q] \in Seq(Requests) /\ queue[q] # << >>
  BY DEF Inv, TypeOK, Accepts
<1>2. Len(queue[q]) \in Nat /\ Len(queue[q]) > 0 /\ Head1(q) = queue[q][1] /\ Head1(q) \in Requests
  BY <1>1 DEF Head1
<1>3. Held(q, 1) /\ Slot(q, 1) = Head1(q)
  BY <1>2 DEF Held, Slot
<1>4. SlotOK(Head1(q))
  BY <1>3 DEF Inv, InvSlots
<1> QED
  BY <1>2, <1>3, <1>4 DEF SlotOK, Requests

\* A live request that is answered from the queue
LEMMA DequeueSlots ==
    ASSUME Inv, NEW q \in Launches, Accepts(q), Dequeue(q), UNCHANGED <<srv, req>>, Faithful,
           Head1(q).live, \A r \in Launches \ {Head1(q).from} : SenderKept(r)
    PROVE  InvSlots' /\ InvOnce'
<1>1. Moves(q) /\ ~Held(q, 0)'
  BY DequeueMoves DEF Inv
<1>2. \A i \in Nat : Held(q, i)' => Was(q, q, i) # 1
  BY <1>1 DEF Was
<1>3. /\ Held(q, 1) /\ Slot(q, 1).live /\ Slot(q, 1).from = Head1(q).from
      /\ Head1(q).from \in Launches
  BY HeadFacts
<1>4. PICK c \in Launches : c = Head1(q).from
  BY <1>3
<1> QED
  BY <1>1, <1>2, <1>3, <1>4, AnswerSlots DEF Inv

\* The steps of the service thread
LEMMA ServeStep ==
    ASSUME Inv, NEW q \in Launches, Serve(q)
    PROVE  Inv'
<1>0. TypeOK' /\ TypeOK
  BY ServeTyped DEF Inv
<1> USE DEF service, client
<1>1. CASE ServeStatus(q)
  <2> PICK c \in Launches : c = Head1(q).from
    BY <1>1, HeadFacts DEF ServeStatus
  <2>1. /\ Accepts(q) /\ Dequeue(q) /\ Head1(q).op = "status"
        /\ UNCHANGED <<gaming, replacing, shut, srv, req, captured, by>>
    BY <1>1 DEF ServeStatus
  <2>2. CASE ~Head1(q).live
    <3>1. UNCHANGED <<pc, observed, peer, handoff, told>>
      BY <1>1, <2>2 DEF ServeStatus, HearNothing
    <3>2. Moves(q)
      BY <1>0, <2>1, DequeueMoves
    <3> QED
      BY <1>0, <2>1, <3>1, <3>2, QuietStep DEF Inv
  <2>3. CASE Head1(q).live
    <3>1. pc[c] \in {"asked", "waiting"}
      BY <2>1, <2>3, HeadFacts
    <3>2. /\ observed' = [observed EXCEPT ![c] = IF @ = NoOne THEN q ELSE @]
          /\ peer' = [peer EXCEPT ![c] = q]
          /\ \/ /\ shut[q] # "no" /\ pc' = [pc EXCEPT ![c] = "acquire"]
                /\ handoff' = [handoff EXCEPT ![c] = captured[q]] /\ told' = [told EXCEPT ![c] = q]
             \/ /\ pc' = [pc EXCEPT ![c] = IF MustWait(c, q) THEN "acquire" ELSE "request"]
                /\ UNCHANGED <<handoff, told>>
      BY <1>1, <2>3 DEF ServeStatus, HearClosing, Goto
    <3>3. \A r \in Launches \ {c} :
             pc'[r] = pc[r] /\ handoff'[r] = handoff[r] /\ told'[r] = told[r] /\ SenderKept(r)
      BY <1>0, <2>1, <3>2 DEF SenderKept, TypeOK
    <3>4. /\ observed'[c] = IF observed[c] = NoOne THEN q ELSE observed[c]
          /\ peer'[c] = q /\ pc'[c] \in {"acquire", "request"}
      BY <1>0, <3>2 DEF TypeOK
    <3>5. Faithful
      BY <2>1, <3>3, <3>4 DEF Faithful, SenderKept
    <3>6. Lasting
      BY <2>1, <3>1, <3>3 DEF Lasting
    <3>7. InvSlots' /\ InvOnce'
      BY <2>1, <2>3, <3>3, <3>5, DequeueSlots
    <3>8. InvServe'
      BY <2>1, <3>5, <3>6, HistoryKept DEF Inv
    <3>9. \A r \in Launches : Settled(r) => Settled(r)'
      BY <2>1, <3>6 DEF Settled, Lasting
    <3>10. \/ pc'[c] = "request" /\ Safe(c)' /\ peer'[c] # NoOne
              /\ handoff'[c] = handoff[c] /\ told'[c] = told[c]
           \/ pc'[c] = "acquire" /\ handoff'[c] = handoff[c] /\ told'[c] = told[c]
           \/ pc'[c] = "acquire" /\ handoff'[c] = captured[q] /\ told'[c] = q /\ Settled(q)'
      <4>1. CASE /\ shut[q] # "no" /\ pc' = [pc EXCEPT ![c] = "acquire"]
                 /\ handoff' = [handoff EXCEPT ![c] = captured[q]] /\ told' = [told EXCEPT ![c] = q]
        <5>1. Settled(q)
          BY <2>1, <4>1 DEF Settled, Accepts
        <5> QED
          BY <1>0, <3>9, <4>1, <5>1 DEF TypeOK
      <4>2. CASE /\ pc' = [pc EXCEPT ![c] = IF MustWait(c, q) THEN "acquire" ELSE "request"]
                 /\ UNCHANGED <<handoff, told>>
        <5>1. ~MustWait(c, q) => Safe(c)'
          BY <2>1, <3>4 DEF MustWait, Safe
        <5>2. q # NoOne
          BY LaunchesPositive
        <5> QED
          BY <1>0, <3>4, <4>2, <5>1, <5>2 DEF TypeOK
      <4> QED
        BY <3>2, <4>1, <4>2
    <3>11. InvSafe' /\ InvTold' /\ ReplacesOlder'
      BY <2>1, <3>1, <3>3, <3>5, <3>6, <3>8, <3>9, <3>10, AnswerStep
    <3> QED
      BY <1>0, <3>7, <3>8, <3>11 DEF Inv
  <2> QED
    BY <2>2, <2>3
<1>2. CASE ServeStale(q)
  <2> PICK c \in Launches : c = Head1(q).from
    BY <1>2, HeadFacts DEF ServeStale
  <2>1. /\ Accepts(q) /\ Dequeue(q)
        /\ UNCHANGED <<gaming, observed, replacing, peer, handoff, told, shut, srv, req, captured, by>>
    BY <1>2 DEF ServeStale
  <2>2. CASE ~Head1(q).live
    <3>1. pc' = pc
      BY <1>2, <2>2 DEF ServeStale
    <3>2. Moves(q)
      BY <1>0, <2>1, DequeueMoves
    <3> QED
      BY <1>0, <2>1, <3>1, <3>2, QuietStep DEF Inv
  <2>3. CASE Head1(q).live
    <3>1. pc[c] \in {"asked", "waiting"}
      BY <2>1, <2>3, HeadFacts
    <3>2. pc' = [pc EXCEPT ![c] = "acquire"]
      BY <1>2, <2>3 DEF ServeStale
    <3>3. pc'[c] = "acquire" /\ \A r \in Launches \ {c} :
             pc'[r] = pc[r] /\ handoff'[r] = handoff[r] /\ told'[r] = told[r] /\ SenderKept(r)
      BY <1>0, <2>1, <3>2 DEF SenderKept, TypeOK
    <3>4. Faithful /\ Lasting
      BY <2>1, <3>1, <3>3 DEF Faithful, Lasting
    <3>5. InvSlots' /\ InvOnce'
      BY <2>1, <2>3, <3>3, <3>4, DequeueSlots
    <3>6. InvServe'
      BY <2>1, <3>4, HistoryKept DEF Inv
    <3>7. \A r \in Launches : Settled(r) => Settled(r)'
      BY <2>1, <3>4 DEF Settled, Lasting
    <3>8. handoff'[c] = handoff[c] /\ told'[c] = told[c]
      BY <2>1
    <3>9. InvSafe' /\ InvTold' /\ ReplacesOlder'
      BY <2>1, <3>1, <3>3, <3>4, <3>6, <3>7, <3>8, AnswerStep
    <3> QED
      BY <1>0, <3>5, <3>6, <3>9 DEF Inv
  <2> QED
    BY <2>2, <2>3
<1>3. CASE ServeActivate(q)
  <2> PICK c \in Launches : c = Head1(q).from
    BY <1>3, HeadFacts DEF ServeActivate
  <2>1. /\ Accepts(q) /\ Dequeue(q) /\ Head1(q).op # "status" /\ Head1(q).gen = q
        /\ ~Replaces(q, Head1(q))
        /\ UNCHANGED <<gaming, observed, replacing, peer, shut, srv, req, captured, by>>
    BY <1>3 DEF ServeActivate, MeantFor
  <2>2. CASE ~Head1(q).live
    <3>1. UNCHANGED <<pc, handoff, told>>
      BY <1>3, <2>2 DEF ServeActivate, HearNothing
    <3>2. Moves(q)
      BY <1>0, <2>1, DequeueMoves
    <3> QED
      BY <1>0, <2>1, <3>1, <3>2, QuietStep DEF Inv
  <2>3. CASE Head1(q).live
    <3>1. /\ pc[c] \in {"asked", "waiting"} /\ SlotOK(Head1(q)) /\ Head1(q) \in Requests
      BY <2>1, <2>3, HeadFacts
    <3>2. \/ pc' = [pc EXCEPT ![c] = "activated"] /\ UNCHANGED <<handoff, told>>
          \/ /\ pc' = [pc EXCEPT ![c] = "acquire"]
             /\ handoff' = [handoff EXCEPT ![c] = NoTarget] /\ told' = [told EXCEPT ![c] = NoOne]
      BY <1>3, <2>3 DEF ServeActivate, Goto
    <3>3. \A r \in Launches \ {c} :
             pc'[r] = pc[r] /\ handoff'[r] = handoff[r] /\ told'[r] = told[r] /\ SenderKept(r)
      BY <1>0, <2>1, <3>2 DEF SenderKept, TypeOK
    <3>4. Faithful /\ Lasting
      BY <2>1, <3>1, <3>3 DEF Faithful, Lasting
    <3>5. InvSlots' /\ InvOnce'
      BY <2>1, <2>3, <3>3, <3>4, DequeueSlots
    <3>6. InvServe'
      BY <2>1, <3>4, HistoryKept DEF Inv
    <3>7. \A r \in Launches : Settled(r) => Settled(r)'
      BY <2>1, <3>4 DEF Settled, Lasting
    <3>8. Safe(c) /\ pc[c] = "waiting"
      <4>1. Head1(q).op = "replace" => gaming[q]
        BY <2>1, <3>1 DEF SlotOK, Older
      <4>2. Head1(q).op = "activate"
        BY <2>1, <3>1, <4>1 DEF Replaces, MeantFor, Requests
      <4> QED
        BY <2>3, <3>1, <4>2 DEF SlotOK
    <3>10. Safe(c)'
      BY <2>1, <3>8 DEF Safe
    <3>11. \/ pc'[c] = "activated" /\ handoff'[c] = handoff[c] /\ told'[c] = told[c]
           \/ pc'[c] = "acquire" /\ told'[c] = NoOne
      BY <1>0, <3>2 DEF TypeOK
    <3>12. InvSafe' /\ InvTold' /\ ReplacesOlder'
      BY <2>1, <3>1, <3>3, <3>4, <3>6, <3>7, <3>10, <3>11, AnswerStep
    <3> QED
      BY <1>0, <3>5, <3>6, <3>12 DEF Inv
  <2> QED
    BY <2>2, <2>3
<1>4. CASE ServeReplace(q)
  <2>1. /\ Accepts(q) /\ Dequeue(q) /\ Head1(q).op = "replace" /\ Head1(q).gen = q
        /\ req' = [req EXCEPT ![q] = Head1(q)]
        /\ srv' = [srv EXCEPT ![q] = IF shut[q] = "no" THEN "snapshot" ELSE "late"]
        /\ UNCHANGED <<pc, gaming, observed, replacing, peer, handoff, shut, captured, by, told>>
    BY <1>4 DEF ServeReplace, Replaces, MeantFor, Captures
  <2>2. Held(q, 1) /\ Slot(q, 1) = Head1(q) /\ Older(Head1(q)) /\ ~Held(q, 0)
    BY <2>1, HeadFacts DEF SlotOK, Held, Serving, Accepts
  <2>3. /\ req'[q] = Head1(q) /\ \A r \in Launches \ {q} : req'[r] = req[r] /\ srv'[r] = srv[r]
        /\ srv'[q] = IF shut[q] = "no" THEN "snapshot" ELSE "late"
    BY <1>0, <2>1 DEF TypeOK
  <2>4. /\ Len(queue[q]) \in Nat /\ Len(queue'[q]) = Len(queue[q]) - 1
        /\ \A i \in 1 .. Len(queue[q]) - 1 : queue'[q][i] = queue[q][i + 1]
        /\ \A r \in Launches \ {q} : queue'[r] = queue[r]
    BY <1>0, <2>1, DequeueTyped
  <2>5. ASSUME NEW r \in Launches, NEW i \in Nat, Held(r, i)'
        PROVE  Held(r, Was(q, r, i)) /\ Slot(r, i)' = Slot(r, Was(q, r, i))
    <3>1. CASE r # q
      BY <2>3, <2>4, <2>5, <3>1 DEF Was, Held, Slot, Serving
    <3>2. CASE r = q /\ i = 0
      BY <2>2, <2>3, <3>2 DEF Was, Slot
    <3>3. CASE r = q /\ i # 0
      <4>1. i \in 1 .. Len(queue[q]) - 1
        BY <2>4, <2>5, <3>3 DEF Held
      <4>2. i + 1 \in 1 .. Len(queue[q]) /\ i + 1 # 0
        BY <2>4, <4>1
      <4> QED
        BY <2>4, <3>3, <4>1, <4>2 DEF Was, Held, Slot
    <3> QED
      BY <3>1, <3>2, <3>3
  <2>6. Moves(q)
    BY <2>5 DEF Moves
  <2>7. Faithful /\ \A r \in Launches : SenderKept(r)
    BY <2>1 DEF Faithful, SenderKept
  <2>8. InvSlots' /\ InvOnce'
    BY <2>6, <2>7, NobodySlots DEF Inv
  <2>9. InvServe'
    BY <2>1, <2>2, <2>3 DEF Inv, InvServe, Older
  <2>10. InvSafe' /\ ReplacesOlder'
    BY <2>1 DEF Inv, InvSafe, Safe, ReplacesOlder
  <2>11. \A r \in Launches : Settled(r) => Settled(r)'
    BY <2>1, <2>3 DEF Settled, Accepts
  <2>12. InvTold'
    <3>1. UNCHANGED <<captured, pc, told, handoff>>
      BY <2>1
    <3> QED
      BY <2>11, <3>1, ToldKept DEF Inv
  <2> QED
    BY <1>0, <2>8, <2>9, <2>10, <2>12 DEF Inv
<1>5. CASE Snapshot(q) \/ Fallback(q)
  <2>1. /\ pc[q] = "primary" /\ srv[q] \in {"snapshot", "fallback"}
        /\ \A r \in Launches \ {q} : captured'[r] = captured[r] /\ srv'[r] = srv[r]
        /\ srv'[q] \in {"fallback", "answer"}
        /\ UNCHANGED <<pc, gaming, observed, replacing, peer, handoff, shut, queue, req, by, told>>
    BY <1>0, <1>5 DEF Snapshot, Fallback, TypeOK
  <2>2. \A r \in Launches : Serving(r)' = Serving(r)
    BY <2>1 DEF Serving
  <2>3. Moves(NoOne)
    <3>1. \A r \in Launches, i \in Nat : Was(NoOne, r, i) = i
      BY LaunchesPositive DEF Was
    <3> QED
      BY <2>1, <2>2, <3>1 DEF Moves, Held, Slot
  <2>4. Faithful /\ \A r \in Launches : SenderKept(r)
    BY <2>1 DEF Faithful, SenderKept
  <2>5. InvSlots' /\ InvOnce'
    BY <2>3, <2>4, NobodySlots DEF Inv
  <2>6. InvServe'
    BY <2>1 DEF Inv, InvServe, Older
  <2>7. InvSafe' /\ ReplacesOlder'
    BY <2>1 DEF Inv, InvSafe, Safe, ReplacesOlder
  <2>8. ~Settled(q)
    BY <2>1 DEF Settled
  <2>9. \A r \in Launches \ {q} : Settled(r) => Settled(r)'
    BY <2>1 DEF Settled
  <2>10. InvTold'
    <3>1. ASSUME NEW p \in Launches, told[p] # NoOne, pc[p] \in Waiting \cup {"bind"}
          PROVE  told[p] \in Launches \ {q} /\ handoff[p] = captured[told[p]] /\ Settled(told[p])
      BY <1>0, <2>8, <3>1 DEF Inv, InvTold, TypeOK
    <3>2. ASSUME NEW p \in Launches, told[p] # NoOne, pc[p] \in Waiting \cup {"bind"},
                 NEW t, t = told[p]
          PROVE  handoff[p] = captured'[t] /\ Settled(t)'
      BY <2>1, <2>9, <3>1, <3>2
    <3> QED
      BY <2>1, <3>2 DEF InvTold, Settled
  <2> QED
    BY <1>0, <2>5, <2>6, <2>7, <2>10 DEF Inv
<1>6. CASE Answer(q)
  <2>1. /\ pc[q] = "primary" /\ srv[q] \in {"answer", "late"}
        /\ \A r \in Launches \ {q} : srv'[r] = srv[r]
        /\ srv'[q] = IF srv[q] = "answer" THEN "stop" ELSE "accept"
        /\ UNCHANGED <<gaming, observed, replacing, peer, shut, queue, req, captured, by>>
    BY <1>0, <1>6 DEF Answer, TypeOK
  <2>2. Moves(NoOne) /\ ~Held(q, 0)' /\ Held(q, 0) /\ Slot(q, 0) = req[q]
    <3>1. \A r \in Launches, i \in Nat : Was(NoOne, r, i) = i
      BY LaunchesPositive DEF Was
    <3>2. \A r \in Launches : Serving(r)' => Serving(r)
      BY <2>1 DEF Serving
    <3>3. Moves(NoOne)
      BY <2>1, <3>1, <3>2 DEF Moves, Held, Slot
    <3> QED
      BY <2>1, <3>3 DEF Held, Slot, Serving
  <2>3. InvServe'
    BY <2>1 DEF Inv, InvServe, Older
  <2>4. srv[q] = "late" => shut[q] # "no"
    BY DEF Inv, InvServe
  <2>5. CASE ~req[q].live
    <3>1. UNCHANGED <<pc, handoff, told>>
      BY <1>6, <2>5 DEF Answer, HearNothing
    <3>2. Faithful /\ \A r \in Launches : SenderKept(r)
      BY <2>1, <3>1 DEF Faithful, SenderKept
    <3>3. InvSlots' /\ InvOnce'
      BY <2>2, <3>2, NobodySlots DEF Inv
    <3>4. InvSafe' /\ ReplacesOlder'
      BY <2>1, <3>1 DEF Inv, InvSafe, Safe, ReplacesOlder
    <3>5. \A r \in Launches : Settled(r) => Settled(r)'
      BY <2>1, <2>4, <3>1 DEF Settled
    <3>6. InvTold'
      BY <2>1, <3>1, <3>5, ToldKept DEF Inv
    <3> QED
      BY <1>0, <2>3, <3>3, <3>4, <3>6 DEF Inv
  <2>6. CASE req[q].live
    <3> PICK c \in Launches : c = req[q].from
      BY <1>0 DEF TypeOK, Requests
    <3>1. pc[c] \in {"asked", "waiting"}
      BY <2>2, <2>6, SenderWaits DEF Inv
    <3>2. /\ pc' = [pc EXCEPT ![c] = "acquire"] /\ handoff' = [handoff EXCEPT ![c] = captured[q]]
          /\ told' = [told EXCEPT ![c] = q]
      BY <1>6, <2>6 DEF Answer, HearClosing, Goto
    <3>3. /\ pc'[c] = "acquire" /\ handoff'[c] = captured[q] /\ told'[c] = q
          /\ \A r \in Launches \ {c} :
               pc'[r] = pc[r] /\ handoff'[r] = handoff[r] /\ told'[r] = told[r] /\ SenderKept(r)
      BY <1>0, <2>1, <3>2 DEF SenderKept, TypeOK
    <3>4. Faithful /\ Lasting
      BY <2>1, <3>1, <3>3 DEF Faithful, Lasting
    <3>5. \A i \in Nat : Held(q, i)' => Was(NoOne, q, i) # 0
      BY <2>2, LaunchesPositive DEF Was
    <3>6. InvSlots' /\ InvOnce'
      BY <2>2, <2>6, <3>3, <3>4, <3>5, AnswerSlots DEF Inv
    <3>7. \A r \in Launches : Settled(r) => Settled(r)'
      BY <2>1, <2>4, <3>4 DEF Settled, Lasting
    <3>8. Settled(q)'
      BY <2>1, <2>4 DEF Settled
    <3>9. InvSafe' /\ InvTold' /\ ReplacesOlder'
      BY <2>1, <2>3, <3>1, <3>3, <3>4, <3>7, <3>8, AnswerStep
    <3> QED
      BY <1>0, <2>3, <3>6, <3>9 DEF Inv
  <2> QED
    BY <2>5, <2>6
<1>7. CASE Stop(q)
  <2>1. /\ pc[q] = "primary" /\ srv[q] = "stop" /\ srv' = [srv EXCEPT ![q] = "accept"]
        /\ \/ shut[q] = "no" /\ shut' = [shut EXCEPT ![q] = "replace"]
              /\ by' = [by EXCEPT ![q] = req[q].from]
           \/ shut[q] # "no" /\ UNCHANGED <<shut, by>>
        /\ UNCHANGED <<pc, gaming, observed, replacing, peer, handoff, queue, req, captured, told>>
    BY <1>7 DEF Stop
  <2>2. \A r \in Launches : Serving(r)' = Serving(r) /\ srv'[q] = "accept" /\ (r # q => srv'[r] = srv[r])
    BY <1>0, <2>1 DEF Serving, TypeOK
  <2>3. Moves(NoOne)
    <3>1. \A r \in Launches, i \in Nat : Was(NoOne, r, i) = i
      BY LaunchesPositive DEF Was
    <3> QED
      BY <2>1, <2>2, <3>1 DEF Moves, Held, Slot
  <2>4. Faithful /\ \A r \in Launches : SenderKept(r)
    BY <2>1 DEF Faithful, SenderKept
  <2>5. InvSlots' /\ InvOnce'
    BY <2>3, <2>4, NobodySlots DEF Inv
  <2>6. \A r \in Launches : (shut[r] # "no" => shut'[r] # "no") /\ shut'[q] # "no"
    BY <1>0, <2>1 DEF TypeOK
  <2>7. InvServe'
    BY <2>1, <2>2, <2>6 DEF Inv, InvServe, Older
  <2>8. InvSafe'
    BY <2>1 DEF Inv, InvSafe, Safe
  <2>9. ReplacesOlder'
    <3>1. CASE by' = by
      BY <2>1, <3>1 DEF Inv, ReplacesOlder
    <3>2. CASE by' = [by EXCEPT ![q] = req[q].from]
      <4>1. Older(req[q]) /\ req[q].gen = q
        BY <2>1 DEF Inv, InvServe
      <4>2. by'[q] = req[q].from /\ \A r \in Launches \ {q} : by'[r] = by[r]
        BY <1>0, <3>2 DEF TypeOK
      <4> QED
        BY <2>1, <4>1, <4>2 DEF Inv, ReplacesOlder, Older
    <3> QED
      BY <2>1, <3>1, <3>2
  <2>10. \A r \in Launches : Settled(r) => Settled(r)'
    BY <2>1, <2>2, <2>6 DEF Settled
  <2>11. InvTold'
    BY <2>1, <2>10, ToldKept DEF Inv
  <2> QED
    BY <1>0, <2>5, <2>7, <2>8, <2>9, <2>11 DEF Inv
<1> QED
  BY <1>1, <1>2, <1>3, <1>4, <1>5, <1>6, <1>7 DEF Serve

\* The rest of a process
LEMMA LiveStep ==
    ASSUME Inv, NEW p \in Launches, Live(p)
    PROVE  Inv'
<1>0. TypeOK' /\ TypeOK
  BY LiveTyped DEF Inv
<1> USE DEF service, client
<1>1. CASE ~Die(p)
  <2>1. /\ pc[p] = "primary" /\ \A r \in Launches \ {p} : handoff'[r] = handoff[r]
        /\ UNCHANGED <<pc, gaming, observed, replacing, peer, queue, srv, req, captured, by, told>>
    BY <1>0, <1>1 DEF Live, StartStream, ClearHandoff, EndStream, ResumeFails, UserQuit, TypeOK
  <2>2. shut' \in {shut, [shut EXCEPT ![p] = "quit"]}
    BY <1>1 DEF Live, StartStream, ClearHandoff, EndStream, ResumeFails, UserQuit
  <2>3. Lasting
    BY <1>0, <2>1, <2>2 DEF Lasting, TypeOK
  <2>4. InvSlots' /\ InvOnce' /\ InvServe' /\ InvSafe' /\ InvTold' /\ ReplacesOlder'
    BY <2>1, <2>3, OwnStep DEF Waiting
  <2> QED
    BY <1>0, <2>4 DEF Inv
<1>2. CASE Die(p)
  <2>1. /\ pc[p] = "primary" /\ pc'[p] = "dead" /\ queue'[p] = << >> /\ srv'[p] = "accept" /\ told'[p] = NoOne
        /\ \A r \in Launches \ {p} :
              /\ pc'[r] = pc[r] /\ queue'[r] = queue[r] /\ srv'[r] = srv[r] /\ req'[r] = req[r]
              /\ handoff'[r] = handoff[r] /\ told'[r] = told[r]
        /\ UNCHANGED <<gaming, observed, replacing, peer, shut, captured, by>>
    BY <1>0, <1>2 DEF Die, Goto, TypeOK
  <2>2. Faithful /\ Lasting /\ \A r \in Launches \ {p} : SenderKept(r)
    BY <2>1 DEF Faithful, Lasting, SenderKept
  <2>3. Moves(NoOne)
    <3>1. \A r \in Launches, i \in Nat : Was(NoOne, r, i) = i
      BY LaunchesPositive DEF Was
    <3>2. \A i \in Nat : ~Held(p, i)'
      BY <2>1 DEF Held, Serving
    <3> QED
      BY <2>1, <3>1, <3>2 DEF Moves, Held, Slot, Serving
  <2>4. InvSlots' /\ InvOnce'
    BY <2>1, <2>2, <2>3, OwnSlots DEF Inv
  <2>5. InvServe'
    BY <2>1 DEF Inv, InvServe, Older
  <2>6. InvSafe' /\ ReplacesOlder'
    BY <2>1 DEF Inv, InvSafe, Safe, ReplacesOlder
  <2>7. \A r \in Launches : Settled(r) => Settled(r)'
    BY <2>1 DEF Settled
  <2>8. InvTold'
    BY <2>1, <2>7, ToldKept DEF Inv, Waiting
  <2> QED
    BY <1>0, <2>4, <2>5, <2>6, <2>8 DEF Inv
<1> QED
  BY <1>1, <1>2

-----------------------------------------------------------------------------

\* Inv is inductive
LEMMA Inductive == Inv /\ [Next]_vars => Inv'
<1> SUFFICES ASSUME Inv, [Next]_vars PROVE Inv'
  OBVIOUS
<1>1. ASSUME NEW p \in Launches, Enter(p) \/ Serve(p) \/ Live(p) PROVE Inv'
  BY <1>1, EnterStep, ServeStep, LiveStep
<1>2. CASE UNCHANGED vars
  <2>1. UNCHANGED <<pc, gaming, lock, observed, replacing, acked, left, peer, handoff, shut, stream,
                    starting, queue, srv, req, captured, had, by, told>>
    BY <1>2 DEF vars, client, service
  <2>2. TypeOK'
    BY <2>1 DEF Inv, TypeOK
  <2>3. Faithful /\ \A r \in Launches : SenderKept(r)
    BY <2>1 DEF Faithful, SenderKept
  <2>4. Moves(NoOne)
    BY <2>1, StillMoves
  <2>5. InvSlots' /\ InvOnce' /\ InvServe' /\ InvSafe' /\ InvTold' /\ ReplacesOlder'
    BY <2>1, <2>4, QuietStep
  <2> QED
    BY <2>2, <2>5 DEF Inv
<1> QED
  BY <1>1, <1>2 DEF Next, Ended

\* The invariant holds throughout
THEOREM Invariance == Spec => []Inv
BY InitInv, Inductive, PTL DEF Spec

\* The processes' state keeps its types
THEOREM TypeCorrect == Spec => []TypeOK
<1>1. Inv => TypeOK
  BY DEF Inv
<1> QED
  BY Invariance, <1>1, PTL

\* Only an older instance in Game Mode is replaced, by a launch that saw it first, whenever its
\* request arrives (enter(), and the generation compared in serve())
THEOREM OnlyOlderReplaced == Spec => []ReplacesOlder
<1>1. Inv => ReplacesOlder
  BY DEF Inv
<1> QED
  BY Invariance, <1>1, PTL

\* A launch never ends by activating the instance it asked to give way (replacementSent)
THEOREM ReplacedNotActivated == Spec => []NeverActivatesReplaced
<1>1. Inv => NeverActivatesReplaced
  BY DEF Inv, InvSafe, Safe, NeverActivatesReplaced
<1> QED
  BY Invariance, <1>1, PTL

\* Whoever was told that an instance closes keeps what it captured when it was first asked (serve())
THEOREM HandoffOnce == Spec => []HandoffKept
<1>1. Inv => HandoffKept
  BY DEF Inv, InvTold, HandoffKept
<1> QED
  BY Invariance, <1>1, PTL

-----------------------------------------------------------------------------
(* The succession *)

\* The holder of the flock is the process that is binding its socket or is the instance, and a
\* process that is not yet the instance has nothing of its own: what it is to resume is what it
\* was told, by an instance that was one at the time
InvHolder ==
    \A p \in Launches :
        /\ pc[p] \in {"bind", "primary"} <=> lock = p
        /\ by[p] # NoOne => shut[p] # "no"
        /\ pc[p] \in Waiting \cup {"bind"} =>
             /\ shut[p] = "no" /\ srv[p] = "accept" /\ stream[p] = NoTarget
             /\ IF told[p] = NoOne THEN handoff[p] = NoTarget ELSE pc[told[p]] \in {"primary", "dead"}

\* All but p go on waiting as they did
OthersWait(p) ==
    \A r \in Launches \ {p} : /\ pc'[r] = pc[r] /\ told'[r] = told[r] /\ handoff'[r] = handoff[r]
                              /\ shut'[r] = shut[r]

\* What a step of enter() may do
EntersAs(p) ==
    /\ OthersWait(p) /\ UNCHANGED <<gaming, stream, srv, captured, by>>
    /\ \/ {pc[p], pc'[p]} \subseteq Waiting /\ UNCHANGED <<lock, told, handoff, shut>>
       \/ pc[p] \in Waiting /\ pc'[p] = "failed" /\ lock' = lock
       \/ /\ pc[p] \in Waiting /\ pc'[p] = "bind" /\ lock = NoOne /\ lock' = p
          /\ UNCHANGED <<told, handoff, shut>>
       \/ pc[p] = "bind" /\ pc'[p] = "primary" /\ UNCHANGED <<lock, handoff, shut>>
       \/ pc[p] = "bind" /\ pc'[p] = "failed" /\ lock' = NoOne /\ shut' = shut

LEMMA EnterShape ==
    ASSUME TypeOK, NEW p \in Launches, Enter(p)
    PROVE  EntersAs(p)
<1> USE DEF service, client, EntersAs, OthersWait, Waiting
<1>1. CASE Interrupted(p) \/ TimeOut(p) \/ BindFails(p)
  <2>1. Fail(p) /\ UNCHANGED <<gaming, stream, srv, captured, by>>
    BY <1>1 DEF Interrupted, TimeOut, BindFails
  <2>2. pc'[p] = "failed" /\ \A r \in Launches \ {p} :
            pc'[r] = pc[r] /\ told'[r] = told[r] /\ handoff'[r] = handoff[r]
    BY <2>1 DEF Fail, Leave, Goto, TypeOK
  <2>3. \/ pc[p] = "acquire" /\ lock' = lock /\ shut' \in {shut, [shut EXCEPT ![p] = "quit"]}
        \/ pc[p] = "bind" /\ lock' = NoOne /\ shut' = shut
    BY <1>1 DEF Interrupted, TimeOut, BindFails
  <2>4. \A r \in Launches \ {p} : shut'[r] = shut[r]
    BY <2>3 DEF TypeOK
  <2> QED
    BY <2>1, <2>2, <2>3, <2>4
<1>2. CASE TakeLock(p)
  BY <1>2 DEF TakeLock, Leave, Goto, TypeOK
<1>3. CASE AskStatus(p) \/ SendRequest(p) \/ GiveUp(p)
  <2>1. /\ UNCHANGED <<gaming, lock, handoff, shut, stream, srv, captured, by, told>>
        /\ pc[p] \in Waiting /\ \E place \in Waiting : pc' = [pc EXCEPT ![p] = place]
    BY <1>3 DEF AskStatus, SendRequest, GiveUp, Exchange, Goto
  <2> QED
    BY <2>1 DEF TypeOK
<1>4. CASE Bind(p)
  BY <1>4 DEF Bind, Goto, TypeOK
<1> QED
  BY <1>1, <1>2, <1>3, <1>4 DEF Enter

\* What an answer of q does to the client c
AnswersAs(q, c) ==
    /\ pc[c] \in Waiting /\ OthersWait(c) /\ shut' = shut
    /\ \/ pc'[c] \in Waiting /\ told' = told /\ handoff' = handoff
       \/ /\ pc'[c] = "activated" /\ srv' = srv /\ srv[q] = "accept" /\ shut[q] = "no"
          /\ told' = told /\ handoff' = handoff
       \/ /\ pc'[c] \in Waiting /\ told'[c] = q /\ handoff'[c] = captured[q] /\ Settled(q)'
       \/ /\ pc'[c] \in Waiting /\ told'[c] = NoOne /\ handoff'[c] = NoTarget
          /\ srv' = srv /\ srv[q] = "accept" /\ shut[q] # "no"

\* What a step of the service thread may do
ServesAs(q) ==
    /\ pc[q] = "primary" /\ UNCHANGED <<gaming, lock, stream>>
    /\ \A r \in Launches \ {q} : srv'[r] = srv[r]
    /\ \/ /\ UNCHANGED <<pc, told, handoff, shut, by>>
          /\ srv[q] \in {"snapshot", "fallback"} /\ srv'[q] \in {"fallback", "answer"}
          /\ \E t \in {stream[q], handoff[q]} : captured' = [captured EXCEPT ![q] = t]
       \/ /\ UNCHANGED <<captured, by>>
          /\ \/ UNCHANGED <<pc, told, handoff, shut>> \/ \E c \in Launches : AnswersAs(q, c)
          /\ \/ srv' = srv
             \/ srv[q] = "accept" /\ srv'[q] = IF shut[q] = "no" THEN "snapshot" ELSE "late"
             \/ srv[q] = "answer" /\ srv'[q] = "stop"
             \/ srv[q] = "late" /\ srv'[q] = "accept"
       \/ /\ UNCHANGED <<pc, told, handoff, captured>>
          /\ srv[q] = "stop" /\ srv'[q] = "accept"
          /\ \/ shut[q] # "no" /\ UNCHANGED <<shut, by>>
             \/ /\ shut[q] = "no" /\ shut' = [shut EXCEPT ![q] = "replace"]
                /\ by' = [by EXCEPT ![q] = req[q].from]

LEMMA ServeShape ==
    ASSUME Inv, NEW q \in Launches, Serve(q)
    PROVE  ServesAs(q)
<1>0. TypeOK
  BY DEF Inv
<1> USE DEF service, client
<1>1. CASE ServeStatus(q)
  <2>1. /\ Accepts(q) /\ UNCHANGED <<gaming, lock, stream, srv, captured, by, shut>>
    BY <1>1 DEF ServeStatus
  <2>2. CASE ~Head1(q).live
    BY <1>1, <2>1, <2>2 DEF ServeStatus, HearNothing, ServesAs, Accepts
  <2>3. CASE Head1(q).live
    <3> PICK c \in Launches : c = Head1(q).from
      BY <2>1, HeadFacts
    <3>1. pc[c] \in Waiting
      BY <2>1, <2>3, HeadFacts DEF Waiting
    <3>2. \/ /\ shut[q] # "no" /\ pc' = [pc EXCEPT ![c] = "acquire"]
             /\ handoff' = [handoff EXCEPT ![c] = captured[q]] /\ told' = [told EXCEPT ![c] = q]
          \/ /\ pc' = [pc EXCEPT ![c] = IF MustWait(c, q) THEN "acquire" ELSE "request"]
             /\ UNCHANGED <<handoff, told>>
      BY <1>1, <2>3 DEF ServeStatus, HearClosing, Goto
    <3>3. AnswersAs(q, c)
      BY <1>0, <2>1, <3>1, <3>2 DEF AnswersAs, OthersWait, Waiting, TypeOK, Settled, Accepts
    <3> QED
      BY <2>1, <3>3 DEF ServesAs, Accepts
  <2> QED
    BY <2>2, <2>3
<1>2. CASE ServeStale(q)
  <2>1. /\ Accepts(q) /\ UNCHANGED <<gaming, lock, stream, srv, captured, by, shut, told, handoff>>
    BY <1>2 DEF ServeStale
  <2>2. CASE ~Head1(q).live
    BY <1>2, <2>1, <2>2 DEF ServeStale, ServesAs, Accepts
  <2>3. CASE Head1(q).live
    <3> PICK c \in Launches : c = Head1(q).from
      BY <2>1, HeadFacts
    <3>1. pc[c] \in Waiting /\ pc' = [pc EXCEPT ![c] = "acquire"]
      BY <1>2, <2>1, <2>3, HeadFacts DEF ServeStale, Waiting
    <3>2. AnswersAs(q, c)
      BY <1>0, <2>1, <3>1 DEF AnswersAs, OthersWait, Waiting, TypeOK
    <3> QED
      BY <2>1, <3>2 DEF ServesAs, Accepts
  <2> QED
    BY <2>2, <2>3
<1>3. CASE ServeActivate(q)
  <2>1. /\ Accepts(q) /\ UNCHANGED <<gaming, lock, stream, srv, captured, by, shut>>
    BY <1>3 DEF ServeActivate
  <2>2. CASE ~Head1(q).live
    BY <1>3, <2>1, <2>2 DEF ServeActivate, HearNothing, ServesAs, Accepts
  <2>3. CASE Head1(q).live
    <3> PICK c \in Launches : c = Head1(q).from
      BY <2>1, HeadFacts
    <3>1. pc[c] \in Waiting
      BY <2>1, <2>3, HeadFacts DEF Waiting
    <3>2. \/ shut[q] = "no" /\ pc' = [pc EXCEPT ![c] = "activated"] /\ UNCHANGED <<handoff, told>>
          \/ /\ shut[q] # "no" /\ pc' = [pc EXCEPT ![c] = "acquire"]
             /\ handoff' = [handoff EXCEPT ![c] = NoTarget] /\ told' = [told EXCEPT ![c] = NoOne]
      BY <1>3, <2>3 DEF ServeActivate, Goto
    <3>3. AnswersAs(q, c)
      BY <1>0, <2>1, <3>1, <3>2 DEF AnswersAs, OthersWait, Waiting, TypeOK, Accepts
    <3> QED
      BY <2>1, <3>3 DEF ServesAs, Accepts
  <2> QED
    BY <2>2, <2>3
<1>4. CASE ServeReplace(q)
  <2>1. /\ UNCHANGED <<pc, gaming, lock, handoff, shut, stream, captured, by, told>>
        /\ pc[q] = "primary" /\ srv[q] = "accept"
        /\ srv' = [srv EXCEPT ![q] = IF Captures(q) THEN "snapshot" ELSE "late"]
    BY <1>4 DEF ServeReplace, Accepts
  <2> QED
    BY <1>0, <2>1 DEF ServesAs, TypeOK, Captures
<1>5. CASE Snapshot(q)
  BY <1>0, <1>5 DEF Snapshot, ServesAs, TypeOK
<1>6. CASE Fallback(q)
  BY <1>0, <1>6 DEF Fallback, ServesAs, TypeOK
<1>7. CASE Answer(q)
  <2>1. /\ pc[q] = "primary" /\ srv[q] \in {"answer", "late"}
        /\ srv' = [srv EXCEPT ![q] = IF @ = "answer" THEN "stop" ELSE "accept"]
        /\ UNCHANGED <<gaming, lock, shut, stream, captured, by>>
    BY <1>7 DEF Answer
  <2>2. /\ \/ srv[q] = "answer" /\ srv'[q] = "stop"
           \/ srv[q] = "late" /\ srv'[q] = "accept"
        /\ \A r \in Launches \ {q} : srv'[r] = srv[r]
    BY <1>0, <2>1 DEF TypeOK
  <2>3. CASE ~req[q].live
    BY <1>7, <2>1, <2>2, <2>3 DEF Answer, HearNothing, ServesAs
  <2>4. CASE req[q].live
    <3> PICK c \in Launches : c = req[q].from
      BY <1>0 DEF TypeOK, Requests
    <3>1. Held(q, 0) /\ Slot(q, 0) = req[q]
      BY <2>1 DEF Held, Slot, Serving
    <3>2. pc[c] \in Waiting
      BY <2>4, <3>1, SenderWaits DEF Inv, Waiting
    <3>3. /\ pc' = [pc EXCEPT ![c] = "acquire"] /\ handoff' = [handoff EXCEPT ![c] = captured[q]]
          /\ told' = [told EXCEPT ![c] = q]
      BY <1>7, <2>4 DEF Answer, HearClosing, Goto
    <3>4. Settled(q)'
      BY <2>1, <2>2 DEF Settled, Inv, InvServe
    <3>5. AnswersAs(q, c)
      BY <1>0, <2>1, <3>2, <3>3, <3>4 DEF AnswersAs, OthersWait, Waiting, TypeOK
    <3> QED
      BY <2>1, <2>2, <3>5 DEF ServesAs
  <2> QED
    BY <2>3, <2>4
<1>8. CASE Stop(q)
  <2>1. /\ pc[q] = "primary" /\ srv[q] = "stop" /\ srv' = [srv EXCEPT ![q] = "accept"]
        /\ UNCHANGED <<pc, gaming, lock, handoff, stream, captured, told>>
        /\ IF shut[q] = "no" THEN /\ shut' = [shut EXCEPT ![q] = "replace"]
                                  /\ by' = [by EXCEPT ![q] = req[q].from]
                             ELSE UNCHANGED <<shut, by>>
    BY <1>8 DEF Stop
  <2> QED
    BY <1>0, <2>1 DEF ServesAs, TypeOK
<1> QED
  BY <1>1, <1>2, <1>3, <1>4, <1>5, <1>6, <1>7, <1>8 DEF Serve

\* What the rest of the instance may do
LivesAs(q) ==
    /\ pc[q] = "primary" /\ UNCHANGED <<gaming, captured, by>>
    /\ \A r \in Launches \ {q} : /\ handoff'[r] = handoff[r] /\ stream'[r] = stream[r]
                                 /\ shut'[r] = shut[r] /\ srv'[r] = srv[r] /\ told'[r] = told[r]
    /\ \/ /\ UNCHANGED <<pc, lock, srv, shut, told>>
          /\ \/ stream[q] = NoTarget /\ stream'[q] \in Targets /\ handoff' = handoff
             \/ stream'[q] = NoTarget /\ handoff' = handoff
             \/ handoff'[q] = NoTarget /\ stream' = stream
       \/ UNCHANGED <<pc, lock, srv, told, handoff, stream>> /\ shut[q] = "no" /\ shut'[q] = "quit"
       \/ pc' = [pc EXCEPT ![q] = "dead"] /\ lock' = NoOne /\ shut' = shut

LEMMA LiveShape ==
    ASSUME TypeOK, NEW q \in Launches, Live(q)
    PROVE  LivesAs(q)
<1> USE DEF service, client, LivesAs, TypeOK
<1>1. ASSUME NEW t \in Targets, StartStream(q, t) PROVE LivesAs(q)
  BY <1>1 DEF StartStream
<1>2. CASE ClearHandoff(q) \/ ResumeFails(q)
  BY <1>2 DEF ClearHandoff, ResumeFails
<1>3. CASE EndStream(q)
  BY <1>3 DEF EndStream
<1>4. CASE UserQuit(q)
  BY <1>4 DEF UserQuit
<1>5. CASE Die(q)
  BY <1>5 DEF Die, Goto
<1> QED
  BY <1>1, <1>2, <1>3, <1>4, <1>5 DEF Live

\* Every step keeps what is said of the holder
LEMMA HolderStep ==
    ASSUME Inv, InvHolder, [Next]_vars
    PROVE  InvHolder'
<1> DEFINE Own(r) == /\ shut[r] = "no" /\ srv[r] = "accept" /\ stream[r] = NoTarget
                     /\ IF told[r] = NoOne THEN handoff[r] = NoTarget ELSE pc[told[r]] \in {"primary", "dead"}
           Holds(r) == /\ pc[r] \in {"bind", "primary"} <=> lock = r
                       /\ by[r] # NoOne => shut[r] # "no"
                       /\ pc[r] \in Waiting \cup {"bind"} => Own(r)
<1>0. TypeOK
  BY DEF Inv
<1>1. ASSUME NEW p \in Launches, Enter(p) PROVE InvHolder'
  <2>1. EntersAs(p)
    BY <1>0, <1>1, EnterShape
  <2>2. pc[p] \in Waiting \cup {"bind"} /\ OthersWait(p) /\ Holds(p)
    BY <2>1 DEF EntersAs, InvHolder
  <2>3. \A r \in Launches : pc[r] \in {"primary", "dead"} => pc'[r] \in {"primary", "dead"}
    BY <2>2 DEF OthersWait, Waiting
  <2>4. \A r \in Launches : told[r] \in Launches \cup {NoOne}
    BY <1>0 DEF TypeOK
  <2>5. Holds(p)'
    BY <2>1, <2>2, <2>3, <2>4, LaunchesPositive DEF EntersAs, Waiting
  <2>6. ASSUME NEW r \in Launches \ {p} PROVE Holds(r)'
    <3>1. Holds(r)
      BY DEF InvHolder
    <3>2. lock = r <=> lock' = r
      BY <2>1, <2>2, LaunchesPositive DEF EntersAs
    <3>3. UNCHANGED <<pc[r], told[r], handoff[r], shut[r], srv[r], stream[r], by[r]>>
      BY <2>1 DEF EntersAs, OthersWait
    <3> QED
      BY <2>3, <2>4, <3>1, <3>2, <3>3
  <2> QED
    BY <2>5, <2>6 DEF InvHolder
<1>2. ASSUME NEW q \in Launches, Serve(q) PROVE InvHolder'
  <2>1. ServesAs(q)
    BY <1>2, ServeShape
  <2>2. pc[q] = "primary" /\ UNCHANGED <<lock, stream>> /\ \A r \in Launches \ {q} : srv'[r] = srv[r]
    BY <2>1 DEF ServesAs
  <2>3. CASE UNCHANGED <<pc, told, handoff>>
    <3>1. \A r \in Launches : (by'[r] # NoOne => shut'[r] # "no") /\ (r # q => shut'[r] = shut[r])
      BY <1>0, <2>1, <2>3 DEF ServesAs, AnswersAs, InvHolder, TypeOK
    <3> QED
      BY <2>2, <2>3, <3>1 DEF InvHolder, Waiting
  <2>4. CASE ~UNCHANGED <<pc, told, handoff>>
    <3>1. PICK c \in Launches : AnswersAs(q, c) /\ UNCHANGED by
      BY <2>1, <2>4 DEF ServesAs
    <3>2. /\ pc[c] \in Waiting /\ shut' = shut /\ c # q
          /\ \A r \in Launches \ {c} : UNCHANGED <<pc[r], told[r], handoff[r]>>
      BY <2>2, <3>1 DEF AnswersAs, OthersWait, Waiting
    <3>3. \A r \in Launches : pc[r] \in {"primary", "dead"} => pc'[r] \in {"primary", "dead"}
      BY <3>2 DEF Waiting
    <3>4. \A r \in Launches : told[r] \in Launches \cup {NoOne}
      BY <1>0 DEF TypeOK
    <3>5. ASSUME NEW r \in Launches \ {c} PROVE Holds(r)'
      <4>1. Holds(r)
        BY DEF InvHolder
      <4> QED
        BY <2>2, <3>1, <3>2, <3>3, <3>4, <4>1 DEF Waiting
    <3>6. Holds(c)'
      <4>1. Holds(c)
        BY DEF InvHolder
      <4>2. pc'[c] \in Waiting \cup {"activated"}
        BY <3>1 DEF AnswersAs
      <4>3. \/ told'[c] = told[c] /\ handoff'[c] = handoff[c]
            \/ told'[c] = q
            \/ told'[c] = NoOne /\ handoff'[c] = NoTarget
        BY <3>1 DEF AnswersAs
      <4> QED
        BY <2>2, <3>1, <3>2, <3>3, <3>4, <4>1, <4>2, <4>3, LaunchesPositive DEF Waiting
    <3> QED
      BY <3>5, <3>6 DEF InvHolder
  <2> QED
    BY <2>3, <2>4
<1>3. ASSUME NEW q \in Launches, Live(q) PROVE InvHolder'
  <2>1. LivesAs(q)
    BY <1>0, <1>3, LiveShape
  <2>2. /\ pc[q] = "primary" /\ lock = q /\ UNCHANGED by
        /\ \A r \in Launches \ {q} : UNCHANGED <<pc[r], told[r], handoff[r], shut[r], srv[r], stream[r]>>
    BY <1>0, <2>1 DEF LivesAs, InvHolder, TypeOK
  <2>3. \/ pc'[q] = "primary" /\ lock' = lock
        \/ pc'[q] = "dead" /\ lock' = NoOne
    BY <1>0, <2>1, <2>2 DEF LivesAs, TypeOK
  <2>4. shut[q] # "no" => shut'[q] # "no"
    BY <2>1 DEF LivesAs
  <2>5. \A r \in Launches : pc[r] \in {"primary", "dead"} => pc'[r] \in {"primary", "dead"}
    BY <2>2, <2>3
  <2>6. \A r \in Launches : told[r] \in Launches \cup {NoOne}
    BY <1>0 DEF TypeOK
  <2>7. ASSUME NEW r \in Launches \ {q} PROVE Holds(r)'
    <3>1. Holds(r)
      BY DEF InvHolder
    <3> QED
      BY <2>2, <2>3, <2>5, <2>6, <3>1, LaunchesPositive DEF Waiting
  <2>8. Holds(q)'
    BY <2>2, <2>3, <2>4, LaunchesPositive DEF Waiting, InvHolder
  <2> QED
    BY <2>7, <2>8 DEF InvHolder
<1>4. CASE UNCHANGED vars
  BY <1>4 DEF vars, client, service, InvHolder
<1> QED
  BY <1>1, <1>2, <1>3, <1>4 DEF Next, Ended

THEOREM HolderInvariance == Spec => [](Inv /\ InvHolder)
<1>1. Init => InvHolder
  BY InitInv, LaunchesPositive DEF Init, InvHolder, Waiting
<1>2. InvHolder /\ [Next]_vars /\ Inv => InvHolder'
  BY HolderStep
<1>3. Spec => []InvHolder
  BY Invariance, <1>1, <1>2, PTL DEF Spec
<1> QED
  BY Invariance, <1>3, PTL

Gone == {"activated", "failed", "dead"}

\* What a step of p, or of what p asked, leaves as it was in the eyes of the others
LEMMA OthersSeen ==
    ASSUME TypeOK, TypeOK', NEW p \in Launches, OthersWait(p)
    PROVE  /\ HeardFrom' = [HeardFrom EXCEPT ![p] = IF pc'[p] \in Waiting THEN told'[p] ELSE NoOne]
           /\ pc[p] \notin Gone => Over' = IF pc'[p] \in Gone THEN Over \cup {p} ELSE Over
<1>1. \A r \in Launches \ {p} : pc'[r] = pc[r] /\ told'[r] = told[r]
  BY DEF OthersWait
<1>2. \A r \in Launches : HeardFrom'[r] =
          [HeardFrom EXCEPT ![p] = IF pc'[p] \in Waiting THEN told'[p] ELSE NoOne][r]
  BY <1>1 DEF HeardFrom
<1>3. HeardFrom' = [HeardFrom EXCEPT ![p] = IF pc'[p] \in Waiting THEN told'[p] ELSE NoOne]
  BY <1>2 DEF HeardFrom
<1>4. pc[p] \notin Gone => Over' = IF pc'[p] \in Gone THEN Over \cup {p} ELSE Over
  BY <1>1 DEF Over, Gone
<1> QED
  BY <1>3, <1>4

\* A process that waits is not the instance, and one that closes goes on closing
LEMMA SeenWaiting ==
    ASSUME InvHolder, NEW p \in Launches, pc[p] \in Waiting
    PROVE  Users!Waits(p) /\ lock # p /\ pc[p] \notin Gone /\ HeardFrom[p] = told[p]
<1>1. lock # p
  BY DEF InvHolder, Waiting
<1>2. p \notin Over /\ pc[p] \notin Gone /\ HeardFrom[p] = told[p]
  BY DEF Over, Waiting, Gone, HeardFrom
<1> QED
  BY <1>1, <1>2 DEF Users!Waits

LEMMA SameLaunches == Users!Launches = Launches
BY DEF Users!Launches, Launches

\* A step of enter() in the eyes of the users: a launch takes over, gives up, or the instance
\* that could not bind its socket ends
LEMMA EnterSeen ==
    ASSUME Inv, InvHolder, TypeOK', NEW p \in Launches, EntersAs(p)
    PROVE  Users!Next \/ UNCHANGED Users!successionVars
<1> USE SameLaunches
<1>0. /\ TypeOK /\ OthersWait(p) /\ UNCHANGED <<gaming, stream, srv, captured, by>>
      /\ HeardFrom' = [HeardFrom EXCEPT ![p] = IF pc'[p] \in Waiting THEN told'[p] ELSE NoOne]
      /\ pc[p] \notin Gone => Over' = IF pc'[p] \in Gone THEN Over \cup {p} ELSE Over
  BY OthersSeen DEF EntersAs, Inv
<1>1. ASSUME pc[p] \in Waiting, pc'[p] \in Waiting, UNCHANGED <<lock, told, handoff, shut>>
      PROVE  UNCHANGED Users!successionVars
  <2>1. HeardFrom' = HeardFrom
    BY <1>0, <1>1 DEF HeardFrom
  <2>2. Over' = Over
    BY <1>0, <1>1 DEF Waiting, Gone
  <2>3. UNCHANGED <<Closing, OfHolder(stream), OfHolder(handoff)>>
    BY <1>0, <1>1 DEF Closing, OfHolder
  <2> QED
    BY <1>0, <1>1, <2>1, <2>2, <2>3 DEF Users!successionVars
<1>2. ASSUME pc[p] \in Waiting, pc'[p] = "failed", lock' = lock
      PROVE  Users!GiveUp(p)
  <2>1. Users!Waits(p) /\ lock # p /\ pc[p] \notin Gone
    BY <1>2, SeenWaiting
  <2>2. Over' = Over \cup {p} /\ HeardFrom' = [HeardFrom EXCEPT ![p] = NoOne]
    BY <1>0, <1>2, <2>1 DEF Waiting, Gone
  <2>3. lock # NoOne => UNCHANGED <<shut[lock], srv[lock], stream[lock], handoff[lock]>>
    BY <1>0, <1>2, <2>1 DEF OthersWait, TypeOK
  <2>4. UNCHANGED <<Closing, OfHolder(stream), OfHolder(handoff)>>
    BY <1>2, <2>3 DEF Closing, OfHolder
  <2> QED
    BY <1>0, <1>2, <2>1, <2>2, <2>4 DEF Users!GiveUp, Users!Hears
<1>3. ASSUME pc[p] \in Waiting, pc'[p] = "bind", lock = NoOne, lock' = p, UNCHANGED <<told, handoff, shut>>
      PROVE  Users!Take(p)
  <2>1. Users!Waits(p) /\ pc[p] \notin Gone /\ HeardFrom[p] = told[p]
    BY <1>3, SeenWaiting
  <2>2. Over' = Over /\ HeardFrom' = [HeardFrom EXCEPT ![p] = NoOne]
    BY <1>0, <1>3, <2>1 DEF Waiting, Gone
  <2>3. /\ shut[p] = "no" /\ srv[p] = "accept" /\ stream[p] = NoTarget
        /\ IF told[p] = NoOne THEN handoff[p] = NoTarget ELSE pc[told[p]] \in {"primary", "dead"}
    BY <1>3 DEF InvHolder
  <2>4. told[p] \in Over \cup {NoOne}
    <3>1. told[p] \in Launches \cup {NoOne}
      BY <1>0 DEF TypeOK
    <3>2. told[p] # NoOne => pc[told[p]] # "primary"
      BY <1>3, <3>1, LaunchesPositive DEF InvHolder
    <3> QED
      BY <2>3, <3>1, <3>2 DEF Over
  <2>5. handoff[p] = IF told[p] = NoOne THEN NoTarget ELSE captured[told[p]]
    BY <1>3, <2>3 DEF Inv, InvTold
  <2>6. p # NoOne
    BY LaunchesPositive
  <2>7. /\ ~Closing /\ ~Closing' /\ OfHolder(stream)' = OfHolder(stream)
        /\ OfHolder(handoff)' = handoff[p]
    BY <1>0, <1>3, <2>3, <2>6 DEF Closing, OfHolder
  <2>8. Closing' = Closing
    BY <2>7 DEF Closing
  <2> QED
    BY <1>0, <1>3, <2>1, <2>2, <2>4, <2>5, <2>7, <2>8 DEF Users!Take, Users!Hears
<1>4. ASSUME pc[p] = "bind", pc'[p] = "primary", UNCHANGED <<lock, handoff, shut>>
      PROVE  UNCHANGED Users!successionVars
  <2>1. HeardFrom' = HeardFrom
    BY <1>0, <1>4 DEF HeardFrom, Waiting
  <2>2. Over' = Over
    BY <1>0, <1>4 DEF Gone
  <2>3. UNCHANGED <<Closing, OfHolder(stream), OfHolder(handoff)>>
    BY <1>0, <1>4 DEF Closing, OfHolder
  <2> QED
    BY <1>0, <1>4, <2>1, <2>2, <2>3 DEF Users!successionVars
<1>5. ASSUME pc[p] = "bind", pc'[p] = "failed", lock' = NoOne, shut' = shut
      PROVE  Users!End
  <2>1. lock = p /\ p # NoOne
    BY <1>5, LaunchesPositive DEF InvHolder
  <2>2. HeardFrom' = HeardFrom /\ Over' = Over \cup {p}
    BY <1>0, <1>5 DEF HeardFrom, Waiting, Gone
  <2>3. Closing' = FALSE /\ OfHolder(stream)' = NoTarget /\ OfHolder(handoff)' = NoTarget
    BY <1>5 DEF Closing, OfHolder
  <2> QED
    BY <1>0, <1>5, <2>1, <2>2, <2>3 DEF Users!End
<1> QED
  BY <1>1, <1>2, <1>3, <1>4, <1>5 DEF EntersAs, Users!Next

\* A step of the rest of the instance: it streams or not, resumes no more, closes, or ends
LEMMA LiveSeen ==
    ASSUME Inv, InvHolder, TypeOK', NEW q \in Launches, LivesAs(q)
    PROVE  Users!Next \/ UNCHANGED Users!successionVars
<1> USE SameLaunches
<1>0. /\ TypeOK /\ pc[q] = "primary" /\ UNCHANGED <<gaming, captured, by>>
      /\ \A r \in Launches \ {q} : told'[r] = told[r]
      /\ lock = q /\ lock # NoOne
  BY LaunchesPositive DEF LivesAs, Inv, InvHolder
<1>1. ASSUME UNCHANGED <<pc, lock>> PROVE UNCHANGED <<Over, HeardFrom>>
  BY <1>0, <1>1 DEF Over, HeardFrom, Waiting
<1>2. ASSUME UNCHANGED <<pc, lock, srv, shut>>,
             \/ stream[q] = NoTarget /\ stream'[q] \in Targets /\ handoff' = handoff
             \/ stream'[q] = NoTarget /\ handoff' = handoff
             \/ handoff'[q] = NoTarget /\ stream' = stream
      PROVE  Users!Stream
  <2>1. Closing' = Closing
    BY <1>2 DEF Closing
  <2>2. /\ OfHolder(stream) = stream[q] /\ OfHolder(stream)' = stream'[q]
        /\ OfHolder(handoff) = handoff[q] /\ OfHolder(handoff)' = handoff'[q]
    BY <1>0, <1>2 DEF OfHolder
  <2> QED
    BY <1>0, <1>1, <1>2, <2>1, <2>2 DEF Users!Stream
<1>3. ASSUME UNCHANGED <<pc, lock, srv, handoff, stream>>, shut[q] = "no", shut'[q] = "quit"
      PROVE  Users!Close \/ UNCHANGED Users!successionVars
  <2>1. UNCHANGED <<OfHolder(stream), OfHolder(handoff)>>
    BY <1>3 DEF OfHolder
  <2>2. Closing <=> srv[q] = "stop"
    BY <1>0, <1>3 DEF Closing
  <2>3. Closing' <=> srv[q] \in {"stop", "accept", "late"}
    <3>1. srv'[q] = srv[q] /\ lock' = q /\ shut'[q] # "no"
      BY <1>0, <1>3
    <3> QED
      BY <1>0, <3>1 DEF Closing
  <2>4. Closing \in BOOLEAN /\ Closing' \in BOOLEAN
    BY DEF Closing
  <2>5. CASE srv[q] \in {"stop", "accept", "late"}
    BY <1>0, <1>1, <1>3, <2>1, <2>2, <2>3, <2>4, <2>5 DEF Users!Close
  <2>6. CASE srv[q] \notin {"stop", "accept", "late"}
    BY <1>0, <1>1, <1>3, <2>1, <2>2, <2>3, <2>4, <2>6 DEF Users!successionVars
  <2> QED
    BY <2>5, <2>6
<1>4. ASSUME pc' = [pc EXCEPT ![q] = "dead"], lock' = NoOne
      PROVE  Users!End
  <2>1. \A r \in Launches : pc'[r] = IF r = q THEN "dead" ELSE pc[r]
    BY <1>0, <1>4 DEF TypeOK
  <2>2. HeardFrom' = HeardFrom
    BY <1>0, <2>1 DEF HeardFrom, Waiting
  <2>3. Over' = Over \cup {q}
    BY <2>1 DEF Over
  <2>4. Closing' = FALSE /\ OfHolder(stream)' = NoTarget /\ OfHolder(handoff)' = NoTarget
    BY <1>4 DEF Closing, OfHolder
  <2> QED
    BY <1>0, <1>4, <2>2, <2>3, <2>4 DEF Users!End
<1> QED
  BY <1>2, <1>3, <1>4 DEF LivesAs, Users!Next

\* A step of the service thread: the instance looks what it leaves, closes, is activated or
\* replaced, and tells
LEMMA ServeSeen ==
    ASSUME Inv, InvHolder, TypeOK', NEW q \in Launches, ServesAs(q)
    PROVE  Users!Next \/ UNCHANGED Users!successionVars
<1> USE SameLaunches
<1>0. /\ TypeOK /\ pc[q] = "primary" /\ UNCHANGED <<gaming, lock, stream>>
      /\ lock = q /\ lock # NoOne
  BY LaunchesPositive DEF ServesAs, Inv, InvHolder
<1>1. srv[q] = "late" => shut[q] # "no"
  BY DEF Inv, InvServe
<1>2. /\ Closing = (srv[q] = "stop" \/ (shut[q] # "no" /\ srv[q] \in {"accept", "late"}))
      /\ Closing' = (srv'[q] = "stop" \/ (shut'[q] # "no" /\ srv'[q] \in {"accept", "late"}))
      /\ OfHolder(stream) = stream[q] /\ OfHolder(stream)' = stream[q]
      /\ OfHolder(handoff) = handoff[q] /\ OfHolder(handoff)' = handoff'[q]
  BY <1>0 DEF Closing, OfHolder
<1>3. ASSUME UNCHANGED <<pc, told>> PROVE UNCHANGED <<Over, HeardFrom>>
  BY <1>3 DEF Over, HeardFrom
<1>4. ASSUME UNCHANGED <<pc, told, handoff, shut, by>>,
             srv[q] \in {"snapshot", "fallback"}, srv'[q] \in {"fallback", "answer"},
             \E t \in {stream[q], handoff[q]} : captured' = [captured EXCEPT ![q] = t]
      PROVE  Users!Look
  <2>1. Closing = FALSE /\ Closing' = FALSE
    BY <1>2, <1>4
  <2> QED
    BY <1>0, <1>2, <1>3, <1>4, <2>1 DEF Users!Look
<1>5. ASSUME UNCHANGED <<pc, told, handoff, captured>>, srv[q] = "stop", srv'[q] = "accept",
             \/ shut[q] # "no" /\ UNCHANGED <<shut, by>>
             \/ shut[q] = "no" /\ shut' = [shut EXCEPT ![q] = "replace"]
                               /\ by' = [by EXCEPT ![q] = req[q].from]
      PROVE  Users!Next \/ UNCHANGED Users!successionVars
  <2>1. shut'[q] # "no"
    BY <1>0, <1>5 DEF TypeOK
  <2>2. Closing = TRUE /\ Closing' = TRUE
    BY <1>2, <1>5, <2>1
  <2>3. CASE by' = by
    BY <1>0, <1>2, <1>3, <1>5, <2>2, <2>3 DEF Users!successionVars
  <2>4. CASE shut[q] = "no" /\ by' = [by EXCEPT ![q] = req[q].from]
    <3>1. req[q].from \in Launches
      BY <1>0 DEF TypeOK, Requests
    <3>2. by[q] = NoOne
      BY <2>4 DEF InvHolder
    <3>3. q < req[q].from /\ gaming[q] /\ gaming[req[q].from]
      BY <1>5 DEF Inv, InvServe, Older
    <3>4. Users!Replace(req[q].from)
      BY <1>0, <1>2, <1>3, <1>5, <2>2, <2>4, <3>2, <3>3 DEF Users!Replace
    <3> QED
      BY <3>1, <3>4 DEF Users!Next
  <2> QED
    BY <1>5, <2>3, <2>4
<1>6. ASSUME UNCHANGED <<captured, by, shut>>,
             \/ srv' = srv
             \/ srv[q] = "accept" /\ srv'[q] = IF shut[q] = "no" THEN "snapshot" ELSE "late"
             \/ srv[q] = "answer" /\ srv'[q] = "stop"
             \/ srv[q] = "late" /\ srv'[q] = "accept"
      PROVE  /\ Closing => Closing'
             /\ srv' = srv => Closing' = Closing
  BY <1>1, <1>2, <1>6
<1>7. ASSUME UNCHANGED <<captured, by, shut>>, Closing => Closing', UNCHANGED <<Over, HeardFrom, handoff>>
      PROVE  Users!Next \/ UNCHANGED Users!successionVars
  <2>1. CASE Closing'
    <3>1. Closing' = TRUE
      BY <2>1 DEF Closing
    <3>2. Users!Close
      BY <1>0, <1>2, <1>7, <3>1 DEF Users!Close
    <3> QED
      BY <3>2 DEF Users!Next
  <2>2. CASE ~Closing'
    <3>1. Closing' = Closing
      BY <1>2, <1>7, <2>2
    <3> QED
      BY <1>0, <1>2, <1>7, <3>1 DEF Users!successionVars
  <2> QED
    BY <2>1, <2>2
<1>8. ASSUME UNCHANGED <<captured, by, shut>>, Closing => Closing', srv' = srv => Closing' = Closing,
             NEW c \in Launches, AnswersAs(q, c)
      PROVE  Users!Next \/ UNCHANGED Users!successionVars
  <2>1. /\ pc[c] \in Waiting /\ OthersWait(c) /\ c # q /\ pc'[q] = pc[q] /\ handoff'[q] = handoff[q]
    BY <1>0, <1>8 DEF AnswersAs, OthersWait, Waiting
  <2>2. Users!Waits(c) /\ pc[c] \notin Gone /\ HeardFrom[c] = told[c]
    BY <2>1, SeenWaiting
  <2>3. /\ HeardFrom' = [HeardFrom EXCEPT ![c] = IF pc'[c] \in Waiting THEN told'[c] ELSE NoOne]
        /\ Over' = IF pc'[c] \in Gone THEN Over \cup {c} ELSE Over
    BY <1>0, <2>1, <2>2, OthersSeen
  <2>4. pc'[c] \in Waiting => Over' = Over
    BY <2>3 DEF Waiting, Gone
  <2>5. CASE pc'[c] \in Waiting /\ told' = told /\ handoff' = handoff
    <3>1. HeardFrom' = HeardFrom
      BY <2>2, <2>3, <2>5 DEF HeardFrom
    <3> QED
      BY <1>7, <1>8, <2>4, <2>5, <3>1
  <2>6. CASE pc'[c] = "activated" /\ srv' = srv /\ srv[q] = "accept" /\ shut[q] = "no"
    <3>1. Over' = Over \cup {c} /\ HeardFrom' = [HeardFrom EXCEPT ![c] = NoOne]
      BY <2>3, <2>6 DEF Gone, Waiting
    <3>2. Closing = FALSE /\ Closing' = Closing
      BY <1>2, <1>8, <2>6
    <3>3. Users!Activate(c)
      BY <1>0, <1>2, <1>8, <2>1, <2>2, <3>1, <3>2 DEF Users!Activate, Users!Hears
    <3> QED
      BY <3>3 DEF Users!Next
  <2>7. CASE pc'[c] \in Waiting /\ told'[c] = q /\ Settled(q)'
    <3>1. HeardFrom' = [HeardFrom EXCEPT ![c] = lock]
      BY <1>0, <2>3, <2>7
    <3>2. Closing' = TRUE
      BY <1>0, <1>2, <2>1, <2>7 DEF Settled
    <3>3. Users!Close
      BY <1>0, <1>2, <1>8, <2>1, <2>2, <2>4, <2>7, <3>1, <3>2 DEF Users!Close, Users!Hears
    <3> QED
      BY <3>3 DEF Users!Next
  <2>8. CASE /\ pc'[c] \in Waiting /\ told'[c] = NoOne
             /\ srv' = srv /\ srv[q] = "accept" /\ shut[q] # "no"
    <3>1. HeardFrom' = [HeardFrom EXCEPT ![c] = NoOne]
      BY <2>3, <2>8
    <3>2. Closing = TRUE /\ Closing' = Closing
      BY <1>2, <1>8, <2>8
    <3>3. Users!Forget(c)
      BY <1>0, <1>2, <1>8, <2>1, <2>2, <2>4, <2>8, <3>1, <3>2 DEF Users!Forget, Users!Hears
    <3> QED
      BY <3>3 DEF Users!Next
  <2> QED
    BY <1>8, <2>5, <2>6, <2>7, <2>8 DEF AnswersAs
<1>9. ASSUME UNCHANGED <<captured, by, shut>>, Closing => Closing', UNCHANGED <<pc, told, handoff>>
      PROVE  Users!Next \/ UNCHANGED Users!successionVars
  BY <1>3, <1>7, <1>9
<1>10. ASSUME UNCHANGED <<captured, by>>,
              \/ UNCHANGED <<pc, told, handoff, shut>>
              \/ \E c \in Launches : AnswersAs(q, c),
              \/ srv' = srv
              \/ srv[q] = "accept" /\ srv'[q] = IF shut[q] = "no" THEN "snapshot" ELSE "late"
              \/ srv[q] = "answer" /\ srv'[q] = "stop"
              \/ srv[q] = "late" /\ srv'[q] = "accept"
       PROVE  Users!Next \/ UNCHANGED Users!successionVars
  <2>1. shut' = shut
    BY <1>10 DEF AnswersAs
  <2>2. (Closing => Closing') /\ (srv' = srv => Closing' = Closing)
    BY <1>6, <1>10, <2>1
  <2> QED
    BY <1>8, <1>9, <1>10, <2>1, <2>2
<1>11. Users!Look => Users!Next
  BY DEF Users!Next
<1> QED
  BY <1>4, <1>5, <1>10, <1>11 DEF ServesAs

\* Whatever the processes do, their users see a succession of single instances (Succession)
THEOREM SuccessionImplemented == Spec => ImplementsSuccession
<1>1. Init => Users!Init
  <2> SUFFICES ASSUME Init PROVE Users!Init
    OBVIOUS
  <2>1. \A p \in Launches : pc[p] = "acquire" /\ told[p] = NoOne
    BY DEF Init
  <2>2. Over = {} /\ HeardFrom = [p \in Launches |-> NoOne]
    BY <2>1 DEF Over, HeardFrom
  <2>3. Closing = FALSE /\ OfHolder(stream) = NoTarget /\ OfHolder(handoff) = NoTarget
    BY DEF Init, Closing, OfHolder
  <2>4. /\ gaming \in [Launches -> BOOLEAN] /\ lock = NoOne
        /\ captured = [p \in Launches |-> NoTarget] /\ by = [p \in Launches |-> NoOne]
    BY DEF Init
  <2> QED
    BY <2>2, <2>3, <2>4, SameLaunches DEF Users!Init
<1>2. Inv /\ InvHolder /\ Inv' /\ [Next]_vars => [Users!Next]_(Users!successionVars)
  <2> SUFFICES ASSUME Inv, InvHolder, Inv', [Next]_vars
               PROVE  Users!Next \/ UNCHANGED Users!successionVars
    OBVIOUS
  <2>0. TypeOK /\ TypeOK'
    BY DEF Inv
  <2>1. ASSUME NEW p \in Launches, Enter(p) PROVE Users!Next \/ UNCHANGED Users!successionVars
    BY <2>0, <2>1, EnterShape, EnterSeen
  <2>2. ASSUME NEW q \in Launches, Serve(q) PROVE Users!Next \/ UNCHANGED Users!successionVars
    BY <2>0, <2>2, ServeShape, ServeSeen
  <2>3. ASSUME NEW q \in Launches, Live(q) PROVE Users!Next \/ UNCHANGED Users!successionVars
    BY <2>0, <2>3, LiveShape, LiveSeen
  <2>4. CASE UNCHANGED vars
    <3>1. UNCHANGED <<pc, gaming, lock, handoff, shut, stream, srv, captured, by, told>>
      BY <2>4 DEF vars, service
    <3>2. UNCHANGED <<Over, HeardFrom, Closing, OfHolder(stream), OfHolder(handoff)>>
      BY <3>1 DEF Over, HeardFrom, Closing, OfHolder
    <3> QED
      BY <3>1, <3>2 DEF Users!successionVars
  <2> QED
    BY <2>1, <2>2, <2>3, <2>4 DEF Next, Ended
<1> QED
  BY <1>1, <1>2, HolderInvariance, PTL DEF Spec, ImplementsSuccession, Users!Spec

-----------------------------------------------------------------------------
(* The deadline *)

\* The turns of the loop that p may still take, counting those that the one extension of the
\* deadline would give, and the steps that are left of the present turn
Turns(p) == left[p] + IF acked[p] THEN 0 ELSE Rounds + 1

StepsOfTurn(place) ==
    IF place = "asked" THEN 3 ELSE IF place = "request" THEN 2 ELSE IF place = "waiting" THEN 1 ELSE 0

StepsLeft(p) ==
    IF pc[p] \in Waiting THEN 2 + 4 * Turns(p) + StepsOfTurn(pc[p])
                         ELSE IF pc[p] = "bind" THEN 1 ELSE 0

LEMMA StepsLeftNat ==
    ASSUME TypeOK, NEW p \in Launches
    PROVE  StepsLeft(p) \in Nat /\ Turns(p) \in Nat /\ left[p] \in Nat /\ Rounds \in Nat
<1>1. left[p] \in Nat /\ Rounds \in Nat
  BY BoundsAssumption DEF TypeOK
<1>2. Turns(p) \in Nat
  BY <1>1 DEF Turns
<1> QED
  BY <1>1, <1>2 DEF StepsLeft, StepsOfTurn

\* What p itself does in enter() brings it nearer to the end
LEMMA EnterDescends ==
    ASSUME TypeOK, TypeOK', NEW p \in Launches, Enter(p)
    PROVE  /\ StepsLeft(p)' < StepsLeft(p)
           /\ \A r \in Launches \ {p} : UNCHANGED <<pc[r], left[r], acked[r]>>
<1> USE DEF client, service, Waiting
<1>0. StepsLeft(p) \in Nat /\ Turns(p) \in Nat /\ left[p] \in Nat /\ Rounds \in Nat
  BY StepsLeftNat
<1>1. ASSUME NEW place \in {"failed", "bind"}, Leave(p, place)
      PROVE  /\ pc'[p] = place
             /\ \A r \in Launches \ {p} : UNCHANGED <<pc[r], left[r], acked[r]>>
  BY <1>1 DEF Leave, Goto, TypeOK
<1>2. CASE Interrupted(p) \/ TimeOut(p) \/ BindFails(p)
  <2>1. pc[p] \in {"acquire", "bind"} /\ Leave(p, "failed")
    BY <1>2 DEF Interrupted, TimeOut, BindFails, Fail
  <2> QED
    BY <1>0, <1>1, <2>1 DEF StepsLeft, StepsOfTurn
<1>3. CASE TakeLock(p)
  <2>1. pc[p] = "acquire" /\ Leave(p, "bind")
    BY <1>3 DEF TakeLock
  <2> QED
    BY <1>0, <1>1, <2>1 DEF StepsLeft, StepsOfTurn
<1>4. CASE AskStatus(p)
  <2>1. /\ pc[p] = "acquire" /\ left' = [left EXCEPT ![p] = left[p] - 1] /\ left[p] # 0
        /\ acked' = acked /\ \E place \in {"asked", "acquire"} : pc' = [pc EXCEPT ![p] = place]
    BY <1>4 DEF AskStatus, Exchange, Goto, Expired
  <2>2. /\ left'[p] = left[p] - 1 /\ pc'[p] \in {"asked", "acquire"}
        /\ \A r \in Launches \ {p} : UNCHANGED <<pc[r], left[r], acked[r]>>
    BY <2>1 DEF TypeOK
  <2>3. Turns(p)' = Turns(p) - 1
    BY <1>0, <2>1, <2>2 DEF Turns
  <2> QED
    BY <1>0, <2>1, <2>2, <2>3 DEF StepsLeft, StepsOfTurn
<1>5. CASE SendRequest(p) \/ GiveUp(p)
  <2>1. /\ UNCHANGED <<left, acked>>
        /\ \/ pc[p] = "request" /\ \E place \in {"waiting", "acquire"} : pc' = [pc EXCEPT ![p] = place]
           \/ pc[p] \in {"asked", "waiting"} /\ pc' = [pc EXCEPT ![p] = "acquire"]
    BY <1>5 DEF SendRequest, GiveUp, Exchange, Goto
  <2>2. /\ \/ pc[p] = "request" /\ pc'[p] \in {"waiting", "acquire"}
           \/ pc[p] \in {"asked", "waiting"} /\ pc'[p] = "acquire"
        /\ \A r \in Launches \ {p} : UNCHANGED <<pc[r], left[r], acked[r]>>
    BY <2>1 DEF TypeOK
  <2>3. Turns(p)' = Turns(p)
    BY <2>1 DEF Turns
  <2> QED
    BY <1>0, <2>2, <2>3 DEF StepsLeft, StepsOfTurn
<1>6. CASE Bind(p)
  <2>1. /\ pc[p] = "bind" /\ pc'[p] = "primary"
        /\ \A r \in Launches \ {p} : UNCHANGED <<pc[r], left[r], acked[r]>>
    BY <1>6 DEF Bind, Goto, TypeOK
  <2> QED
    BY <2>1 DEF StepsLeft
<1> QED
  BY <1>2, <1>3, <1>4, <1>5, <1>6 DEF Enter

\* An answer does not take its client further from the end
LEMMA AnswerDescends ==
    ASSUME TypeOK, TypeOK', NEW c \in Launches, pc[c] \in {"asked", "waiting"},
           \/ /\ pc' = [pc EXCEPT ![c] = "acquire"] /\ Extend(c)
              /\ acked' = [acked EXCEPT ![c] = TRUE]
           \/ /\ UNCHANGED <<left, acked>>
              /\ \/ \E place \in {"acquire", "activated"} : pc' = [pc EXCEPT ![c] = place]
                 \/ pc[c] = "asked" /\ pc' = [pc EXCEPT ![c] = "request"]
    PROVE  \A r \in Launches : StepsLeft(r)' <= StepsLeft(r)
<1>0. StepsLeft(c) \in Nat /\ Turns(c) \in Nat /\ left[c] \in Nat /\ Rounds \in Nat
  BY StepsLeftNat
<1>1. \A r \in Launches \ {c} : UNCHANGED <<pc[r], left[r], acked[r]>>
  BY DEF TypeOK, Extend
<1>2. ASSUME NEW r \in Launches \ {c} PROVE StepsLeft(r)' <= StepsLeft(r)
  <2>1. StepsLeft(r) \in Nat /\ StepsLeft(r)' = StepsLeft(r)
    BY <1>1, StepsLeftNat DEF StepsLeft, Turns
  <2> QED
    BY <2>1
<1>3. CASE pc' = [pc EXCEPT ![c] = "acquire"] /\ Extend(c) /\ acked' = [acked EXCEPT ![c] = TRUE]
  <2>1. pc'[c] = "acquire" /\ acked'[c] = TRUE /\ left'[c] = IF acked[c] THEN left[c] ELSE Rounds
    BY <1>3 DEF TypeOK, Extend
  <2>2. Turns(c)' <= Turns(c) /\ Turns(c)' \in Nat
    BY <1>0, <2>1 DEF Turns
  <2> QED
    BY <1>0, <1>2, <2>1, <2>2 DEF StepsLeft, StepsOfTurn, Waiting
<1>4. CASE /\ UNCHANGED <<left, acked>>
           /\ \/ \E place \in {"acquire", "activated"} : pc' = [pc EXCEPT ![c] = place]
              \/ pc[c] = "asked" /\ pc' = [pc EXCEPT ![c] = "request"]
  <2>1. /\ pc'[c] \in {"acquire", "activated"} \/ (pc[c] = "asked" /\ pc'[c] = "request")
        /\ Turns(c)' = Turns(c)
    BY <1>4 DEF TypeOK, Turns
  <2> QED
    BY <1>0, <1>2, <2>1 DEF StepsLeft, StepsOfTurn, Waiting
<1> QED
  BY <1>3, <1>4

\* The service thread of an instance takes no launch further from the end
LEMMA ServeDescends ==
    ASSUME Inv, TypeOK', NEW q \in Launches, Serve(q)
    PROVE  \A r \in Launches : StepsLeft(r)' <= StepsLeft(r)
<1>0. TypeOK
  BY DEF Inv
<1> USE DEF client, service
<1>1. ASSUME UNCHANGED <<pc, left, acked>> PROVE \A r \in Launches : StepsLeft(r)' <= StepsLeft(r)
  <2>1. \A r \in Launches : StepsLeft(r)' = StepsLeft(r)
    BY <1>1 DEF StepsLeft, Turns
  <2> QED
    BY <1>0, <2>1, StepsLeftNat
<1>2. CASE ServeStatus(q)
  <2>1. Accepts(q) /\ Head1(q).op = "status"
    BY <1>2 DEF ServeStatus
  <2>2. CASE ~Head1(q).live
    BY <1>1, <1>2, <2>2 DEF ServeStatus, HearNothing
  <2>3. CASE Head1(q).live
    <3> PICK c \in Launches : c = Head1(q).from
      BY <2>1, HeadFacts
    <3>1. pc[c] = "asked"
      BY <2>1, <2>3, HeadFacts DEF SlotOK
    <3>2. \/ /\ pc' = [pc EXCEPT ![c] = "acquire"] /\ Extend(c)
             /\ acked' = [acked EXCEPT ![c] = TRUE]
          \/ /\ UNCHANGED <<left, acked>>
             /\ pc' = [pc EXCEPT ![c] = IF MustWait(c, q) THEN "acquire" ELSE "request"]
      BY <1>2, <2>3 DEF ServeStatus, HearClosing, Goto
    <3> QED
      BY <1>0, <3>1, <3>2, AnswerDescends
  <2> QED
    BY <2>2, <2>3
<1>3. CASE ServeStale(q)
  <2>1. Accepts(q)
    BY <1>3 DEF ServeStale
  <2>2. CASE ~Head1(q).live
    BY <1>1, <1>3, <2>2 DEF ServeStale
  <2>3. CASE Head1(q).live
    <3> PICK c \in Launches : c = Head1(q).from
      BY <2>1, HeadFacts
    <3>1. pc[c] \in {"asked", "waiting"}
      BY <2>1, <2>3, HeadFacts
    <3>2. UNCHANGED <<left, acked>> /\ pc' = [pc EXCEPT ![c] = "acquire"]
      BY <1>3, <2>3 DEF ServeStale
    <3> QED
      BY <1>0, <3>1, <3>2, AnswerDescends
  <2> QED
    BY <2>2, <2>3
<1>4. CASE ServeActivate(q)
  <2>1. Accepts(q)
    BY <1>4 DEF ServeActivate
  <2>2. CASE ~Head1(q).live
    BY <1>1, <1>4, <2>2 DEF ServeActivate, HearNothing
  <2>3. CASE Head1(q).live
    <3> PICK c \in Launches : c = Head1(q).from
      BY <2>1, HeadFacts
    <3>1. pc[c] \in {"asked", "waiting"}
      BY <2>1, <2>3, HeadFacts
    <3>2. \/ UNCHANGED <<left, acked>> /\ pc' = [pc EXCEPT ![c] = "activated"]
          \/ /\ pc' = [pc EXCEPT ![c] = "acquire"] /\ Extend(c)
             /\ acked' = [acked EXCEPT ![c] = TRUE]
      BY <1>4, <2>3 DEF ServeActivate, Goto
    <3> QED
      BY <1>0, <3>1, <3>2, AnswerDescends
  <2> QED
    BY <2>2, <2>3
<1>5. CASE ServeReplace(q) \/ Snapshot(q) \/ Fallback(q) \/ Stop(q)
  BY <1>1, <1>5 DEF ServeReplace, Snapshot, Fallback, Stop
<1>6. CASE Answer(q)
  <2>1. CASE ~req[q].live
    BY <1>1, <1>6, <2>1 DEF Answer, HearNothing
  <2>2. CASE req[q].live
    <3> PICK c \in Launches : c = req[q].from
      BY <1>0 DEF TypeOK, Requests
    <3>1. Held(q, 0) /\ Slot(q, 0) = req[q]
      BY <1>6 DEF Answer, Held, Slot, Serving
    <3>2. pc[c] \in {"asked", "waiting"}
      BY <2>2, <3>1, SenderWaits DEF Inv
    <3>3. /\ pc' = [pc EXCEPT ![c] = "acquire"] /\ Extend(c)
          /\ acked' = [acked EXCEPT ![c] = TRUE]
      BY <1>6, <2>2 DEF Answer, HearClosing, Goto
    <3> QED
      BY <1>0, <3>2, <3>3, AnswerDescends
  <2> QED
    BY <2>1, <2>2
<1> QED
  BY <1>2, <1>3, <1>4, <1>5, <1>6 DEF Serve

\* No launch waits for ever: every step that it takes in enter() brings it nearer to the end, and
\* nothing that the other processes do or answer takes it away again, for the deadline is
\* extended once (extended in enter())
THEOREM WaitsCountDown ==
    Spec => [][\A p \in Launches : /\ StepsLeft(p) \in Nat /\ StepsLeft(p)' <= StepsLeft(p)
                                   /\ Enter(p) => StepsLeft(p)' < StepsLeft(p)]_vars
<1> DEFINE Descends == \A p \in Launches : /\ StepsLeft(p) \in Nat /\ StepsLeft(p)' <= StepsLeft(p)
                                           /\ Enter(p) => StepsLeft(p)' < StepsLeft(p)
<1>1. Inv /\ Inv' /\ [Next]_vars => [Descends]_vars
  <2> SUFFICES ASSUME Inv, Inv', Next PROVE Descends
    OBVIOUS
  <2>0. TypeOK /\ TypeOK'
    BY DEF Inv
  <2>1. ASSUME NEW p \in Launches PROVE StepsLeft(p) \in Nat /\ StepsLeft(p)' \in Nat
    <3>1. StepsLeft(p) \in Nat
      BY <2>0, StepsLeftNat
    <3>2. left'[p] \in Nat /\ Rounds \in Nat
      BY <2>0, BoundsAssumption DEF TypeOK
    <3> QED
      BY <3>1, <3>2 DEF StepsLeft, StepsOfTurn, Turns
  <2>2. ASSUME NEW p \in Launches, UNCHANGED <<pc[p], left[p], acked[p]>>
        PROVE  StepsLeft(p)' = StepsLeft(p)
    BY <2>2 DEF StepsLeft, Turns
  <2>3. \A p \in Launches : Enter(p) => StepsLeft(p)' < StepsLeft(p)
    BY <2>0, EnterDescends
  <2>4. \A p \in Launches : StepsLeft(p)' <= StepsLeft(p)
    <3>1. ASSUME NEW p \in Launches, Enter(p) PROVE \A r \in Launches : StepsLeft(r)' <= StepsLeft(r)
      <4>1. \A r \in Launches \ {p} : StepsLeft(r)' = StepsLeft(r)
        BY <2>0, <2>2, <3>1, EnterDescends
      <4>2. StepsLeft(p)' < StepsLeft(p)
        BY <2>3, <3>1
      <4> QED
        BY <2>1, <4>1, <4>2
    <3>2. ASSUME NEW q \in Launches, Serve(q) PROVE \A r \in Launches : StepsLeft(r)' <= StepsLeft(r)
      BY <2>0, <3>2, ServeDescends
    <3>3. ASSUME NEW q \in Launches, Live(q) PROVE \A r \in Launches : StepsLeft(r)' <= StepsLeft(r)
      <4>1. UNCHANGED <<left, acked>>
        BY <3>3 DEF Live, StartStream, ClearHandoff, EndStream, ResumeFails, UserQuit, Die, client
      <4>2. LivesAs(q)
        BY <2>0, <3>3, LiveShape
      <4>3. \A r \in Launches : pc'[r] = pc[r] \/ (pc[r] = "primary" /\ pc'[r] = "dead")
        BY <2>0, <4>2 DEF LivesAs, TypeOK
      <4>4. \A r \in Launches : StepsLeft(r)' = StepsLeft(r)
        BY <4>1, <4>3 DEF StepsLeft, Turns, Waiting
      <4> QED
        BY <2>1, <4>4
    <3>4. CASE UNCHANGED vars
      <4>1. UNCHANGED <<pc, left, acked>>
        BY <3>4 DEF vars, client
      <4> QED
        BY <2>1, <2>2, <4>1
    <3> QED
      BY <3>1, <3>2, <3>3, <3>4 DEF Next, Ended
  <2> QED
    BY <2>1, <2>3, <2>4
<1> QED
  BY <1>1, Invariance, PTL DEF Spec

-----------------------------------------------------------------------------
(* The two looks of the service thread *)

\* Between its look at the stream and its look at what was to be resumed, the latter can only
\* be cleared
InvLooks ==
    \A q \in Launches :
        /\ srv[q] = "fallback" => captured[q] = NoTarget /\ handoff[q] \in {had[q], NoTarget}
        /\ srv[q] = "answer" => captured[q] \in {had[q], NoTarget}

LEMMA LooksStep ==
    ASSUME Inv, InvHolder, InvLooks, [Next]_vars
    PROVE  InvLooks'
<1> USE DEF client, service
<1> DEFINE Looks(q) == /\ srv[q] = "fallback" => captured[q] = NoTarget /\ handoff[q] \in {had[q], NoTarget}
                       /\ srv[q] = "answer" => captured[q] \in {had[q], NoTarget}
<1>0. TypeOK
  BY DEF Inv
<1>1. ASSUME NEW p \in Launches, Enter(p) PROVE InvLooks'
  <2>1. EntersAs(p) /\ had' = had
    BY <1>0, <1>1, EnterShape DEF Enter, Interrupted, TakeLock, TimeOut, AskStatus, SendRequest, GiveUp,
                                  Bind, BindFails
  <2>2. srv[p] = "accept" /\ UNCHANGED <<srv, captured>> /\ \A r \in Launches \ {p} : handoff'[r] = handoff[r]
    BY <2>1 DEF EntersAs, OthersWait, InvHolder
  <2> QED
    BY <2>1, <2>2 DEF InvLooks
<1>2. ASSUME NEW q \in Launches, Live(q) PROVE InvLooks'
  <2>1. CASE Die(q)
    <3>1. srv'[q] = "accept" /\ captured' = captured /\ \A r \in Launches \ {q} :
              srv'[r] = srv[r] /\ handoff'[r] = handoff[r] /\ had'[r] = had[r]
      BY <1>0, <2>1 DEF Die, TypeOK
    <3> QED
      BY <3>1 DEF InvLooks
  <2>2. CASE ~Die(q)
    <3>1. UNCHANGED <<srv, captured, had>> /\ handoff' \in {handoff, [handoff EXCEPT ![q] = NoTarget]}
      BY <1>2, <2>2 DEF Live, StartStream, ClearHandoff, EndStream, ResumeFails, UserQuit
    <3>2. \A r \in Launches : handoff'[r] \in {handoff[r], NoTarget}
      BY <1>0, <3>1 DEF TypeOK
    <3> QED
      BY <3>1, <3>2 DEF InvLooks
  <2> QED
    BY <2>1, <2>2
<1>3. ASSUME NEW q \in Launches, Serve(q) PROVE InvLooks'
  <2>1. ASSUME UNCHANGED <<captured, had>>, \A r \in Launches : srv'[r] \in {"fallback", "answer"} => srv'[r] = srv[r]
        PROVE  InvLooks'
    <3>1. ASSUME NEW r \in Launches, srv[r] = "fallback" PROVE handoff'[r] = handoff[r]
      <4>1. pc[r] \notin Waiting
        BY <3>1 DEF InvHolder
      <4>2. ServesAs(q)
        BY <1>3, ServeShape
      <4> QED
        BY <4>1, <4>2 DEF ServesAs, AnswersAs, OthersWait
    <3> QED
      BY <2>1, <3>1 DEF InvLooks
  <2>2. CASE Snapshot(q)
    <3>1. /\ captured'[q] = stream[q] /\ handoff' = handoff
          /\ had'[q] = IF stream[q] # NoTarget THEN stream[q] ELSE handoff[q]
          /\ srv'[q] = IF stream[q] # NoTarget THEN "answer" ELSE "fallback"
          /\ \A r \in Launches \ {q} : UNCHANGED <<captured[r], had[r], srv[r]>>
      BY <1>0, <2>2 DEF Snapshot, TypeOK
    <3> QED
      BY <3>1 DEF InvLooks
  <2>3. CASE Fallback(q)
    <3>1. /\ captured'[q] = handoff[q] /\ handoff' = handoff /\ had' = had
          /\ srv[q] = "fallback" /\ srv'[q] = "answer"
          /\ \A r \in Launches \ {q} : UNCHANGED <<captured[r], srv[r]>>
      BY <1>0, <2>3 DEF Fallback, TypeOK
    <3> QED
      BY <3>1 DEF InvLooks
  <2>4. CASE Answer(q)
    <3>1. /\ captured' = captured /\ srv'[q] \in {"stop", "accept"}
          /\ \A r \in Launches \ {q} : UNCHANGED <<had[r], srv[r]>>
      BY <1>0, <2>4 DEF Answer, TypeOK
    <3>2. ASSUME NEW r \in Launches, srv[r] = "fallback" PROVE handoff'[r] = handoff[r]
      <4>1. pc[r] \notin Waiting
        BY <3>2 DEF InvHolder
      <4>2. ServesAs(q)
        BY <1>3, ServeShape
      <4> QED
        BY <4>1, <4>2 DEF ServesAs, AnswersAs, OthersWait
    <3> QED
      BY <3>1, <3>2 DEF InvLooks
  <2>5. CASE ServeReplace(q) \/ Stop(q)
    <3>1. UNCHANGED <<captured, had>> /\ \E place \in {"snapshot", "late", "accept"} :
              srv' = [srv EXCEPT ![q] = place]
      BY <2>5 DEF ServeReplace, Stop
    <3> QED
      BY <1>0, <2>1, <3>1 DEF TypeOK
  <2>6. CASE ServeStatus(q) \/ ServeStale(q) \/ ServeActivate(q)
    <3>1. UNCHANGED <<captured, had, srv>>
      BY <2>6 DEF ServeStatus, ServeStale, ServeActivate
    <3> QED
      BY <2>1, <3>1
  <2> QED
    BY <1>3, <2>2, <2>3, <2>4, <2>5, <2>6 DEF Serve
<1>4. CASE UNCHANGED vars
  BY <1>4 DEF vars, InvLooks
<1> QED
  BY <1>1, <1>2, <1>3, <1>4 DEF Next, Ended

\* An instance that gives way hands on the session that was there when its service thread began
\* to look, or none: never another one (the snapshot and its fallback in serve(); that it can
\* be none is PendingHandoffKept, which fails)
THEOREM NoOtherHandedOn ==
    Spec => [](\A q \in Launches : srv[q] = "answer" => captured[q] \in {had[q], NoTarget})
<1>1. Init => InvLooks
  BY DEF Init, InvLooks
<1>2. Inv /\ InvHolder /\ InvLooks /\ [Next]_vars => InvLooks'
  BY LooksStep
<1>3. InvLooks => \A q \in Launches : srv[q] = "answer" => captured[q] \in {had[q], NoTarget}
  BY DEF InvLooks
<1> QED
  BY HolderInvariance, <1>1, <1>2, <1>3, PTL DEF Spec

=============================================================================
