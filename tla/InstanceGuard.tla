---------------------------- MODULE InstanceGuard ----------------------------
(***************************************************************************)
(* The single instance of src/app/backend/instanceguard.cpp: a launched    *)
(* process takes the flock and serves a control socket, or asks the        *)
(* process that holds it to come forward or to give way.  A process that   *)
(* gives way hands on the session to resume.                               *)
(*                                                                         *)
(* Processes are numbered in the order of launchTimeNs; the number is also *)
(* the generation.  All are in enter() from the start, at its first step.   *)
(* The service thread takes one request at a time; a                      *)
(* client may give up after its second while its request is still served.  *)
(***************************************************************************)
EXTENDS Integers, Sequences

CONSTANTS
    NumLaunches,    \* processes launched
    Rounds,         \* turns of the loop of enter() that fit in six seconds
    Targets,        \* what can be streamed: a host and an application
    NoTarget        \* a StreamHandoff that is not valid

ASSUME BoundsAssumption == NumLaunches \in Nat /\ Rounds \in Nat \ {0}
ASSUME TargetAssumption == NoTarget \notin Targets

Launches == 1 .. NumLaunches
NoOne == 0

Handoffs == Targets \cup {NoTarget}
Waiting == {"acquire", "asked", "request", "waiting"}
Places == Waiting \cup {"bind", "primary", "activated", "failed", "dead"}

\* A request on the control socket; live while its client listens
Requests == [from : Launches, op : {"status", "activate", "replace"},
             gen : Launches \cup {NoOne}, live : BOOLEAN]

NoRequest(p) == [from |-> p, op |-> "status", gen |-> NoOne, live |-> FALSE]

VARIABLES
    pc,         \* where a process is in enter(), or after it
    gaming,     \* m_Gaming
    lock,       \* the holder of the flock
    observed,   \* the generation the first answer named
    replacing,  \* replacementSent
    acked,      \* acknowledged
    left,       \* rounds left before the deadline
    peer,       \* the generation of the last status
    handoff,    \* m_Handoff
    shut,       \* the reason of the process's ShutdownCoordinator
    stream,     \* what ActiveSessionRegistry::snapshot() returns
    starting,   \* exec() has registered its session, clearHandoff() comes next
    queue,      \* connections waiting for accept4()
    srv,        \* where the service thread is
    req,        \* the request it serves
    captured,   \* replacementHandoff
    \* History: who had the process replaced, who told a process that it closes,
    \* and what there was to hand on when the service thread began to look
    by, told, had

client == <<observed, replacing, acked, left, peer>>
service == <<queue, srv, req, captured, had>>
vars == <<pc, gaming, lock, client, handoff, shut, stream, starting, service, by, told>>

TypeOK ==
    /\ pc \in [Launches -> Places]
    /\ gaming \in [Launches -> BOOLEAN]
    /\ lock \in Launches \cup {NoOne}
    /\ observed \in [Launches -> Launches \cup {NoOne}]
    /\ replacing \in [Launches -> BOOLEAN]
    /\ acked \in [Launches -> BOOLEAN]
    /\ left \in [Launches -> 0 .. Rounds]
    /\ peer \in [Launches -> Launches \cup {NoOne}]
    /\ handoff \in [Launches -> Handoffs]
    /\ shut \in [Launches -> {"no", "quit", "replace"}]
    /\ stream \in [Launches -> Handoffs]
    /\ starting \in [Launches -> BOOLEAN]
    /\ queue \in [Launches -> Seq(Requests)]
    /\ srv \in [Launches -> {"accept", "snapshot", "fallback", "answer", "late", "stop"}]
    /\ req \in [Launches -> Requests]
    /\ captured \in [Launches -> Handoffs]
    /\ by \in [Launches -> Launches \cup {NoOne}]
    /\ told \in [Launches -> Launches \cup {NoOne}]
    /\ had \in [Launches -> Handoffs]

Init ==
    /\ pc = [p \in Launches |-> "acquire"]
    /\ gaming \in [Launches -> BOOLEAN]
    /\ lock = NoOne
    /\ observed = [p \in Launches |-> NoOne] /\ peer = observed
    /\ replacing = [p \in Launches |-> FALSE] /\ acked = replacing /\ starting = replacing
    /\ left = [p \in Launches |-> Rounds]
    /\ handoff = [p \in Launches |-> NoTarget]
    /\ stream = handoff /\ captured = handoff /\ had = handoff
    /\ shut = [p \in Launches |-> "no"]
    /\ queue = [p \in Launches |-> << >>]
    /\ srv = [p \in Launches |-> "accept"]
    /\ req = [p \in Launches |-> NoRequest(p)]
    /\ by = observed /\ told = observed

Goto(p, place) == pc' = [pc EXCEPT ![p] = place]

\* The locals of enter() are gone
Leave(p, place) ==
    /\ Goto(p, place)
    /\ left' = [left EXCEPT ![p] = 0]
    /\ acked' = [acked EXCEPT ![p] = FALSE]
    /\ replacing' = [replacing EXCEPT ![p] = FALSE]
    /\ peer' = [peer EXCEPT ![p] = NoOne]
    /\ observed' = observed

\* The process exits: what it was told is gone too
Fail(p) ==
    /\ Leave(p, "failed")
    /\ handoff' = [handoff EXCEPT ![p] = NoTarget]
    /\ told' = [told EXCEPT ![p] = NoOne]

-----------------------------------------------------------------------------
(* The client: enter() *)

\* A signal during the wait ends the loop
Interrupted(p) ==
    /\ pc[p] = "acquire"
    /\ shut' = [shut EXCEPT ![p] = "quit"]
    /\ Fail(p)
    /\ UNCHANGED <<gaming, lock, stream, starting, service, by>>

TakeLock(p) ==
    /\ pc[p] = "acquire" /\ lock = NoOne
    /\ lock' = p
    /\ Leave(p, "bind")
    /\ UNCHANGED <<gaming, handoff, shut, stream, starting, service, by, told>>

Expired(p) == left[p] = 0

TimeOut(p) ==
    /\ pc[p] = "acquire" /\ lock # NoOne /\ Expired(p)
    /\ Fail(p)
    /\ UNCHANGED <<gaming, lock, shut, stream, starting, service, by>>

\* exchange(): the request is queued at the process behind the socket, which is the holder of
\* the flock once it has bound it; or there is none, its backlog is full or the sending fails,
\* and the answer is empty
Exchange(p, op, gen, place) ==
    \/ /\ lock # NoOne /\ pc[lock] = "primary"
       /\ queue' = [queue EXCEPT ![lock] =
                        Append(@, [from |-> p, op |-> op, gen |-> gen, live |-> TRUE])]
       /\ Goto(p, place)
    \/ Goto(p, "acquire") /\ queue' = queue

AskStatus(p) ==
    /\ pc[p] = "acquire" /\ lock # NoOne /\ ~Expired(p)
    /\ left' = [left EXCEPT ![p] = @ - 1]
    /\ Exchange(p, "status", NoOne, "asked")
    /\ UNCHANGED <<gaming, lock, observed, replacing, acked, peer, handoff, shut, stream,
                   starting, srv, req, captured, had, by, told>>

\* Only a launch in Game Mode replaces, only an older instance in Game Mode, the one it saw
\* first, and it asks once
MayReplace(p, g) == gaming[p] /\ gaming[g] /\ ~replacing[p] /\ g = observed[p] /\ g < p

SendRequest(p) ==
    /\ pc[p] = "request"
    /\ LET replace == MayReplace(p, peer[p]) IN
         /\ replacing' = [replacing EXCEPT ![p] = @ \/ replace]
         /\ Exchange(p, IF replace THEN "replace" ELSE "activate", peer[p], "waiting")
    /\ UNCHANGED <<gaming, lock, observed, acked, left, peer, handoff, shut, stream,
                   starting, srv, req, captured, had, by, told>>

\* The second is over, or the other process died: whoever serves the request answers nobody
GiveUp(p) ==
    /\ pc[p] \in {"asked", "waiting"}
    /\ Goto(p, "acquire")
    /\ LET Left(m) == [m EXCEPT !.live = @ /\ m.from # p] IN
         /\ queue' = [q \in Launches |-> [i \in DOMAIN queue[q] |-> Left(queue[q][i])]]
         /\ req' = [q \in Launches |-> Left(req[q])]
    /\ UNCHANGED <<gaming, lock, client, handoff, shut, stream, starting, srv, captured,
                   had, by, told>>

\* startService(): unlinks the socket of an earlier instance and listens, with the flock held
Bind(p) ==
    /\ pc[p] = "bind"
    /\ Goto(p, "primary")
    /\ told' = [told EXCEPT ![p] = NoOne]
    /\ UNCHANGED <<gaming, lock, client, handoff, shut, stream, starting, service, by>>

\* startService() fails, before or after bind(): the process ends, and the kernel drops its flock
BindFails(p) ==
    /\ pc[p] = "bind"
    /\ lock' = NoOne
    /\ Fail(p)
    /\ UNCHANGED <<gaming, shut, stream, starting, service, by>>

-----------------------------------------------------------------------------
(* What an answer does to the client that waits for it *)

\* Bug: every answer of a closing instance extends the wait
BadExtend(p) == left' = [left EXCEPT ![p] = Rounds]
Extend(p) == left' = IF acked[p] THEN left ELSE [left EXCEPT ![p] = Rounds]

\* q said that it is closing: keep what it hands on, wait once more for the full time
HearClosing(p, q) ==
    /\ handoff' = [handoff EXCEPT ![p] = captured[q]]
    /\ Extend(p)
    /\ acked' = [acked EXCEPT ![p] = TRUE]
    /\ told' = [told EXCEPT ![p] = q]
    /\ Goto(p, "acquire")

HearNothing == UNCHANGED <<handoff, left, acked, told, pc>>

\* Bug: an instance asked to give way may be activated after all
BadMustWait(p, q) == FALSE
\* The replacement of q was asked for: wait for it, whatever became of the request
MustWait(p, q) == replacing[p] /\ q = observed'[p]

Head1(q) == Head(queue[q])
Accepts(q) == pc[q] = "primary" /\ srv[q] = "accept" /\ queue[q] # << >>
Dequeue(q) == queue' = [queue EXCEPT ![q] = Tail(@)]

-----------------------------------------------------------------------------
(* The service thread: serve() *)

ServeStatus(q) ==
    /\ Accepts(q) /\ Head1(q).op = "status"
    /\ Dequeue(q)
    /\ LET p == Head1(q).from IN
         IF ~Head1(q).live THEN HearNothing /\ UNCHANGED <<observed, peer>>
         ELSE /\ observed' = [observed EXCEPT ![p] = IF @ = NoOne THEN q ELSE @]
              /\ peer' = [peer EXCEPT ![p] = q]
              /\ IF shut[q] # "no" THEN HearClosing(p, q)
                 ELSE /\ Goto(p, IF MustWait(p, q) THEN "acquire" ELSE "request")
                      /\ UNCHANGED <<handoff, left, acked, told>>
    /\ UNCHANGED <<gaming, lock, replacing, shut, stream, starting, srv, req, captured,
                   had, by>>

\* Bug: the generation of a request is not compared
BadMeantFor(q, m) == TRUE
MeantFor(q, m) == m.gen = q

\* The request was meant for an earlier holder of the socket
ServeStale(q) ==
    /\ Accepts(q) /\ Head1(q).op # "status" /\ ~MeantFor(q, Head1(q))
    /\ Dequeue(q)
    /\ pc' = IF Head1(q).live THEN [pc EXCEPT ![Head1(q).from] = "acquire"] ELSE pc
    /\ UNCHANGED <<gaming, lock, client, handoff, shut, stream, starting, srv, req,
                   captured, had, by, told>>

Replaces(q, m) == MeantFor(q, m) /\ m.op = "replace" /\ gaming[q]

ServeActivate(q) ==
    /\ Accepts(q) /\ Head1(q).op # "status" /\ MeantFor(q, Head1(q)) /\ ~Replaces(q, Head1(q))
    /\ Dequeue(q)
    /\ LET p == Head1(q).from IN
         IF ~Head1(q).live THEN HearNothing
         ELSE IF shut[q] = "no" THEN Goto(p, "activated") /\ UNCHANGED <<handoff, left, acked, told>>
         \* an answer to "activate" names no target
         ELSE /\ handoff' = [handoff EXCEPT ![p] = NoTarget]
              /\ Extend(p)
              /\ acked' = [acked EXCEPT ![p] = TRUE]
              /\ told' = [told EXCEPT ![p] = NoOne]
              /\ Goto(p, "acquire")
    /\ UNCHANGED <<gaming, lock, observed, replacing, peer, shut, stream, starting, srv,
                   req, captured, had, by>>

\* Bug: what to hand on is looked up again when the instance is already closing
BadCaptures(q) == TRUE
Captures(q) == shut[q] = "no"

ServeReplace(q) ==
    /\ Accepts(q) /\ Replaces(q, Head1(q))
    /\ Dequeue(q)
    /\ req' = [req EXCEPT ![q] = Head1(q)]
    /\ srv' = [srv EXCEPT ![q] = IF Captures(q) THEN "snapshot" ELSE "late"]
    /\ UNCHANGED <<pc, gaming, lock, client, handoff, shut, stream, starting, captured,
                   had, by, told>>

Snapshot(q) ==
    /\ pc[q] = "primary" /\ srv[q] = "snapshot"
    /\ captured' = [captured EXCEPT ![q] = stream[q]]
    /\ had' = [had EXCEPT ![q] = IF stream[q] # NoTarget THEN stream[q] ELSE handoff[q]]
    /\ srv' = [srv EXCEPT ![q] = IF stream[q] # NoTarget THEN "answer" ELSE "fallback"]
    /\ UNCHANGED <<pc, gaming, lock, client, handoff, shut, stream, starting, queue, req,
                   by, told>>

\* No session: the one this instance was itself to resume
Fallback(q) ==
    /\ pc[q] = "primary" /\ srv[q] = "fallback"
    /\ captured' = [captured EXCEPT ![q] = handoff[q]]
    /\ srv' = [srv EXCEPT ![q] = "answer"]
    /\ UNCHANGED <<pc, gaming, lock, client, handoff, shut, stream, starting, queue, req,
                   had, by, told>>

\* The answer goes out before anything is torn down
Answer(q) ==
    /\ pc[q] = "primary" /\ srv[q] \in {"answer", "late"}
    /\ srv' = [srv EXCEPT ![q] = IF @ = "answer" THEN "stop" ELSE "accept"]
    /\ IF req[q].live THEN HearClosing(req[q].from, q) ELSE HearNothing
    /\ had' = [had EXCEPT ![q] = NoTarget]
    /\ UNCHANGED <<gaming, lock, observed, replacing, peer, shut, stream, starting, queue,
                   req, captured, by>>

\* requestShutdown(ReplaceRequest): the first reason stands
Stop(q) ==
    /\ pc[q] = "primary" /\ srv[q] = "stop"
    /\ srv' = [srv EXCEPT ![q] = "accept"]
    /\ IF shut[q] = "no" THEN /\ shut' = [shut EXCEPT ![q] = "replace"]
                              /\ by' = [by EXCEPT ![q] = req[q].from]
                         ELSE UNCHANGED <<shut, by>>
    /\ UNCHANGED <<pc, gaming, lock, client, handoff, stream, starting, queue, req,
                   captured, had, told>>

-----------------------------------------------------------------------------
(* The rest of the process *)

\* Session::exec() registers, and then clears the handoff
StartStream(q, t) ==
    /\ pc[q] = "primary" /\ stream[q] = NoTarget /\ ~starting[q]
    /\ stream' = [stream EXCEPT ![q] = t]
    /\ starting' = [starting EXCEPT ![q] = TRUE]
    /\ UNCHANGED <<pc, gaming, lock, client, handoff, shut, service, by, told>>

ClearHandoff(q) ==
    /\ pc[q] = "primary" /\ starting[q]
    /\ handoff' = [handoff EXCEPT ![q] = NoTarget]
    /\ starting' = [starting EXCEPT ![q] = FALSE]
    /\ UNCHANGED <<pc, gaming, lock, client, shut, stream, service, by, told>>

\* The session is unregistered and no recovery is kept, or no longer
EndStream(q) ==
    /\ pc[q] = "primary" /\ stream[q] # NoTarget /\ ~starting[q]
    /\ stream' = [stream EXCEPT ![q] = NoTarget]
    /\ UNCHANGED <<pc, gaming, lock, client, handoff, shut, starting, service, by, told>>

\* The launcher of the handed-on session gives up
ResumeFails(q) ==
    /\ pc[q] = "primary" /\ handoff[q] # NoTarget /\ ~starting[q]
    /\ handoff' = [handoff EXCEPT ![q] = NoTarget]
    /\ UNCHANGED <<pc, gaming, lock, client, shut, stream, starting, service, by, told>>

UserQuit(p) ==
    /\ pc[p] = "primary" /\ shut[p] = "no"
    /\ shut' = [shut EXCEPT ![p] = "quit"]
    /\ UNCHANGED <<pc, gaming, lock, client, handoff, stream, starting, service, by, told>>

\* The instance ends, in good order or not; its memory is gone and the kernel drops its flock
\* and its connections
Die(p) ==
    /\ pc[p] = "primary"
    /\ Goto(p, "dead")
    /\ lock' = NoOne
    /\ handoff' = [handoff EXCEPT ![p] = NoTarget]
    /\ stream' = [stream EXCEPT ![p] = NoTarget]
    /\ starting' = [starting EXCEPT ![p] = FALSE]
    /\ queue' = [queue EXCEPT ![p] = << >>]
    /\ srv' = [srv EXCEPT ![p] = "accept"]
    /\ req' = [req EXCEPT ![p] = NoRequest(p)]
    /\ had' = [had EXCEPT ![p] = NoTarget]
    /\ told' = [told EXCEPT ![p] = NoOne]
    /\ UNCHANGED <<gaming, client, shut, captured, by>>

\* Nobody is left to act
Ended ==
    /\ \A p \in Launches : pc[p] \in {"activated", "failed", "dead"}
    /\ UNCHANGED vars

Enter(p) ==
    \/ Interrupted(p) \/ TakeLock(p) \/ TimeOut(p) \/ AskStatus(p) \/ SendRequest(p)
    \/ GiveUp(p) \/ Bind(p) \/ BindFails(p)

Serve(q) ==
    \/ ServeStatus(q) \/ ServeStale(q) \/ ServeActivate(q) \/ ServeReplace(q)
    \/ Snapshot(q) \/ Fallback(q) \/ Answer(q) \/ Stop(q)

Live(q) ==
    \/ \E t \in Targets : StartStream(q, t)
    \/ ClearHandoff(q) \/ EndStream(q) \/ ResumeFails(q) \/ UserQuit(q) \/ Die(q)

Next == (\E p \in Launches : Enter(p) \/ Serve(p) \/ Live(p)) \/ Ended

\* Processes in enter() go on, in some order: their waits all have deadlines.  Nothing is assumed of the
\* process it asks, which may hang.
Spec == Init /\ [][Next]_vars /\ WF_vars(\E p \in Launches : Enter(p))

-----------------------------------------------------------------------------
(* The single instance its users see.                                      *)

Over == {p \in Launches : pc[p] \in {"activated", "failed", "dead"}}

\* The holder of the flock tells whoever asks from now on that it closes
Closing == /\ lock # NoOne
           /\ srv[lock] = "stop" \/ (shut[lock] # "no" /\ srv[lock] \in {"accept", "late"})

OfHolder(f) == IF lock = NoOne THEN NoTarget ELSE f[lock]

HeardFrom == [p \in Launches |-> IF pc[p] \in Waiting THEN told[p] ELSE NoOne]

Users == INSTANCE Succession
           WITH instance <- lock, closing <- Closing, streams <- OfHolder(stream),
                resumes <- OfHolder(handoff), ended <- Over, legacy <- captured, heard <- HeardFrom

-----------------------------------------------------------------------------

(* The processes together are one instance and its succession (Succession): a launch ends   *)
(* as activated only while there is an instance that is not closing; an instance is         *)
(* replaced only by a later launch, both in Game Mode; and whoever takes over follows the   *)
(* instance that told it, once that has ended, and resumes what it left, which was decided  *)
(* before anybody was told and was its stream or the one to come.                           *)
ImplementsSuccession == Users!Spec

(* An instance is replaced only by the launch that was started later, saw it first and      *)
(* runs in Game Mode as it does; a launch never has two instances replaced.  A request      *)
(* that arrives after the socket changed hands must not close the instance it reaches       *)
(* (MayReplace in enter(), the generation compared in serve()).                             *)
ReplacesOlder ==
    \A q \in Launches : by[q] # NoOne =>
        /\ q < by[q] /\ observed[by[q]] = q
        /\ gaming[q] /\ gaming[by[q]]

(* A launch that asked an instance to give way never ends by activating it, even if the     *)
(* request or its answer was lost: that instance may be closing (replacementSent).          *)
NeverActivatesReplaced ==
    \A p \in Launches : pc[p] = "activated" => ~(replacing[p] /\ peer[p] = observed[p])

(* The launch that takes over from an instance that told it that it closes resumes what     *)
(* that instance captured when it was first asked, whoever asked and however many asked:    *)
(* serve() looks only once.                                                                 *)
HandoffKept ==
    \A p \in Launches : (told[p] # NoOne /\ pc[p] \in Waiting \cup {"bind"}) =>
        handoff[p] = captured[told[p]]

(* test_process_lifecycle.py:115 says that a replacement during a pending handoff keeps its *)
(* target: an instance about to resume a session, or in it, when the service thread begins  *)
(* to look, and in it still when it answers, hands that session on.                         *)
PendingHandoffKept ==
    \A q \in Launches : (srv[q] = "answer" /\ had[q] # NoTarget /\ stream[q] = had[q]) =>
        captured[q] = had[q]

(* Launches end: each is the primary instance, activated one, or gave up, however the       *)
(* instance it waits for behaves, for the deadline is extended once.                        *)
LaunchesEnd == <>[](\A p \in Launches : pc[p] \notin Waiting \cup {"bind"})

=============================================================================
