------------------------------ MODULE LaunchGate ------------------------------
(***************************************************************************)
(* What POST /start_pcvr promises its clients: one request at a time may   *)
(* launch SteamVR, at most once and under an id that was not answered; a   *)
(* launch that was made ends with the answer STARTED, or keeps others out  *)
(* for as long as its lease; and what a request was told stands until it   *)
(* is forgotten.                                                           *)
(***************************************************************************)
EXTENDS Integers, FiniteSets

CONSTANTS
    Ids, Payloads,
    Cap,            \* answers remembered at most, the one to come included
    Nothing         \* no request has the gate, or no answer was given

VARIABLES
    phase,          \* of the gate: free, preparing, starting, over (the lease has run out)
    request,        \* the request that has it
    told            \* what each id was answered

gateVars == <<phase, request, told>>

Init ==
    /\ phase = "free" /\ request = Nothing
    /\ told = [i \in Ids |-> Nothing]

Unanswered(i) == told[i] = Nothing

Take(r) ==
    /\ phase \in {"free", "over"} /\ Unanswered(r.id)
    /\ Cardinality({i \in Ids : ~Unanswered(i)}) < Cap
    /\ phase' = "preparing" /\ request' = r
    /\ UNCHANGED told

Launch ==
    /\ phase = "preparing" /\ Unanswered(request.id)
    /\ phase' = "starting"
    /\ UNCHANGED <<request, told>>

\* A failure is only reported, and not remembered, when no launch was made.
Leave ==
    /\ phase \in {"preparing", "over"}
    /\ phase' = "free" /\ request' = Nothing
    /\ UNCHANGED told

Answer(outcome) ==
    /\ IF phase = "preparing" THEN outcome \in {"ALREADY_RUNNING", "RECONNECT_REQUIRED"}
       ELSE phase \in {"starting", "over"} /\ outcome = "STARTED"
    /\ Unanswered(request.id)
    /\ phase' = "free" /\ request' = Nothing
    /\ told' = [told EXCEPT ![request.id] = [payload |-> request.payload, outcome |-> outcome]]

Pass ==
    /\ phase' = phase \/ (phase = "starting" /\ phase' = "over")
    /\ \E forgotten \in SUBSET Ids :
         told' = [i \in Ids |-> IF i \in forgotten THEN Nothing ELSE told[i]]
    /\ UNCHANGED request

Next ==
    \/ \E r \in [id : Ids, payload : Payloads] : Take(r)
    \/ Launch \/ Leave \/ Pass
    \/ \E o \in {"STARTED", "ALREADY_RUNNING", "RECONNECT_REQUIRED"} : Answer(o)

Spec == Init /\ [][Next]_gateVars

=============================================================================
