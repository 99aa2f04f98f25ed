----------------------------- MODULE SharedCheck -----------------------------
(***************************************************************************)
(* What the update repository promises whoever asks it for a check: there  *)
(* is one check at a time and every request takes part in it; it is        *)
(* skipped only if nobody who insists had asked before that was decided;   *)
(* whoever waits is told how that check ended, and not how another one did;*)
(* and once the repository is closed no check begins, nor asks the source. *)
(***************************************************************************)
CONSTANTS Releases, NoRelease

VARIABLES
    stage,      \* of the check: none, requested, asking the source, over
    insisted,   \* somebody who insists asked before it was decided whether to ask the source
    ending,     \* how the check that is over ended
    waiter,     \* who waits for an answer: nobody, waiting, told
    told,       \* how the check ended that the waiter was told of
    closed

checkVars == <<stage, insisted, ending, waiter, told, closed>>

Ending(kind, r) == [kind |-> kind, rel |-> r]
Open == Ending("open", NoRelease)

Init ==
    /\ stage = "none" /\ ~insisted /\ ending = Open
    /\ waiter = "nobody" /\ told = Open /\ ~closed

\* A request that insists counts as long as nothing is decided
Request(force) ==
    /\ ~closed
    /\ stage' = IF stage = "none" THEN "requested" ELSE stage
    /\ insisted' = (insisted \/ (force /\ stage' = "requested"))
    /\ UNCHANGED <<ending, told, closed>>

\* Whoever waits insists
Wait == waiter = "nobody" /\ Request(TRUE) /\ waiter' = "waiting"

Tick == Request(FALSE) /\ UNCHANGED waiter

Ends(kind, r) ==
    /\ stage' = "over" /\ ~insisted'
    /\ ending' = Ending(kind, r)
    /\ UNCHANGED <<waiter, told, closed>>

Skip == stage = "requested" /\ ~closed /\ ~insisted /\ Ends("throttled", NoRelease)

AskSource ==
    /\ stage = "requested" /\ ~closed
    /\ stage' = "asking" /\ ~insisted'
    /\ UNCHANGED <<ending, waiter, told, closed>>

\* The source answers, or fails, which it may do while the repository is being closed
Conclude ==
    /\ stage = "asking"
    /\ \/ Ends("failed", NoRelease)
       \/ Ends("nothing", NoRelease)
       \/ \E r \in Releases : Ends("found", r)

CutOff == stage = "requested" /\ closed /\ Ends("failed", NoRelease)

\* The next request starts the next check only when whoever waited has its answer
Tell ==
    /\ stage = "over"
    /\ stage' = "none" /\ ending' = Open
    /\ waiter' = IF waiter = "waiting" THEN "told" ELSE waiter
    /\ told' = IF waiter = "waiting" THEN ending ELSE told
    /\ UNCHANGED <<insisted, closed>>

\* Nobody waits any more: the answer was taken, or the wait was cancelled
Leave ==
    /\ waiter # "nobody"
    /\ waiter' = "nobody" /\ told' = Open
    /\ UNCHANGED <<stage, insisted, ending, closed>>

Close == ~closed /\ closed' /\ UNCHANGED <<stage, insisted, ending, waiter, told>>

\* The next process of the application knows nothing of the check
Restart ==
    /\ stage' = "none" /\ ~insisted' /\ ending' = Open
    /\ waiter' = "nobody" /\ told' = Open /\ ~closed'

Next ==
    \/ Tick \/ Wait
    \/ Skip \/ AskSource \/ Conclude \/ CutOff
    \/ Tell \/ Leave
    \/ Close \/ Restart

Spec == Init /\ [][Next]_checkVars

=============================================================================
