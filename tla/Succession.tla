------------------------------ MODULE Succession ------------------------------
(***************************************************************************)
(* What the single instance promises whoever launches the application: one *)
(* process at a time is the instance.  A launch brings it forward, unless  *)
(* it is closing, or takes over once it has ended; the launch that was     *)
(* told that it closes resumes what the instance left, which was settled   *)
(* before anybody was told.                                                *)
(***************************************************************************)
EXTENDS Integers

CONSTANTS
    NumLaunches, Targets,
    NoTarget, NoOne

Launches == 1 .. NumLaunches

VARIABLES
    gaming,     \* which launches run in Game Mode
    instance,   \* the process that is the instance
    closing,    \* it will end, and takes nobody in any more
    streams,    \* what it streams, and
    resumes,    \* what it took over and is to resume
    ended,      \* the processes that are over
    legacy,     \* what a process leaves to the one after it
    by,         \* the launch that had a process replaced
    heard       \* the instance that told a waiting launch that it closes

successionVars == <<gaming, instance, closing, streams, resumes, ended, legacy, by, heard>>

Init ==
    /\ gaming \in [Launches -> BOOLEAN]
    /\ instance = NoOne /\ closing = FALSE /\ ended = {}
    /\ streams = NoTarget /\ resumes = NoTarget
    /\ legacy = [p \in Launches |-> NoTarget]
    /\ by = [p \in Launches |-> NoOne] /\ heard = by

Waits(p) == p \notin ended /\ p # instance

Hears(p, q) == heard' = [heard EXCEPT ![p] = q]

\* The launch that was told waits for the end of that very instance
Take(p) ==
    /\ instance = NoOne /\ Waits(p)
    /\ heard[p] \in ended \cup {NoOne}
    /\ instance' = p /\ Hears(p, NoOne)
    /\ resumes' = IF heard[p] = NoOne THEN NoTarget ELSE legacy[heard[p]]
    /\ UNCHANGED <<gaming, closing, streams, ended, legacy, by>>

Activate(p) ==
    /\ instance # NoOne /\ ~closing /\ Waits(p)
    /\ ended' = ended \cup {p} /\ Hears(p, NoOne)
    /\ UNCHANGED <<gaming, instance, closing, streams, resumes, legacy, by>>

GiveUp(p) ==
    /\ Waits(p)
    /\ ended' = ended \cup {p} /\ Hears(p, NoOne)
    /\ UNCHANGED <<gaming, instance, closing, streams, resumes, legacy, by>>

\* Only before it closes an instance decides what it leaves: a stream, or the one to come
Look ==
    /\ instance # NoOne /\ ~closing
    /\ \E t \in {streams, resumes} : legacy' = [legacy EXCEPT ![instance] = t]
    /\ UNCHANGED <<gaming, instance, closing, streams, resumes, ended, by, heard>>

Close ==
    /\ instance # NoOne
    /\ closing' = TRUE
    /\ heard' = heard \/ \E p \in Launches : Waits(p) /\ Hears(p, instance)
    /\ UNCHANGED <<gaming, instance, streams, resumes, ended, legacy, by>>

\* A launch that was told may be told by a later answer that there is nothing to resume
Forget(p) ==
    /\ instance # NoOne /\ closing /\ Waits(p)
    /\ Hears(p, NoOne)
    /\ UNCHANGED <<gaming, instance, closing, streams, resumes, ended, legacy, by>>

\* For one launch, which came later, when both run in Game Mode
Replace(p) ==
    /\ instance # NoOne /\ closing
    /\ by[instance] = NoOne /\ instance < p /\ gaming[instance] /\ gaming[p]
    /\ by' = [by EXCEPT ![instance] = p]
    /\ UNCHANGED <<gaming, instance, closing, streams, resumes, ended, legacy, heard>>

Stream ==
    /\ instance # NoOne
    /\ \/ streams = NoTarget /\ streams' \in Targets /\ UNCHANGED resumes
       \/ streams' = NoTarget /\ UNCHANGED resumes
       \/ resumes' = NoTarget /\ UNCHANGED streams
    /\ UNCHANGED <<gaming, instance, closing, ended, legacy, by, heard>>

End ==
    /\ instance # NoOne
    /\ instance' = NoOne /\ closing' = FALSE /\ ended' = ended \cup {instance}
    /\ streams' = NoTarget /\ resumes' = NoTarget
    /\ UNCHANGED <<gaming, legacy, by, heard>>

Next ==
    \/ \E p \in Launches : Take(p) \/ Activate(p) \/ GiveUp(p) \/ Forget(p) \/ Replace(p)
    \/ Look \/ Close \/ Stream \/ End

Spec == Init /\ [][Next]_successionVars

===============================================================================
