----------------------------- MODULE StreamTurns -----------------------------
(***************************************************************************)
(* What the client promises of its streams: they take turns; a stream is   *)
(* connected in its turn only; how it ended is judged once; one that broke *)
(* may be offered for resumption unless somebody ended it, is resumed once *)
(* by a fresh one, and leaves the host's application alone unless the user *)
(* asked to quit it.                                                       *)
(***************************************************************************)
CONSTANTS Sessions, NoSession

VARIABLES
    stage,      \* how far each stream is
    linked,     \* the stream the host is connected for
    again,      \* the streams that resume another
    judged,     \* the streams of which it is known how they end
    broken,     \* those that were lost
    offerable,  \* those of them that can be resumed
    ended,      \* the streams that the user or the application ended
    quits,      \* the streams whose user asked to quit the application with them
    host        \* the host's application: "free", "ours" or "other"

ends == <<judged, broken, offerable, ended, quits>>
turnVars == <<stage, linked, again, ends, host>>

Init ==
    /\ stage = [s \in Sessions |-> "unborn"]
    /\ linked = NoSession
    /\ again = {} /\ judged = {} /\ broken = {} /\ offerable = {} /\ ended = {} /\ quits = {}
    /\ host = "free"

Move(s, to) == stage' = [stage EXCEPT ![s] = to]
Present(s) == stage[s] \notin {"unborn", "gone"}

\* One at a time, from the choice of an application to the end of everything about it
Ask(s) ==
    /\ stage[s] = "unborn" /\ \A t \in Sessions : ~Present(t)
    /\ Move(s, "asked")
    /\ UNCHANGED <<linked, again, ends, host>>

Begin(s) ==
    /\ stage[s] = "asked" /\ Move(s, "turn")
    /\ UNCHANGED <<linked, again, ends, host>>

Fail(s) ==
    /\ stage[s] = "asked" /\ Move(s, "closed")
    /\ UNCHANGED <<linked, again, ends, host>>

\* One that resumes finds the application it was in, or fails
Launch(s) ==
    /\ stage[s] = "turn"
    /\ IF s \in again THEN host = "ours" ELSE host # "other"
    /\ host' = "ours"
    /\ UNCHANGED <<stage, linked, again, ends>>

Link(s) ==
    /\ stage[s] = "turn" /\ linked' = s
    /\ UNCHANGED <<stage, again, ends, host>>

Unlink ==
    /\ linked' = NoSession
    /\ UNCHANGED <<stage, again, ends, host>>

\* A stream is lost in its turn, and before anything else ended it
Break(s) ==
    /\ stage[s] = "turn" /\ s \notin judged
    /\ judged' = judged \cup {s} /\ broken' = broken \cup {s}
    /\ offerable' \in {offerable, offerable \cup {s}}
    /\ UNCHANGED <<stage, linked, again, ended, quits, host>>

Judge(s) ==
    /\ stage[s] \in {"asked", "turn"}
    /\ judged' = judged \cup {s}
    /\ UNCHANGED <<stage, linked, again, broken, offerable, ended, quits, host>>

End(S) ==
    /\ \A s \in S : Present(s)
    /\ ended' = ended \cup S
    /\ judged' \in {judged, judged \cup S}
    /\ quits' \in {quits, quits \cup S}
    /\ UNCHANGED <<stage, linked, again, broken, offerable, host>>

QuitHost(s) ==
    /\ stage[s] = "turn" /\ linked # s /\ s \in judged
    /\ s \in broken => s \in quits
    /\ host' = "free"
    /\ UNCHANGED <<stage, linked, again, ends>>

Close(s) ==
    /\ stage[s] = "turn" /\ linked # s /\ s \in judged
    /\ Move(s, "closed")
    /\ UNCHANGED <<linked, again, ends, host>>

Resumable(s) == s \in offerable /\ s \notin ended

Offer(s) ==
    /\ stage[s] = "closed" /\ Resumable(s) /\ Move(s, "offered")
    /\ UNCHANGED <<linked, again, ends, host>>

Leave(s) ==
    /\ stage[s] = "closed" /\ Move(s, "gone")
    /\ UNCHANGED <<linked, again, ends, host>>

Dismiss(s) ==
    /\ stage[s] = "offered" /\ Move(s, "gone")
    /\ ended' = ended \cup {s}
    /\ UNCHANGED <<linked, again, judged, broken, offerable, quits, host>>

Resume(s, t) ==
    /\ stage[s] = "offered" /\ Resumable(s) /\ stage[t] = "unborn"
    /\ \A u \in Sessions \ {s} : ~Present(u)
    /\ stage' = [stage EXCEPT ![s] = "gone", ![t] = "asked"]
    /\ again' = again \cup {t}
    /\ UNCHANGED <<linked, ends, host>>

Others ==
    /\ host = "ours" /\ host' \in {"free", "other"}
    /\ UNCHANGED <<stage, linked, again, ends>>

Next ==
    \/ \E s \in Sessions :
         \/ Ask(s) \/ Begin(s) \/ Fail(s) \/ Launch(s) \/ Link(s) \/ Break(s) \/ Judge(s)
         \/ QuitHost(s) \/ Close(s) \/ Offer(s) \/ Leave(s) \/ Dismiss(s)
         \/ \E t \in Sessions : Resume(s, t)
    \/ \E S \in SUBSET Sessions : End(S)
    \/ Unlink \/ Others

Spec == Init /\ [][Next]_turnVars

==============================================================================
