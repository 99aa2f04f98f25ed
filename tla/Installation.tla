----------------------------- MODULE Installation -----------------------------
(***************************************************************************)
(* What the updater promises whoever presses "install", in one run of the  *)
(* application: the host is asked to install only what is wished for, and  *)
(* once while it may still be at it; what the dialog then tells of the     *)
(* installation is what has become of it, or that this is not known, and   *)
(* what is not known is not tried again.                                   *)
(***************************************************************************)
CONSTANTS Builds, None

VARIABLES
    wish,       \* the build that is to be installed when it is verified, or None
    build,      \* the build the host was asked for last, or None
    truth,      \* what has become of that: none, open, done, failed
    told        \* what the dialog tells: nothing, installing, installed, failed, unknown

installationVars == <<wish, build, truth, told>>

Init == wish = None /\ build = None /\ truth = "none" /\ told = "nothing"

\* The user wishes for a build, or the wish is dropped: cancelled, failed, out of date
Choose(b) ==
    /\ told \in {"nothing", "failed"}
    /\ wish' = b /\ told' = "nothing"
    /\ UNCHANGED <<build, truth>>

Ask ==
    /\ told = "nothing" /\ wish # None /\ truth \in {"none", "failed"}
    /\ build' = wish /\ truth' = "open" /\ told' = "installing"
    /\ wish' = None

CannotAsk ==
    /\ told = "nothing" /\ wish # None
    /\ told' = "failed" /\ wish' = None
    /\ UNCHANGED <<build, truth>>

\* The host gets to the end of it, whether somebody listens or not
End ==
    /\ truth = "open"
    /\ truth' \in {"done", "failed"}
    /\ UNCHANGED <<wish, build, told>>

Tell ==
    /\ told = "installing"
    /\ told' \in IF truth = "done" THEN {"installed", "unknown"}
                 ELSE IF truth = "failed" THEN {"failed", "unknown"} ELSE {"unknown"}
    /\ UNCHANGED <<wish, build, truth>>

\* The host refuses, and is heard at once
Refuse ==
    /\ told = "installing" /\ truth = "open"
    /\ truth' = "failed" /\ told' = "failed"
    /\ UNCHANGED <<wish, build>>

\* The next run of the application knows nothing of it
Forget == wish' = None /\ build' = None /\ truth' = "none" /\ told' = "nothing"

Next ==
    \/ \E b \in Builds \cup {None} : Choose(b)
    \/ Ask \/ CannotAsk \/ End \/ Tell \/ Refuse \/ Forget

Spec == Init /\ [][Next]_installationVars

=============================================================================
