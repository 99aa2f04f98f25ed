---------------------------- MODULE RecoveryGate ----------------------------
(***************************************************************************)
(* The termination gate of one streaming session and the decision its      *)
(* cleanup takes: app/streaming/sessionrecovery.{h,cpp}.  The gate is one  *)
(* atomic word; here it is the set of its bits, and an operator is what an *)
(* atomic update leaves in it.                                             *)
(***************************************************************************)

Bits == {"Terminating", "Recoverable", "Cleaned", "Cancelled", "ResumeTaken", "Interrupted"}

\* The first termination decides; a later one changes nothing.
BeginTermination(gate, recoverable, unexpected) ==
    IF "Terminating" \in gate THEN gate
    ELSE gate \cup {"Terminating"}
              \cup (IF recoverable THEN {"Recoverable"} ELSE {})
              \cup (IF unexpected THEN {"Interrupted"} ELSE {})

BeginCleanup(gate)    == gate \cup {"Terminating"}
CompleteCleanup(gate) == gate \cup {"Cleaned"}
Cancel(gate)          == gate \cup {"Cancelled"}

\* Bug: a session the user ended may be resumed.
BadMayResume(gate) ==
    gate \cap {"Cleaned", "Recoverable", "ResumeTaken"} = {"Cleaned", "Recoverable"}

MayResume(gate) ==
    gate \cap {"Cleaned", "Recoverable", "Cancelled", "ResumeTaken"}
        = {"Cleaned", "Recoverable"}

TakeResume(gate) == IF MayResume(gate) THEN gate \cup {"ResumeTaken"} ELSE gate

\* cleanupDecision().quitHost
QuitHost(unexpected, quitHostPreference, explicitQuit, preserveHost) ==
    ~preserveHost /\ (explicitQuit \/ (~unexpected /\ quitHostPreference))

\* cleanupDecision().exitClient
ExitClient(explicitQuit, applicationQuit) == explicitQuit \/ applicationQuit
=============================================================================
