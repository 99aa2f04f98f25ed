-------------------------- MODULE EnrollmentProofs --------------------------
(***************************************************************************)
(* What Enrollment promises, for every duration, every cap and any number  *)
(* of attempts.  Two facts carry the argument: an attempt that saw pairing *)
(* closed is approved already or sees it closed still (InvLapse), and what *)
(* is gone was begun and is not in the slot unless approved (InvGone).     *)
(***************************************************************************)
EXTENDS Enrollment, TLAPS

InvLapse ==
    (lapsed /\ (legacy > 0 \/ lease > 0)) => current.state \in {"none", "approved"}

InvGone ==
    /\ current.state # "none" => current.id \in 1 .. begun
    /\ current.state \in {"pending", "denied"} => current.id \notin gone \cup records
    /\ gone \subseteq 1 .. begun /\ records \subseteq 1 .. begun
    /\ current.state = "none" => current = NoAttempt

Inv == TypeOK /\ InvLapse /\ InvGone /\ GoneStaysGone

USE DEF Attempts, Ids, NoId

\* The durations and caps are positive
LEMMA Positive ==
    /\ ReceiveLease \in Nat /\ ReceiveLease > 0 /\ LegacyOpenWindow \in Nat /\ LegacyOpenWindow > 0
    /\ ChallengeTTL \in Nat /\ ChallengeTTL > 0 /\ BeginsWindow \in Nat /\ BeginsWindow > 0
    /\ Suppression \in Nat /\ Suppression > 0
    /\ BeginsCap \in Nat /\ RecordsCap \in Nat /\ NumAttempts \in Nat
BY DurationsAssumption, CapsAssumption

\* What expireLocked() leaves in the slot is what was there, or nothing
LEMMA AfterIsSame ==
    ASSUME NEW c, NEW l, NEW r
    PROVE  After(c, l, r) \in {c, NoAttempt}
BY DEF After

\* What expireLocked() leaves was not denied a window
LEMMA AfterHasWindow ==
    ASSUME NEW c, NEW l, NEW r, After(c, l, r) # NoAttempt
    PROVE  After(c, l, r) = c /\ c.ttl # 0 /\ (c.state = "approved" \/ ~(l = 0 /\ r = 0))
BY DEF After

\* The initial state
LEMMA InitInv == PairingInit => Inv
<1> SUFFICES ASSUME PairingInit PROVE Inv
  OBVIOUS
<1> USE DEF PairingInit, NoAttempt
<1>1. begins \in [1 .. BeginsCap -> 0 .. BeginsWindow]
  BY Positive DEF NoBegins
<1>2. current \in [id : Ids, state : {"none", "pending", "denied", "approved"}, ttl : 0 .. ChallengeTTL]
  BY Positive
<1>3. TypeOK
  <2>1. legacy \in 0 .. LegacyOpenWindow /\ lease \in 0 .. ReceiveLease /\ suppressed \in 0 .. Suppression
    BY Positive
  <2>2. /\ records = {} /\ disk = {} /\ known = {} /\ gone = {} /\ lapsed = FALSE
        /\ shown = 0 /\ begun = 0 /\ 0 \in 0 .. NumAttempts
    BY Positive
  <2> HIDE DEF PairingInit, NoAttempt
  <2> QED
    BY <1>1, <1>2, <2>1, <2>2 DEF TypeOK
<1>4. InvLapse /\ InvGone /\ GoneStaysGone
  <2>1. current.id = 0 /\ current.state = "none" /\ gone = {} /\ records = {} /\ lapsed = FALSE
    OBVIOUS
  <2> QED
    BY <2>1 DEF InvLapse, InvGone, GoneStaysGone
<1> QED
  BY <1>3, <1>4 DEF Inv

\* Every operation, the clock and a restart preserve the types
LEMMA TypeStep ==
    ASSUME Inv, PairingNext
    PROVE  TypeOK'
<1> USE Positive DEF Inv, TypeOK, NoAttempt
<1>e. Live.state # "none" => Live = current /\ current.id \in Attempts
  BY AfterIsSame DEF Live, InvGone
<1>a. Live \in {current, NoAttempt}
  BY AfterIsSame DEF Live
<1>b. Undenied(Live) \in {current, NoAttempt}
  BY <1>a DEF Undenied
<1>c. After(current, 0, 0) \in {current, NoAttempt}
  BY AfterIsSame
<1>d. Shows /\ current'.id \in Ids => shown' \in Ids
  BY DEF Shows
<1>1. CASE RenewReceiveLease
  BY <1>1, <1>a, <1>b, <1>d DEF RenewReceiveLease, Renewed, store, clocks
<1>2. CASE Open
  BY <1>2, <1>b, <1>d DEF Open, store
<1>3. CASE Close
  BY <1>3, <1>c, <1>d DEF Close, CloseWindows, Lapses, store
<1>4. CASE SetSuppressed
  BY <1>4, <1>c, <1>d DEF SetSuppressed, CloseWindows, Lapses, store
<1>5. CASE Pending
  BY <1>5, <1>a, <1>d DEF Pending, store, clocks
<1>6. CASE Begin
  <2>1. begins' \in [1 .. BeginsCap -> 0 .. BeginsWindow]
    BY <1>6 DEF Begin
  <2>2. begun' \in Attempts
    BY <1>6 DEF Begin
  <2>3. current' \in [id : Ids, state : {"none", "pending", "denied", "approved"}, ttl : 0 .. ChallengeTTL]
    BY <1>6, <2>2 DEF Begin
  <2>4. UNCHANGED <<legacy, lease, suppressed, records, disk, shown, known, gone>> /\ lapsed' = FALSE
    BY <1>6 DEF Begin, store
  <2>5. begun' \in 0 .. NumAttempts
    BY <2>2
  <2> QED
    BY <2>1, <2>3, <2>4, <2>5
<1>7. CASE BeginRefused
  BY <1>7, <1>a, <1>b DEF BeginRefused, store, clocks
<1>8. CASE Poll
  <2>1. known' \subseteq Attempts
    BY <1>8, <1>e DEF Poll
  <2>2. current' \in {current, NoAttempt}
    BY <1>8, <1>a DEF Poll
  <2>3. UNCHANGED <<legacy, lease, suppressed, begins, records, disk, shown, begun, lapsed, gone>>
    BY <1>8 DEF Poll, store, clocks
  <2> QED
    BY <2>1, <2>2, <2>3
<1>9. CASE Cancel
  <2>1. Live # NoAttempt => Live = current /\ current.id \in Attempts
    BY <1>a, <1>e DEF InvGone
  <2>2. current' \in {current, NoAttempt} /\ records' \subseteq records
    BY <1>9, <1>a DEF Cancel, store
  <2>3. disk' \subseteq Attempts /\ gone' \subseteq Attempts
    BY <1>9, <2>1 DEF Cancel, store
  <2> QED
    BY <1>9, <2>2, <2>3 DEF Cancel, clocks
<1>10. CASE Deny
  <2>1. Live \in [id : Ids, state : {"none", "pending", "denied", "approved"}, ttl : 0 .. ChallengeTTL]
    BY <1>a
  <2>2. current' \in [id : Ids, state : {"none", "pending", "denied", "approved"}, ttl : 0 .. ChallengeTTL]
    BY <1>10, <2>1 DEF Deny
  <2>3. current'.id \in Ids
    BY <2>2
  <2> QED
    BY <1>10, <1>d, <2>2, <2>3 DEF Deny, store, clocks
<1>11. CASE Approve
  <2>1. Live = current /\ current.id \in Attempts
    BY <1>11, <1>e DEF Approve, Decided
  <2>2. current' \in [id : Ids, state : {"none", "pending", "denied", "approved"}, ttl : 0 .. ChallengeTTL]
    BY SMTT(30), <1>11, <2>1 DEF Approve
  <2>3. current'.id \in Ids
    BY <2>2
  <2>4. records' \subseteq Attempts /\ disk' \subseteq Attempts
    BY <1>11, <2>1 DEF Approve, store
  <2>5. shown' \in Ids
    BY <1>11, <1>d, <2>3 DEF Approve
  <2> QED
    BY <1>11, <2>2, <2>4, <2>5 DEF Approve, clocks
<1>12. CASE DecisionRefused
  BY <1>12, <1>a DEF DecisionRefused, store, clocks
<1>13. CASE ForgetAll
  BY <1>13, <1>d DEF ForgetAll, NoBegins, Lapses
<1>14. CASE Tick
  <2>1. \A m \in Nat : \A n \in 0 .. m : Less(n) \in 0 .. m
    BY DEF Less
  <2>2. legacy' \in 0 .. LegacyOpenWindow /\ lease' \in 0 .. ReceiveLease /\ suppressed' \in 0 .. Suppression
    BY <1>14, <2>1 DEF Tick
  <2>3. begins' \in [1 .. BeginsCap -> 0 .. BeginsWindow]
    <3>1. begins' = [i \in 1 .. BeginsCap |-> Less(begins[i])]
      BY <1>14 DEF Tick
    <3>2. \A i \in 1 .. BeginsCap : begins[i] \in 0 .. BeginsWindow
      OBVIOUS
    <3>3. \A i \in 1 .. BeginsCap : Less(begins[i]) \in 0 .. BeginsWindow
      BY <2>1, <3>2
    <3> QED
      BY <3>1, <3>3
  <2>4. Less(current.ttl) \in 0 .. ChallengeTTL
    BY <2>1
  <2>5. current' \in [id : Ids, state : {"none", "pending", "denied", "approved"}, ttl : 0 .. ChallengeTTL]
    <3>1. current' = [current EXCEPT !.ttl = Less(current.ttl)]
      BY <1>14 DEF Tick
    <3> DEFINE left == Less(current.ttl)
    <3>2. current' = [current EXCEPT !.ttl = left]
      BY <3>1
    <3>3. left \in 0 .. ChallengeTTL
      BY <2>4
    <3> HIDE DEF left
    <3> QED
      BY <3>2, <3>3
  <2>6. UNCHANGED <<records, disk, shown, known, begun, gone>> /\ lapsed' \in BOOLEAN
    BY <1>14 DEF Tick, Lapses, store
  <2> QED
    BY <2>2, <2>3, <2>5, <2>6
<1>15. CASE Restart
  BY <1>15 DEF Restart, NoBegins, Lapses
<1> QED
  BY <1>1, <1>2, <1>3, <1>4, <1>5, <1>6, <1>7, <1>8, <1>9, <1>10, <1>11, <1>12, <1>13,
     <1>14, <1>15 DEF PairingNext, Operation

\* What every operation may find in the slot
LEMMA LiveFacts ==
    ASSUME Inv
    PROVE  /\ Live \in {current, NoAttempt} /\ Undenied(Live) \in {Live, NoAttempt}
           /\ After(current, 0, 0) \in {current, NoAttempt}
           /\ Undenied(Live).state # "denied"
           /\ Live.state \in {"pending", "denied"} => legacy > 0 \/ lease > 0
           /\ Live.state \in {"pending", "denied"} => ~lapsed /\ Live = current /\ current.ttl > 0
           /\ After(current, 0, 0).state \in {"none", "approved"}
           /\ Live.state \in {"none", "pending", "denied", "approved"}
           /\ Undenied(Live).state \in {"none", "pending", "approved"}
<1>0. current.state \in {"none", "pending", "denied", "approved"}
  BY DEF Inv, TypeOK
<1>1. Live \in {current, NoAttempt}
  BY AfterIsSame DEF Live
<1>2. Undenied(Live) \in {Live, NoAttempt} /\ Undenied(Live).state # "denied"
  BY <1>1 DEF Undenied, NoAttempt
<1>3. ASSUME Live.state \in {"pending", "denied"}
      PROVE  Live = current /\ current.ttl # 0 /\ ~(legacy = 0 /\ lease = 0)
  BY <1>1, <1>3, AfterHasWindow DEF Live, NoAttempt
<1>4. ASSUME Live.state \in {"pending", "denied"}
      PROVE  (legacy > 0 \/ lease > 0) /\ current.ttl > 0
  BY <1>3, <1>4, Positive DEF Inv, TypeOK
<1>5. ASSUME Live.state \in {"pending", "denied"}
      PROVE  ~lapsed
  BY <1>3, <1>4, <1>5 DEF Inv, InvLapse
<1>6. After(current, 0, 0).state \in {"none", "approved"}
  BY <1>0, AfterIsSame, AfterHasWindow DEF NoAttempt
<1>8. Live.state \in {"none", "pending", "denied", "approved"}
  BY <1>0, <1>1 DEF NoAttempt
<1>9. Undenied(Live).state \in {"none", "pending", "approved"}
  BY <1>2, <1>8 DEF NoAttempt
<1>7. After(current, 0, 0) \in {current, NoAttempt}
  BY AfterIsSame
<1> QED
  BY <1>1, <1>2, <1>3, <1>4, <1>5, <1>6, <1>7, <1>8, <1>9

\* No attempt outlives a moment without a window unless it was approved before
LEMMA LapseStep ==
    ASSUME Inv, PairingNext
    PROVE  InvLapse'
<1> USE LiveFacts DEF InvLapse, NoAttempt
<1>1. CASE RenewReceiveLease \/ Open
  <2>1. current' \in {Live, Undenied(Live)} /\ lapsed' = lapsed
    BY <1>1 DEF RenewReceiveLease, Renewed, Open
  <2>2. lapsed => Live.state \in {"none", "approved"}
    OBVIOUS
  <2>3. lapsed => Undenied(Live).state \in {"none", "approved"}
    BY <2>2
  <2> QED
    BY <2>1, <2>2, <2>3
<1>3. CASE Close \/ SetSuppressed
  BY <1>3, Positive DEF Close, SetSuppressed, CloseWindows
<1>4. CASE Pending \/ Poll \/ DecisionRefused
  <2>1. current' = Live /\ UNCHANGED <<legacy, lease, lapsed>>
    BY <1>4 DEF Pending, Poll, DecisionRefused, clocks
  <2> QED
    BY <2>1 DEF Inv
<1>5. CASE Begin
  BY <1>5 DEF Begin
<1>6. CASE BeginRefused
  BY <1>6 DEF BeginRefused, Inv, clocks
<1>7. CASE Cancel
  BY <1>7 DEF Cancel, Inv, clocks
<1>8. CASE Deny
  BY <1>8 DEF Deny, Decided
<1>9. CASE Approve
  BY <1>9 DEF Approve, Decided
<1>10. CASE ForgetAll
  BY <1>10 DEF ForgetAll
<1>11. CASE Tick
  <2>1. \A n \in Nat : Less(n) \in Nat /\ (Less(n) > 0 => n > 0)
    BY DEF Less
  <2>2. legacy \in Nat /\ lease \in Nat
    BY Positive DEF Inv, TypeOK
  <2>3. legacy' \in Nat /\ lease' \in Nat /\ (legacy' > 0 => legacy > 0) /\ (lease' > 0 => lease > 0)
    BY <1>11, <2>1, <2>2 DEF Tick
  <2>4. current'.state = current.state
    BY <1>11 DEF Tick, Inv, TypeOK
  <2>5. legacy' > 0 \/ lease' > 0 => lapsed' = lapsed
    BY <1>11, <2>3 DEF Tick, Lapses, Inv, TypeOK
  <2> QED
    BY <2>3, <2>4, <2>5 DEF Inv
<1>12. CASE Restart
  BY <1>12 DEF Restart
<1> QED
  BY <1>1, <1>3, <1>4, <1>5, <1>6, <1>7, <1>8, <1>9, <1>10, <1>11, <1>12
     DEF PairingNext, Operation

\* Nothing that is gone comes back into the slot, onto the list or into the store
LEMMA GoneStep ==
    ASSUME Inv, PairingNext
    PROVE  InvGone' /\ GoneStaysGone'
<1> USE LiveFacts DEF InvGone, GoneStaysGone, NoAttempt
<1>1. CASE RenewReceiveLease
  BY <1>1 DEF RenewReceiveLease, Renewed, Inv, store
<1>2. CASE Open
  BY <1>2 DEF Open, Inv, store
<1>3. CASE Close \/ SetSuppressed
  <2>1. current' \in {current, NoAttempt} /\ UNCHANGED <<begun, records, disk, gone>>
    BY <1>3 DEF Close, SetSuppressed, CloseWindows, store
  <2> QED
    BY <2>1 DEF Inv
<1>4. CASE Pending \/ Poll \/ DecisionRefused
  <2>1. current' = Live /\ UNCHANGED <<begun, records, disk, gone>>
    BY <1>4 DEF Pending, Poll, DecisionRefused, store
  <2> QED
    BY <2>1 DEF Inv
<1>5. CASE Begin
  <2>1. begun \in Nat /\ begun' = begun + 1 /\ 1 .. begun \subseteq 1 .. begun' /\ begun' \notin 1 .. begun
    BY <1>5, Positive DEF Begin, Inv, TypeOK
  <2>2. current'.id = begun' /\ current'.state = "pending" /\ UNCHANGED <<records, disk, gone>>
    BY <1>5 DEF Begin, store
  <2>3. begun' \in 1 .. begun'
    BY <2>1
  <2> QED
    BY <2>1, <2>2, <2>3 DEF Inv
<1>6. CASE BeginRefused
  BY <1>6 DEF BeginRefused, Inv, store
<1>7. CASE Cancel
  <2>1. Live = current /\ current.id \in 1 .. begun
    BY <1>7 DEF Cancel, Inv
  <2>2. \/ /\ Live.state = "approved" /\ current' = NoAttempt /\ gone' = gone \cup {current.id}
           /\ records' = records \ {current.id} /\ disk' = records'
        \/ Live.state = "approved" /\ current' = current /\ UNCHANGED <<gone, records, disk>>
        \/ /\ Live.state # "approved" /\ current' = NoAttempt /\ gone' = gone \cup {current.id}
           /\ UNCHANGED <<records, disk>>
    BY <1>7, <2>1 DEF Cancel, Revoked, store
  <2>3. begun' = begun
    BY <1>7 DEF Cancel
  <2>4. Live.state # "approved" => current.id \notin records
    <3>1. Live.state # "none"
      BY <2>1, <1>7 DEF Cancel, Inv
    <3> QED
      BY <2>1, <3>1 DEF Inv
  <2>5. gone' \cap disk' = {} /\ disk' = records'
    BY <2>2, <2>4 DEF Inv
  <2>6. gone' \subseteq 1 .. begun' /\ records' \subseteq 1 .. begun'
    BY <2>1, <2>2, <2>3 DEF Inv
  <2>7. \/ current' = NoAttempt
        \/ current' = current /\ current.state = "approved" /\ current.id \in 1 .. begun'
    BY <2>1, <2>2, <2>3
  <2> QED
    BY <2>5, <2>6, <2>7
<1>8. CASE Deny
  BY <1>8 DEF Deny, Decided, Inv, store
<1>9. CASE Approve
  <2>1. Live = current /\ current.state = "pending" /\ current.id \in 1 .. begun /\ current.id \notin gone
    BY <1>9 DEF Approve, Decided, Inv
  <2>2. \/ /\ current'.id = current.id /\ current'.state = "approved"
           /\ disk' = records \cup {current.id} /\ records' = disk'
        \/ current' = NoAttempt /\ UNCHANGED <<records, disk>>
    BY <1>9, <2>1 DEF Approve, Inv, TypeOK, store
  <2>3. begun' = begun /\ gone' = gone
    BY <1>9 DEF Approve
  <2>4. gone' \cap disk' = {} /\ disk' = records'
    BY <2>1, <2>2, <2>3 DEF Inv
  <2>5. gone' \subseteq 1 .. begun' /\ records' \subseteq 1 .. begun'
    BY <2>1, <2>2, <2>3 DEF Inv
  <2>6. current' = NoAttempt \/ (current'.id \in 1 .. begun' /\ current'.state = "approved")
    BY <2>1, <2>2, <2>3
  <2> QED
    BY <2>4, <2>5, <2>6
<1>10. CASE ForgetAll
  BY <1>10 DEF ForgetAll, Inv
<1>11. CASE Tick
  BY <1>11 DEF Tick, Less, Inv, TypeOK, store
<1>12. CASE Restart
  BY <1>12 DEF Restart, Inv
<1> QED
  BY <1>1, <1>2, <1>3, <1>4, <1>5, <1>6, <1>7, <1>8, <1>9, <1>10, <1>11, <1>12
     DEF PairingNext, Operation

\* Inv is inductive
LEMMA Inductive == Inv /\ [PairingNext]_pairing => Inv'
<1> SUFFICES ASSUME Inv, [PairingNext]_pairing PROVE Inv'
  OBVIOUS
<1>1. CASE PairingNext
  BY <1>1, TypeStep, LapseStep, GoneStep DEF Inv
<1>2. CASE UNCHANGED pairing
  BY <1>2 DEF pairing, clocks, store, Inv, TypeOK, InvLapse, InvGone, GoneStaysGone
<1> QED
  BY <1>1, <1>2

\* The invariant holds throughout
THEOREM Invariance == PairingSpec => []Inv
BY InitInv, Inductive, PTL DEF PairingSpec

\* The pairing service's state keeps its types
THEOREM TypeCorrect == PairingSpec => []TypeOK
<1>1. Inv => TypeOK
  BY DEF Inv
<1> QED
  BY Invariance, <1>1, PTL

\* Cancelled and forgotten devices stay out, and the store is what is served (revokeLocked,
\* ForgetAll, Decide: each saves first)
THEOREM GoneKept == PairingSpec => []GoneStaysGone
<1>1. Inv => GoneStaysGone
  BY DEF Inv
<1> QED
  BY Invariance, <1>1, PTL

\* Only the attempt that was shown, and that never saw pairing closed, is approved (Decide after
\* expireLocked)
THEOREM OnlyShownApproved == PairingSpec => ApprovedIsShown
<1> DEFINE OnlyShown == \A n \in records' \ records :
                            n = shown /\ ~lapsed /\ n = current.id /\ current.ttl > 0
<1>1. Inv /\ [PairingNext]_pairing => [OnlyShown]_pairing
  <2> SUFFICES ASSUME Inv, PairingNext PROVE OnlyShown
    OBVIOUS
  <2>1. CASE Approve
    BY <2>1, LiveFacts DEF Approve, Decided, store
  <2>2. CASE Cancel
    BY <2>2 DEF Cancel, store
  <2>3. CASE Restart
    BY <2>3 DEF Restart, Inv, GoneStaysGone
  <2>4. CASE ~(Approve \/ Cancel \/ Restart)
    BY <2>4 DEF PairingNext, Operation, RenewReceiveLease, Open, Close, SetSuppressed, CloseWindows,
                Pending, Begin, BeginRefused, Poll, Deny, DecisionRefused, ForgetAll, Tick, store
  <2> QED
    BY <2>1, <2>2, <2>3, <2>4
<1> QED
  BY Invariance, <1>1, PTL DEF PairingSpec, ApprovedIsShown
=============================================================================
