--------------------------- MODULE AdmissionProofs ---------------------------
(***************************************************************************)
(* What the admission of requests promises, for any requests, goroutines,  *)
(* skew and capacity of the cache, over the invariant of the pairing       *)
(* service that it asks.  The cache remembers for long enough: what it     *)
(* took for new is stored while its timestamp is within the skew           *)
(* (InvRemembered), for it was not younger than the skew allows when it    *)
(* was stored (InvServing).                                                *)
(***************************************************************************)
EXTENDS Admission, EnrollmentProofs

InvServing ==
    \A c \in Copies :
        /\ at[c] # "idle" => serving[c] \in Requests
        /\ at[c] \in {"verified", "checked"} => age[serving[c]] >= -MaxSkew

InvRemembered == \A r \in accepted : age[r] <= MaxSkew => r \in cache

AdmissionInv == Inv /\ AdmissionTypeOK /\ InvServing /\ InvRemembered

\* The skew is positive
LEMMA SkewPositive == MaxSkew \in Nat /\ MaxSkew > 0 /\ Old \in Nat /\ Old = MaxSkew + 1
BY SkewAssumption DEF Old

\* The ages that are told apart
Ages == -(MaxSkew + 1) .. Old

LEMMA AgeFacts ==
    /\ Ages \subseteq Int /\ -MaxSkew \in Int /\ MaxSkew \in Int /\ Old \in Ages
    /\ -(MaxSkew + 1) .. MaxSkew \subseteq Ages
    /\ \A x \in Ages : x # Old => x + 1 \in Ages /\ x + 1 > x
BY SkewPositive DEF Ages

LEMMA AgeTyped == ASSUME AdmissionTypeOK PROVE age \in [Requests -> Ages]
BY DEF AdmissionTypeOK, Ages

\* A request that is not too old is not expired, and its age only grows
LEMMA AgeOrder ==
    /\ \A x \in Ages : x <= MaxSkew => ~(x > MaxSkew)
    /\ \A x, y \in Ages : y >= x =>
          /\ x >= -MaxSkew => y >= -MaxSkew
          /\ y <= MaxSkew => x <= MaxSkew
    /\ \A x \in Ages : (IF x = Old THEN Old ELSE x + 1) >= x
BY SkewPositive DEF Ages

USE DEF Owner, Attempts, Ids, NoId

\* The initial state
LEMMA AdmissionInitInv == Init => AdmissionInv
<1> SUFFICES ASSUME Init PROVE AdmissionInv
  OBVIOUS
<1>1. Inv
  BY InitInv DEF Init
<1>2. AdmissionTypeOK
  BY SkewPositive DEF Init, AdmissionTypeOK
<1>3. InvServing /\ InvRemembered
  BY DEF Init, InvServing, InvRemembered
<1> QED
  BY <1>1, <1>2, <1>3 DEF AdmissionInv

\* Every step of the composition is a step of the pairing service, or none
LEMMA PairingStep ==
    ASSUME AdmissionInv, Next
    PROVE  Inv'
<1>1. [PairingNext]_pairing
  BY DEF Next, Send, Lookup, Verify, CheckAndAdd, Authorize, Pair, Pass, StartAgain, PairingNext
<1> QED
  BY <1>1, Inductive DEF AdmissionInv

\* The requests, the cache and the goroutines
LEMMA AdmissionStep ==
    ASSUME AdmissionInv, Next
    PROVE  AdmissionTypeOK' /\ InvServing' /\ InvRemembered'
<1> USE AgeFacts, AgeTyped DEF AdmissionInv, AdmissionTypeOK, InvServing, InvRemembered, requests
<1>1. ASSUME NEW r \in Requests, Send(r)
      PROVE  AdmissionTypeOK' /\ InvServing' /\ InvRemembered'
  <2>1. PICK a \in -(MaxSkew + 1) .. MaxSkew : age' = [age EXCEPT ![r] = a]
    BY <1>1 DEF Send
  <2>2. PICK d \in known \cup {Owner} : sender' = [sender EXCEPT ![r] = d]
    BY <1>1 DEF Send
  <2>3. /\ r \notin cache /\ \A c \in Copies : serving[c] # r
        /\ accepted' = accepted \ {r} /\ UNCHANGED <<cache, serving, at, served>>
    BY <1>1 DEF Send
  <2>4. d \in Ids
    <3>1. known \subseteq Attempts
      BY DEF Inv, TypeOK
    <3> QED
      BY <3>1
  <2>5. age' \in [Requests -> Ages] /\ sender' \in [Requests -> Ids]
    BY <2>1, <2>2, <2>4
  <2>6. \A s \in Requests \ {r} : age'[s] = age[s]
    BY <2>1
  <2> QED
    BY <2>3, <2>5, <2>6 DEF Ages
<1>2. ASSUME NEW c \in Copies, NEW r \in Requests, Lookup(c, r)
      PROVE  AdmissionTypeOK' /\ InvServing' /\ InvRemembered'
  BY <1>2 DEF Lookup, Goto
<1>3. ASSUME NEW c \in Copies, Verify(c)
      PROVE  AdmissionTypeOK' /\ InvServing' /\ InvRemembered'
  <2>1. UNCHANGED <<age, sender, cache, accepted, served>> /\ serving[c] \in Requests
    BY <1>3 DEF Verify
  <2>2. CASE WithinSkew(age[serving[c]])
    BY <1>3, <2>1, <2>2 DEF Verify, Goto, WithinSkew
  <2>3. CASE ~WithinSkew(age[serving[c]])
    BY <1>3, <2>1, <2>3 DEF Verify, Refuse, Goto
  <2> QED
    BY <2>2, <2>3
<1>4. ASSUME NEW c \in Copies, CheckAndAdd(c)
      PROVE  AdmissionTypeOK' /\ InvServing' /\ InvRemembered'
  <2> DEFINE kept == {r \in cache : ~Expired(r)}
  <2>1. UNCHANGED <<age, sender, served>> /\ serving[c] \in Requests /\ age[serving[c]] >= -MaxSkew
    BY <1>4 DEF CheckAndAdd
  <2>2. ASSUME NEW r \in accepted, age[r] <= MaxSkew PROVE r \in kept
    <3>1. r \in cache /\ age[r] \in Ages
      BY <2>2
    <3> QED
      BY <2>2, <3>1, AgeOrder DEF Expired
  <2>3. kept \subseteq cache
    OBVIOUS
  <2>4. \/ cache' = kept /\ Refuse(c) /\ accepted' = accepted
        \/ /\ cache' = kept \cup {serving[c]} /\ accepted' = accepted \cup {serving[c]}
           /\ Goto(c, "checked") /\ serving' = serving
    BY <1>4 DEF CheckAndAdd
  <2> HIDE DEF kept
  <2>5. CASE cache' = kept /\ Refuse(c) /\ accepted' = accepted
    BY <2>1, <2>2, <2>3, <2>5 DEF Refuse, Goto
  <2>6. CASE /\ cache' = kept \cup {serving[c]} /\ accepted' = accepted \cup {serving[c]}
             /\ Goto(c, "checked") /\ serving' = serving
    BY <2>1, <2>2, <2>3, <2>6 DEF Goto
  <2> QED
    BY <2>4, <2>5, <2>6
<1>5. ASSUME NEW c \in Copies, Authorize(c)
      PROVE  AdmissionTypeOK' /\ InvServing' /\ InvRemembered'
  BY <1>5 DEF Authorize, Refuse, Goto
<1>6. CASE Pair
  BY <1>6 DEF Pair, server
<1>7. CASE Pass
  <2>1. /\ age' = [r \in Requests |-> IF age[r] = Old THEN Old ELSE age[r] + 1]
        /\ UNCHANGED <<sender, cache, serving, at, accepted, served>>
    BY <1>7 DEF Pass, server
  <2>2. ASSUME NEW r \in Requests
        PROVE  age'[r] \in Ages /\ age'[r] >= age[r] /\ age[r] \in Ages
    <3>1. age[r] \in Ages /\ age'[r] = IF age[r] = Old THEN Old ELSE age[r] + 1
      BY <2>1
    <3> QED
      BY <3>1, AgeOrder
  <2>3. age' \in [Requests -> Ages]
    BY <2>1, <2>2
  <2>4. ASSUME NEW r \in Requests
        PROVE  (age[r] >= -MaxSkew => age'[r] >= -MaxSkew) /\ (age'[r] <= MaxSkew => age[r] <= MaxSkew)
    <3>1. age'[r] \in Ages /\ age[r] \in Ages /\ age'[r] >= age[r]
      BY <2>2
    <3> QED
      BY <3>1, AgeOrder
  <2> QED
    BY <2>1, <2>3, <2>4 DEF Ages
<1>8. CASE StartAgain
  BY <1>8 DEF StartAgain
<1> QED
  BY <1>1, <1>2, <1>3, <1>4, <1>5, <1>6, <1>7, <1>8 DEF Next

\* AdmissionInv is inductive
LEMMA AdmissionInductive == AdmissionInv /\ [Next]_vars => AdmissionInv'
<1> SUFFICES ASSUME AdmissionInv, [Next]_vars PROVE AdmissionInv'
  OBVIOUS
<1>1. CASE Next
  BY <1>1, PairingStep, AdmissionStep DEF AdmissionInv
<1>2. CASE UNCHANGED vars
  <2>1. UNCHANGED pairing
    BY <1>2 DEF vars
  <2>2. Inv'
    BY <2>1, Inductive DEF AdmissionInv
  <2>3. UNCHANGED <<age, sender, cache, serving, at, accepted, served>>
    BY <1>2 DEF vars, requests, server
  <2> QED
    BY <2>2, <2>3 DEF AdmissionInv, AdmissionTypeOK, InvServing, InvRemembered
<1> QED
  BY <1>1, <1>2

\* The invariant holds throughout
THEOREM AdmissionInvariance == Spec => []AdmissionInv
BY AdmissionInitInv, AdmissionInductive, PTL DEF Spec

\* The types of the admission, and that no stored entry outlives twice the skew
THEOREM AdmissionTypeCorrect == Spec => []AdmissionTypeOK
<1>1. AdmissionInv => AdmissionTypeOK
  BY DEF AdmissionInv
<1> QED
  BY AdmissionInvariance, <1>1, PTL

\* Nothing is taken for new twice within the skew (CheckAndAdd), and nothing is served to a device
\* that is gone (FreshAuthorizer)
THEOREM NeverStale == Spec => NoStaleAdmission
<1> DEFINE NotStale == \A c \in Copies :
               /\ (Admits(c) /\ age[serving[c]] <= MaxSkew) => serving[c] \notin accepted
               /\ Serves(c) => sender[serving[c]] \notin gone
<1>1. AdmissionInv /\ [Next]_vars => [NotStale]_vars
  <2> SUFFICES ASSUME AdmissionInv, Next, NEW c \in Copies
               PROVE  /\ (Admits(c) /\ age[serving[c]] <= MaxSkew) => serving[c] \notin accepted
                      /\ Serves(c) => sender[serving[c]] \notin gone
    OBVIOUS
  <2> USE DEF AdmissionInv
  <2>1. ASSUME Admits(c), age[serving[c]] <= MaxSkew PROVE serving[c] \notin accepted
    <3>1. CheckAndAdd(c)
      BY <2>1 DEF Next, Send, Lookup, Verify, CheckAndAdd, Authorize, Pair, Pass, StartAgain,
                  Goto, Refuse, Admits, server, AdmissionTypeOK
    <3>2. serving[c] \notin {r \in cache : ~Expired(r)}
      BY <2>1, <3>1 DEF CheckAndAdd, Refuse, Goto, Admits, AdmissionTypeOK
    <3>3. serving[c] \in Requests
      BY <2>1 DEF Admits, InvServing
    <3>4. ~Expired(serving[c])
      BY <2>1, <3>3, AgeOrder, AgeTyped DEF Expired
    <3> QED
      BY <2>1, <3>2, <3>4 DEF InvRemembered
  <2>2. ASSUME Serves(c) PROVE sender[serving[c]] \notin gone
    <3>1. serving[c] \in Requests /\ served' # NoRequest
      BY <2>2, RequestAssumption DEF Serves, InvServing
    <3>2. Authorize(c)
      BY <2>2, <3>1 DEF Next, Send, Lookup, Verify, CheckAndAdd, Authorize, Pair, Pass, StartAgain,
                        Goto, Refuse, Serves, server, AdmissionTypeOK
    <3>3. sender[serving[c]] = 0 \/ sender[serving[c]] \in records
      BY <2>2, <3>1, <3>2 DEF Authorize, StillPaired, Paired, Serves
    <3>4. gone \cap records = {} /\ 0 \notin gone
      BY DEF Inv, GoneStaysGone, TypeOK
    <3> QED
      BY <3>3, <3>4
  <2> QED
    BY <2>1, <2>2
<1> QED
  BY AdmissionInvariance, <1>1, PTL DEF Spec, NoStaleAdmission

-----------------------------------------------------------------------------
(* The owner's view: Admission implements Authorization *)

\* Only what expireLocked() leaves in the slot, and finds there again, can be approved
LEMMA AskingKept ==
    ASSUME current' \in {Live, NoAttempt} \/ current'.state # "pending" \/ (legacy' = 0 /\ lease' = 0)
    PROVE  Asking' \in {Asking, NoId}
<1>1. Live' \in {current', NoAttempt}
  BY DEF Live, After
<1>2. CASE current' \in {Live, NoAttempt}
  BY <1>1, <1>2 DEF Asking, NoAttempt
<1>3. CASE current'.state # "pending"
  BY <1>1, <1>3 DEF Asking, NoAttempt
<1>4. CASE legacy' = 0 /\ lease' = 0
  BY <1>4 DEF Asking, Live, After, NoAttempt
<1> QED
  BY <1>2, <1>3, <1>4

\* An operation of the pairing service in the eyes of the owner
Asks == /\ Asking = NoId /\ begun' = begun + 1 /\ begun' \in Attempts /\ Asking' = begun'
        /\ UNCHANGED <<records, gone>>
Withdraws == Asking' \in {Asking, NoId} /\ UNCHANGED <<records, gone, begun>>
Approves == /\ Asking # NoId /\ records' = records \cup {Asking} /\ Asking' = NoId
            /\ UNCHANGED <<gone, begun>>
Revokes == /\ \E S \in SUBSET (1 .. begun) : records' = records \ S /\ gone' = gone \cup S
           /\ Asking' = NoId /\ begun' = begun

LEMMA OperationSeen ==
    ASSUME Inv, Operation
    PROVE  Asks \/ Withdraws \/ Approves \/ Revokes
<1>0. /\ Live \in {current, NoAttempt} /\ Undenied(Live) \in {Live, NoAttempt}
      /\ current.state # "none" => current.id \in 1 .. begun
      /\ current.state \in {"pending", "denied"} => current.id \notin records
      /\ records \subseteq 1 .. begun /\ begun \in Nat
  BY LiveFacts DEF Inv, InvGone, TypeOK
<1>1. CASE RenewReceiveLease \/ Open \/ Pending \/ BeginRefused \/ Poll \/ DecisionRefused
  <2>1. current' \in {Live, NoAttempt} /\ UNCHANGED <<records, gone, begun>>
    BY <1>0, <1>1 DEF RenewReceiveLease, Renewed, Open, Pending, BeginRefused, Poll, DecisionRefused, store
  <2> QED
    BY <2>1, AskingKept DEF Withdraws
<1>2. CASE Close \/ SetSuppressed
  <2>1. legacy' = 0 /\ lease' = 0 /\ UNCHANGED <<records, gone, begun>>
    BY <1>2 DEF Close, SetSuppressed, CloseWindows, store
  <2> QED
    BY <2>1, AskingKept DEF Withdraws
<1>3. CASE Begin
  <2>1. /\ Undenied(Live) = NoAttempt /\ begun' = begun + 1 /\ begun < NumAttempts /\ WindowOpen
        /\ current' = [id |-> begun', state |-> "pending", ttl |-> ChallengeTTL]
        /\ UNCHANGED <<legacy, lease, records, gone>>
    BY <1>3 DEF Begin, store
  <2>2. Asking = NoId
    BY <2>1 DEF Undenied, Asking, NoAttempt
  <2>3. Live' = current'
    BY <2>1, Positive DEF Live, After, WindowOpen
  <2>4. Asking' = begun'
    BY <2>1, <2>3 DEF Asking
  <2>5. begun' \in Attempts
    BY <1>0, <2>1, Positive
  <2> QED
    BY <2>1, <2>2, <2>4, <2>5 DEF Asks
<1>4. CASE Cancel
  <2>1. /\ Live = current /\ current.state # "none" /\ current.id \in 1 .. begun
    BY <1>0, <1>4 DEF Cancel, Inv, InvGone
  <2>2. PICK saved \in BOOLEAN :
          IF Live.state = "approved"
          THEN /\ records' = IF Revoked(saved) THEN records \ {Live.id} ELSE records
               /\ current' = IF Revoked(saved) THEN NoAttempt ELSE Live
               /\ gone' = IF Revoked(saved) THEN gone \cup {Live.id} ELSE gone
          ELSE current' = NoAttempt /\ gone' = gone \cup {Live.id} /\ UNCHANGED store
    BY <1>4 DEF Cancel
  <2>3. begun' = begun
    BY <1>4 DEF Cancel
  <2>4. CASE Live.state = "approved" /\ ~Revoked(saved)
    BY <2>2, <2>3, <2>4, AskingKept DEF Withdraws
  <2>5. CASE ~(Live.state = "approved" /\ ~Revoked(saved))
    <3>1. current' = NoAttempt /\ gone' = gone \cup {current.id}
      BY <2>1, <2>2, <2>5
    <3>2. records' = records \ {current.id}
      <4>1. CASE current.state = "approved"
        BY <2>1, <2>2, <2>5, <4>1
      <4>2. CASE current.state # "approved"
        <5>1. current.state \in {"pending", "denied"}
          BY <2>1, <4>2 DEF Inv, TypeOK
        <5>2. records' = records
          BY <2>1, <2>2, <4>2 DEF store
        <5> QED
          BY <1>0, <5>1, <5>2
      <4> QED
        BY <4>1, <4>2
    <3>3. Asking' = NoId
      BY <3>1 DEF Asking, Live, After, NoAttempt
    <3> QED
      BY <2>1, <2>3, <3>1, <3>2, <3>3 DEF Revokes
  <2> QED
    BY <2>4, <2>5
<1>5. CASE Deny
  <2>1. current' = [Live EXCEPT !.state = "denied"] /\ UNCHANGED <<records, gone, begun>>
    BY <1>5 DEF Deny, store
  <2>2. Live.state = "pending"
    BY <1>5 DEF Deny, Decided
  <2>3. Live = current /\ current \in [id : Ids, state : {"none", "pending", "denied", "approved"},
                                       ttl : 0 .. ChallengeTTL]
    BY <1>0, <2>2 DEF NoAttempt, Inv, TypeOK
  <2>4. current'.state = "denied"
    BY <2>1, <2>3
  <2> QED
    BY <2>1, <2>4, AskingKept DEF Withdraws
<1>6. CASE Approve
  <2>1. Live.state = "pending" /\ Live = current /\ UNCHANGED <<gone, begun>>
    BY <1>0, <1>6 DEF Approve, Decided, NoAttempt
  <2>2. Asking = current.id /\ Asking # NoId
    BY <1>0, <2>1 DEF Asking
  <2>3. CASE records' = records \cup {Live.id} /\ current' = [Live EXCEPT !.state = "approved"]
    <3>1. current'.state = "approved"
      BY <2>1, <2>3 DEF Inv, TypeOK
    <3>2. Asking' = NoId
      BY <3>1 DEF Asking, Live, After, NoAttempt
    <3> QED
      BY <2>1, <2>2, <2>3, <3>2 DEF Approves
  <2>4. CASE current' = NoAttempt /\ UNCHANGED store
    BY <2>1, <2>4, AskingKept DEF Withdraws, store
  <2> QED
    BY <1>6, <2>3, <2>4 DEF Approve
<1>7. CASE ForgetAll
  <2>1. /\ records' = records \ records /\ gone' = gone \cup records /\ current' = NoAttempt /\ begun' = begun
    BY <1>7 DEF ForgetAll
  <2>2. Asking' = NoId
    BY <2>1 DEF Asking, Live, After, NoAttempt
  <2> QED
    BY <1>0, <2>1, <2>2 DEF Revokes
<1> QED
  BY <1>1, <1>2, <1>3, <1>4, <1>5, <1>6, <1>7 DEF Operation

\* Time takes from the owner what it takes from the attempt and from its windows
LEMMA TickSeen ==
    ASSUME Inv, Tick
    PROVE  Withdraws
<1>1. /\ current' = [current EXCEPT !.ttl = Less(current.ttl)]
      /\ legacy' = Less(legacy) /\ lease' = Less(lease) /\ UNCHANGED <<records, gone, begun>>
  BY DEF Tick, store
<1>2. current'.id = current.id /\ current'.state = current.state /\ current'.ttl = Less(current.ttl)
  BY <1>1 DEF Inv, TypeOK
<1>3. Live' # NoAttempt => Live' = current' /\ (Live'.state = "pending" => Live = current)
  <2>1. (legacy = 0 => legacy' = 0) /\ (lease = 0 => lease' = 0) /\ (current.ttl = 0 => current'.ttl = 0)
    BY <1>1, <1>2 DEF Less
  <2> QED
    BY <1>2, <2>1 DEF Live, After
<1>4. Asking' \in {Asking, NoId}
  BY <1>2, <1>3 DEF Asking, NoAttempt
<1> QED
  BY <1>1, <1>4 DEF Withdraws

\* What of the requests the owner sees
LEMMA SameCallers ==
    UNCHANGED <<requests, server>> => UNCHANGED Owners!callers
BY DEF requests, server, Owners!callers, Date, Hand

LEMMA SameOwners ==
    UNCHANGED pairing => UNCHANGED Owners!owners
<1> SUFFICES ASSUME UNCHANGED pairing PROVE UNCHANGED Owners!owners
  OBVIOUS
<1>1. UNCHANGED <<current, legacy, lease, begun, records, gone>>
  BY DEF pairing, clocks, store
<1>2. UNCHANGED Asking
  BY <1>1 DEF Asking, Live, After
<1> QED
  BY <1>1, <1>2 DEF Owners!owners

\* A goroutine that neither begins nor ends to serve a request taken for new
LEMMA SameHand ==
    ASSUME NEW c \in Copies, AdmissionTypeOK, NEW place, NEW x,
           at[c] # "checked", place # "checked", at' = [at EXCEPT ![c] = place],
           serving' = [serving EXCEPT ![c] = x] \/ serving' = serving
    PROVE  Hand' = Hand
<1>1. \A b \in Copies : Hand'[b] = Hand[b]
  BY DEF Hand, AdmissionTypeOK
<1> QED
  BY <1>1 DEF Hand

\* Every step of the companion is one that its owner was promised
LEMMA AdmissionSeen ==
    ASSUME AdmissionInv, Next
    PROVE  Owners!Next \/ UNCHANGED Owners!authorizationVars
<1>0. Inv /\ AdmissionTypeOK /\ InvServing /\ InvRemembered
  BY DEF AdmissionInv
<1> USE <1>0
<1>1. ASSUME NEW r \in Requests, Send(r) PROVE Owners!Next
  <2>1. PICK a \in -(MaxSkew + 1) .. MaxSkew : age' = [age EXCEPT ![r] = a]
    BY <1>1 DEF Send
  <2>2. PICK d \in known \cup {Owner} : sender' = [sender EXCEPT ![r] = d]
    BY <1>1 DEF Send
  <2>3. d \in Attempts \cup {Owner}
    BY DEF Inv, TypeOK
  <2>4. /\ age[r] = Old /\ \A c \in Copies : serving[c] # r
        /\ accepted' = accepted \ {r} /\ UNCHANGED <<pairing, serving, at, served>>
    BY <1>1 DEF Send
  <2>5. Date[r] = "late"
    BY <2>4, SkewPositive DEF Date
  <2>6. Hand' = Hand /\ \A c \in Copies : Hand[c] # r
    BY <2>4, RequestAssumption DEF Hand
  <2> DEFINE e == IF a < -MaxSkew THEN "early" ELSE "good"
  <2>7. Date' = [Date EXCEPT ![r] = e]
    <3>1. age'[r] = a /\ \A s \in Requests \ {r} : age'[s] = age[s]
      BY <2>1, AgeTyped
    <3>2. ~(a > MaxSkew)
      BY SkewPositive
    <3>3. \A s \in Requests : Date'[s] = [Date EXCEPT ![r] = e][s]
      BY <3>1, <3>2 DEF Date
    <3> QED
      BY <3>3 DEF Date
  <2>8. e \in {"early", "good"}
    OBVIOUS
  <2> HIDE DEF e
  <2>9. UNCHANGED Owners!owners
    BY <2>4, SameOwners
  <2>10. Owners!Sign(r)
    BY <2>2, <2>3, <2>4, <2>5, <2>6, <2>7, <2>8, <2>9 DEF Owners!Sign
  <2> QED
    BY <2>10 DEF Owners!Next
<1>2. ASSUME NEW c \in Copies, NEW r \in Requests, Lookup(c, r) PROVE UNCHANGED Owners!authorizationVars
  <2>1. Hand' = Hand
    BY <1>2, SameHand DEF Lookup, Goto
  <2>2. Date' = Date /\ UNCHANGED <<sender, accepted, served, pairing>>
    BY <1>2 DEF Lookup, requests, Date
  <2> QED
    BY <2>1, <2>2, SameOwners DEF Owners!authorizationVars, Owners!callers
<1>3. ASSUME NEW c \in Copies, Verify(c) PROVE UNCHANGED Owners!authorizationVars
  <2>1. Hand' = Hand
    BY <1>3, SameHand DEF Verify, Goto, Refuse
  <2>2. Date' = Date /\ UNCHANGED <<sender, accepted, served, pairing>>
    BY <1>3 DEF Verify, requests, Date
  <2> QED
    BY <2>1, <2>2, SameOwners DEF Owners!authorizationVars, Owners!callers
<1>4. ASSUME NEW c \in Copies, CheckAndAdd(c) PROVE Owners!Next \/ UNCHANGED Owners!authorizationVars
  <2> DEFINE kept == {r \in cache : ~Expired(r)}
  <2>1. PICK r \in Requests : r = serving[c]
    BY <1>4 DEF CheckAndAdd, InvServing
  <2>2. /\ at[c] = "verified" /\ Date' = Date /\ UNCHANGED <<sender, served, pairing>>
        /\ \/ Refuse(c) /\ accepted' = accepted
           \/ /\ r \notin kept /\ accepted' = accepted \cup {r} /\ serving' = serving
              /\ Goto(c, "checked")
    BY <1>4, <2>1 DEF CheckAndAdd, requests, Date
  <2>3. UNCHANGED Owners!owners
    BY <2>2, SameOwners
  <2>4. CASE Refuse(c) /\ accepted' = accepted
    <3>1. Hand' = Hand
      BY <2>2, <2>4, SameHand DEF Refuse, Goto
    <3> QED
      BY <2>2, <2>3, <2>4, <3>1 DEF Owners!authorizationVars, Owners!callers
  <2>5. CASE /\ r \notin kept /\ accepted' = accepted \cup {r} /\ serving' = serving
             /\ Goto(c, "checked")
    <3>1. age[r] \in Ages /\ age[r] >= -MaxSkew
      BY <2>1, <2>2, AgeTyped DEF InvServing
    <3>2. Date[r] # "early"
      BY <3>1, AgeFacts, SkewPositive DEF Date, Ages
    <3>3. Date[r] = "good" => r \notin accepted
      <4>1. Date[r] = "good" => ~(age[r] > MaxSkew)
        BY DEF Date
      <4>2. ~(age[r] > MaxSkew) => age[r] <= MaxSkew
        BY <3>1, SkewPositive DEF Ages
      <4> QED
        BY <2>5, <4>1, <4>2 DEF InvRemembered, Expired
    <3>4. \A b \in Copies : Hand'[b] = [Hand EXCEPT ![c] = r][b]
      BY <2>1, <2>5 DEF Hand, Goto, AdmissionTypeOK
    <3>5. Hand' = [Hand EXCEPT ![c] = r]
      BY <3>4 DEF Hand
    <3>6. Hand[c] = NoRequest
      BY <2>2 DEF Hand
    <3>7. Owners!Take(c, r)
      BY <2>2, <2>3, <2>5, <3>2, <3>3, <3>5, <3>6 DEF Owners!Take
    <3> QED
      BY <3>7 DEF Owners!Next
  <2> QED
    BY <2>2, <2>4, <2>5
<1>5. ASSUME NEW c \in Copies, Authorize(c) PROVE Owners!Next
  <2>1. /\ at[c] = "checked" /\ Refuse(c) /\ Date' = Date /\ UNCHANGED <<sender, accepted, pairing>>
        /\ served' = IF StillPaired(sender[serving[c]]) THEN serving[c] ELSE NoRequest
    BY <1>5 DEF Authorize, requests, Date
  <2>2. Hand[c] = serving[c] /\ serving[c] # NoRequest
    BY <2>1, RequestAssumption DEF Hand, InvServing
  <2>3. \A b \in Copies : Hand'[b] = [Hand EXCEPT ![c] = NoRequest][b]
    BY <2>1 DEF Hand, Refuse, Goto, AdmissionTypeOK
  <2>4. Hand' = [Hand EXCEPT ![c] = NoRequest]
    BY <2>3 DEF Hand
  <2>5. StillPaired(sender[serving[c]]) <=> Owners!LetIn(sender[Hand[c]])
    BY <2>2 DEF StillPaired, Paired, Owners!LetIn
  <2>6. Owners!Answer(c)
    BY <2>1, <2>2, <2>4, <2>5, SameOwners DEF Owners!Answer
  <2> QED
    BY <2>6 DEF Owners!Next
<1>6. CASE Pair
  <2>1. Operation /\ UNCHANGED Owners!callers
    BY <1>6, SameCallers DEF Pair
  <2>2. ASSUME Asks PROVE Owners!Next
    <3>1. begun' \in Attempts /\ begun' \notin 1 .. begun /\ 1 .. begun' = (1 .. begun) \cup {begun'}
      BY <2>2 DEF Asks, Inv, TypeOK
    <3>2. Owners!Ask(begun')
      BY <2>1, <2>2, <3>1 DEF Asks, Owners!Ask
    <3> QED
      BY <3>1, <3>2 DEF Owners!Next
  <2>3. ASSUME Withdraws PROVE Owners!Next \/ UNCHANGED Owners!authorizationVars
    <3>1. CASE Asking' = NoId
      BY <2>1, <2>3, <3>1 DEF Withdraws, Owners!Withdraw, Owners!Next
    <3>2. CASE Asking' = Asking
      BY <2>1, <2>3, <3>2 DEF Withdraws, Owners!authorizationVars, Owners!owners
    <3> QED
      BY <2>3, <3>1, <3>2 DEF Withdraws
  <2>4. ASSUME Approves PROVE Owners!Next
    BY <2>1, <2>4 DEF Approves, Owners!Approve, Owners!Next
  <2>5. ASSUME Revokes PROVE Owners!Next
    <3>1. PICK S \in SUBSET (1 .. begun) : records' = records \ S /\ gone' = gone \cup S
      BY <2>5 DEF Revokes
    <3>2. Owners!Revoke(S)
      BY <2>1, <2>5, <3>1 DEF Revokes, Owners!Revoke
    <3> QED
      BY <3>2 DEF Owners!Next
  <2> QED
    BY <2>1, <2>2, <2>3, <2>4, <2>5, OperationSeen
<1>7. CASE Pass
  <2>1. Withdraws /\ UNCHANGED <<sender, cache, serving, at, accepted, served>>
    BY <1>7, TickSeen DEF Pass, server
  <2>2. ASSUME NEW r \in Requests PROVE Date'[r] \in Owners!Dates(Date[r])
    <3>1. age[r] \in Ages /\ age'[r] = IF age[r] = Old THEN Old ELSE age[r] + 1
      BY <1>7, AgeTyped DEF Pass
    <3> QED
      BY <3>1, SkewPositive DEF Date, Ages, Owners!Dates
  <2>3. Hand' = Hand
    BY <2>1 DEF Hand
  <2>4. Owners!Pass
    BY <2>1, <2>2, <2>3 DEF Withdraws, Owners!Pass
  <2> QED
    BY <2>4 DEF Owners!Next
<1>8. CASE StartAgain
  <2>1. /\ records' = disk /\ current' = NoAttempt /\ UNCHANGED <<begun, gone, age, sender>>
        /\ accepted' = {} /\ served' = NoRequest
        /\ serving' = [c \in Copies |-> NoRequest] /\ at' = [c \in Copies |-> "idle"]
    BY <1>8 DEF StartAgain, Restart, requests
  <2>2. records' = records
    BY <2>1 DEF Inv, GoneStaysGone
  <2>3. Asking' = NoId
    BY <2>1 DEF Asking, Live, After, NoAttempt
  <2>4. Date' = Date /\ Hand' = [c \in Copies |-> NoRequest]
    BY <2>1 DEF Date, Hand
  <2>5. Owners!Restart
    BY <2>1, <2>2, <2>3, <2>4 DEF Owners!Restart
  <2> QED
    BY <2>5 DEF Owners!Next
<1> QED
  BY <1>1, <1>2, <1>3, <1>4, <1>5, <1>6, <1>7, <1>8 DEF Next

\* Whatever requests, operations, failures of the store and restarts there are, the owner sees
\* what Authorization promises
THEOREM AuthorizationImplemented == Spec => ImplementsAuthorization
<1>1. Init => Owners!Init
  <2> SUFFICES ASSUME Init PROVE Owners!Init
    OBVIOUS
  <2>1. Asking = NoId /\ records = {} /\ gone = {} /\ 1 .. begun = {}
    BY DEF Init, PairingInit, Asking, Live, After, NoAttempt
  <2>2. Date = [r \in Requests |-> "late"] /\ Hand = [c \in Copies |-> NoRequest]
    BY SkewPositive DEF Init, Date, Hand
  <2> QED
    BY <2>1, <2>2 DEF Init, Owners!Init
<1>2. AdmissionInv /\ [Next]_vars => [Owners!Next]_(Owners!authorizationVars)
  <2> SUFFICES ASSUME AdmissionInv, [Next]_vars
               PROVE  Owners!Next \/ UNCHANGED Owners!authorizationVars
    OBVIOUS
  <2>1. CASE UNCHANGED vars
    BY <2>1, SameOwners, SameCallers DEF vars, Owners!authorizationVars
  <2> QED
    BY <2>1, AdmissionSeen
<1> QED
  BY <1>1, <1>2, AdmissionInvariance, PTL DEF Spec, ImplementsAuthorization, Owners!Spec

=============================================================================
