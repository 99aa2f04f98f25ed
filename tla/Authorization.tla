----------------------------- MODULE Authorization -----------------------------
(***************************************************************************)
(* What the companion promises its owner: a device is let in because it    *)
(* asked and the owner approved before the asking was withdrawn, and out   *)
(* for good; a request is taken once while its date is good, and served    *)
(* to a device that is still let in.                                       *)
(***************************************************************************)
CONSTANTS
    Devices, Owner, NoOne,
    Requests, Copies, NoRequest

VARIABLES
    met,        \* the devices that have asked
    asking,     \* the one the owner may approve
    paired,     \* the devices let in
    gone,       \* the devices that are out for good
    date,       \* how the date of a request compares with the clock
    sender,     \* who signed it
    taken,      \* the requests taken since the companion started
    hand,       \* the request each goroutine has taken and not answered
    served      \* the request that was answered last, if it was served

owners == <<met, asking, paired, gone>>
callers == <<date, sender, taken, hand, served>>
authorizationVars == <<owners, callers>>

Init ==
    /\ met = {} /\ asking = NoOne /\ paired = {} /\ gone = {}
    /\ date = [r \in Requests |-> "late"]
    /\ sender = [r \in Requests |-> Owner]
    /\ taken = {} /\ served = NoRequest
    /\ hand = [c \in Copies |-> NoRequest]

\* Once: a device that is out asks as another
Ask(n) ==
    /\ asking = NoOne /\ n \notin met
    /\ met' = met \cup {n} /\ asking' = n
    /\ UNCHANGED <<paired, gone, callers>>

Withdraw ==
    /\ asking' = NoOne
    /\ UNCHANGED <<met, paired, gone, callers>>

Approve ==
    /\ asking # NoOne
    /\ paired' = paired \cup {asking} /\ asking' = NoOne
    /\ UNCHANGED <<met, gone, callers>>

Revoke(S) ==
    /\ paired' = paired \ S /\ gone' = gone \cup S
    /\ asking' = NoOne
    /\ UNCHANGED <<met, callers>>

Sign(r) ==
    /\ date[r] = "late" /\ \A c \in Copies : hand[c] # r
    /\ \E d \in {"early", "good"} : date' = [date EXCEPT ![r] = d]
    /\ \E n \in Devices \cup {Owner} : sender' = [sender EXCEPT ![r] = n]
    /\ taken' = taken \ {r}
    /\ UNCHANGED <<owners, hand, served>>

\* While its date is good a request is new once
Take(c, r) ==
    /\ hand[c] = NoRequest
    /\ date[r] # "early" /\ (date[r] = "good" => r \notin taken)
    /\ taken' = taken \cup {r}
    /\ hand' = [hand EXCEPT ![c] = r]
    /\ UNCHANGED <<owners, date, sender, served>>

LetIn(n) == n = Owner \/ n \in paired

Answer(c) ==
    /\ hand[c] # NoRequest
    /\ served' = IF LetIn(sender[hand[c]]) THEN hand[c] ELSE NoRequest
    /\ hand' = [hand EXCEPT ![c] = NoRequest]
    /\ UNCHANGED <<owners, date, sender, taken>>

Dates(d) == IF d = "early" THEN {"early", "good"} ELSE IF d = "good" THEN {"good", "late"} ELSE {"late"}

Pass ==
    /\ \A r \in Requests : date'[r] \in Dates(date[r])
    /\ asking' \in {asking, NoOne}
    /\ UNCHANGED <<met, paired, gone, sender, taken, hand, served>>

\* Whoever is let in, or out, is so after a restart
Restart ==
    /\ asking' = NoOne /\ taken' = {} /\ served' = NoRequest
    /\ hand' = [c \in Copies |-> NoRequest]
    /\ UNCHANGED <<met, paired, gone, date, sender>>

Next ==
    \/ \E n \in Devices : Ask(n)
    \/ Withdraw \/ Approve \/ (\E S \in SUBSET met : Revoke(S))
    \/ \E r \in Requests : Sign(r) \/ \E c \in Copies : Take(c, r)
    \/ \E c \in Copies : Answer(c)
    \/ Pass \/ Restart

Spec == Init /\ [][Next]_authorizationVars

================================================================================
