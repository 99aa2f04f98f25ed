----------------------------- MODULE Enrollment -----------------------------
(***************************************************************************)
(* Pairing a headset with the companion after the owner's approval: the    *)
(* Service of quest/host/internal/enrollment/enrollment.go with its store  *)
(* (persist.go), the headset's requests and the manager's.                 *)
(*                                                                         *)
(* Every operation holds s.mu, so each is one step.  A deadline is kept as *)
(* the time that is left of it; 0 is a deadline that is past or not set,   *)
(* for the code looks at none before expireLocked().  An attempt is known  *)
(* by the order of its Begin, and so is the device that it pairs.          *)
(***************************************************************************)
EXTENDS Integers, FiniteSets

CONSTANTS
    ReceiveLease, LegacyOpenWindow, ChallengeTTL, BeginsWindow, BeginsCap, RecordsCap,
    Suppression,    \* how long the manager suppresses requests for
    NumAttempts     \* bound: attempts begun

ASSUME DurationsAssumption ==
    {ReceiveLease, LegacyOpenWindow, ChallengeTTL, BeginsWindow, Suppression} \subseteq Nat \ {0}
ASSUME CapsAssumption == {BeginsCap, RecordsCap, NumAttempts} \subseteq Nat \ {0}

Attempts == 1 .. NumAttempts
NoId == 0
Ids == Attempts \cup {NoId}

VARIABLES
    legacy, lease, suppressed,  \* what is left of the windows and of the suppression
    begins,     \* what is left of the time that each of the counted Begins counts
    current,    \* the attempt in the slot: its id, its state, what is left of it
    records,    \* the devices paired, and
    disk,       \* the devices in the store
    shown,      \* the attempt the manager shows, of whichever answer it saw last
    known,      \* the attempts whose result the headset has polled
    begun,      \* attempts begun
    \* History: the attempt in the slot was without a window once since it began;
    \* the attempts the headset cancelled and the devices the owner forgot
    lapsed, gone

clocks == <<legacy, lease, suppressed, begins>>
store == <<records, disk>>
pairing == <<clocks, current, store, shown, known, begun, lapsed, gone>>

NoAttempt == [id |-> NoId, state |-> "none", ttl |-> 0]

TypeOK ==
    /\ legacy \in 0 .. LegacyOpenWindow
    /\ lease \in 0 .. ReceiveLease
    /\ suppressed \in 0 .. Suppression
    /\ begins \in [1 .. BeginsCap -> 0 .. BeginsWindow]
    /\ current \in [id : Ids, state : {"none", "pending", "denied", "approved"},
                    ttl : 0 .. ChallengeTTL]
    /\ records \subseteq Attempts /\ disk \subseteq Attempts
    /\ shown \in Ids
    /\ known \subseteq Attempts /\ gone \subseteq Attempts
    /\ begun \in 0 .. NumAttempts
    /\ lapsed \in BOOLEAN

NoBegins == [i \in 1 .. BeginsCap |-> 0]

PairingInit ==
    /\ legacy = 0 /\ lease = 0 /\ suppressed = 0
    /\ begins = NoBegins
    /\ current = NoAttempt
    /\ records = {} /\ disk = {}
    /\ shown = NoId /\ known = {} /\ begun = 0
    /\ lapsed = FALSE /\ gone = {}

-----------------------------------------------------------------------------

\* expireLocked(), once the windows are l and r: an attempt ends with its challenge, and one that
\* is not approved ends with the last window
After(c, l, r) ==
    IF c.ttl = 0 \/ (c.state # "approved" /\ l = 0 /\ r = 0) THEN NoAttempt ELSE c

Live == After(current, legacy, lease)

\* An attempt that was denied does not hold the slot
Undenied(c) == IF c.state = "denied" THEN NoAttempt ELSE c

\* The manager's requests are answered with pendingSnapshot(), which it may see
Shows == shown' \in {shown, IF current'.state = "pending" THEN current'.id ELSE NoId}

WindowOpen == legacy > 0 \/ lease > 0

Lapses(l, r) == lapsed' = (lapsed \/ (l = 0 /\ r = 0))

\* Bug: an attempt of a lease that is over is not dropped before the lease is renewed
BadRenewed == current
\* What RenewReceiveLease() finds in the slot
Renewed == Live

\* A manager that renews while requests are suppressed opens nothing
RenewReceiveLease ==
    /\ IF suppressed > 0 THEN current' = Live /\ lease' = lease
                         ELSE current' = Undenied(Renewed) /\ lease' = ReceiveLease
    /\ Shows
    /\ UNCHANGED <<legacy, suppressed, begins, store, known, begun, lapsed, gone>>

Open ==
    /\ current' = Undenied(Live)
    /\ legacy' = LegacyOpenWindow
    /\ Shows
    /\ UNCHANGED <<lease, suppressed, begins, store, known, begun, lapsed, gone>>

CloseWindows ==
    /\ legacy' = 0 /\ lease' = 0
    /\ current' = After(current, 0, 0)
    /\ Lapses(0, 0)
    /\ Shows

Close == CloseWindows /\ UNCHANGED <<suppressed, begins, store, known, begun, gone>>

SetSuppressed ==
    /\ suppressed' \in {0, Suppression}
    /\ CloseWindows
    /\ UNCHANGED <<begins, store, known, begun, gone>>

Pending ==
    /\ current' = Live
    /\ Shows
    /\ UNCHANGED <<clocks, store, known, begun, lapsed, gone>>

\* A valid request, a window, a free slot, room for a device and for one more Begin
Begin ==
    /\ suppressed = 0 /\ WindowOpen
    /\ Undenied(Live) = NoAttempt
    /\ Cardinality(records) < RecordsCap
    /\ begun < NumAttempts
    /\ \E i \in DOMAIN begins :
          begins[i] = 0 /\ begins' = [begins EXCEPT ![i] = BeginsWindow]
    /\ begun' = begun + 1
    /\ current' = [id |-> begun', state |-> "pending", ttl |-> ChallengeTTL]
    /\ lapsed' = FALSE
    /\ UNCHANGED <<legacy, lease, suppressed, store, shown, known, gone>>

\* Any other request; in an open window it still empties the slot of a denied attempt
BeginRefused ==
    /\ current' = IF suppressed = 0 /\ WindowOpen THEN Undenied(Live) ELSE Live
    /\ UNCHANGED <<clocks, store, shown, known, begun, lapsed, gone>>

\* The headset proves that it began the attempt in the slot and hears its state
Poll ==
    /\ current' = Live
    /\ known' = known \cup (IF Live.state = "approved" THEN {Live.id} ELSE {})
    /\ UNCHANGED <<clocks, store, shown, begun, lapsed, gone>>

\* Bug: a device is taken off the list although the store still has it
BadRevoked(saved) == TRUE
\* revokeLocked(): the list is changed once the store is
Revoked(saved) == saved

\* The headset cancels; if the owner has approved meanwhile, its credential is revoked
Cancel ==
    /\ Live # NoAttempt
    /\ \E saved \in BOOLEAN :
          IF Live.state = "approved"
          THEN /\ disk' = IF saved THEN records \ {Live.id} ELSE disk
               /\ records' = IF Revoked(saved) THEN records \ {Live.id} ELSE records
               /\ current' = IF Revoked(saved) THEN NoAttempt ELSE Live
               /\ gone' = IF Revoked(saved) THEN gone \cup {Live.id} ELSE gone
          ELSE current' = NoAttempt /\ gone' = gone \cup {Live.id} /\ UNCHANGED store
    /\ UNCHANGED <<clocks, shown, known, begun, lapsed>>

\* The owner's decision names the attempt the manager showed
Decided(c) == c.id = shown /\ c.state = "pending"

Deny ==
    /\ Decided(Live)
    /\ current' = [Live EXCEPT !.state = "denied"]
    /\ Shows
    /\ UNCHANGED <<clocks, store, known, begun, lapsed, gone>>

\* The record is stored before it is used; if it cannot be, the attempt is over
Approve ==
    /\ Decided(Live)
    /\ Cardinality(records) < RecordsCap
    /\ \/ /\ disk' = records \cup {Live.id}
          /\ records' = disk'
          /\ current' = [Live EXCEPT !.state = "approved"]
          /\ Shows
       \/ current' = NoAttempt /\ UNCHANGED <<store, shown>>
    /\ UNCHANGED <<clocks, known, begun, lapsed, gone>>

\* The decision comes too late, or there is no room
DecisionRefused ==
    /\ current' = Live
    /\ UNCHANGED <<clocks, store, shown, known, begun, lapsed, gone>>

ForgetAll ==
    /\ records' = {} /\ disk' = {}
    /\ gone' = gone \cup records
    /\ current' = NoAttempt
    /\ legacy' = 0 /\ lease' = 0 /\ begins' = NoBegins
    /\ Lapses(0, 0)
    /\ Shows
    /\ UNCHANGED <<suppressed, known, begun>>

Less(t) == IF t = 0 THEN 0 ELSE t - 1

Tick ==
    /\ legacy' = Less(legacy) /\ lease' = Less(lease) /\ suppressed' = Less(suppressed)
    /\ begins' = [i \in 1 .. BeginsCap |-> Less(begins[i])]
    /\ current' = [current EXCEPT !.ttl = Less(@)]
    /\ Lapses(legacy', lease')
    /\ UNCHANGED <<store, shown, known, begun, gone>>

\* The companion ends, anywhere between two operations, and starts again with what is stored
Restart ==
    /\ records' = disk /\ disk' = disk
    /\ legacy' = 0 /\ lease' = 0 /\ suppressed' = 0 /\ begins' = NoBegins
    /\ current' = NoAttempt
    /\ Lapses(0, 0)
    /\ UNCHANGED <<shown, known, begun, gone>>

Operation ==
    \/ RenewReceiveLease \/ Open \/ Close \/ SetSuppressed \/ Pending
    \/ Begin \/ BeginRefused \/ Poll \/ Cancel
    \/ Deny \/ Approve \/ DecisionRefused \/ ForgetAll

PairingNext == Operation \/ Tick \/ Restart

PairingSpec == PairingInit /\ [][PairingNext]_pairing

-----------------------------------------------------------------------------

(* A device is paired only by the owner's approval of the very attempt the manager showed,  *)
(* while its challenge lasts and without a moment in between in which pairing was closed:   *)
(* "a late renewal cannot revive an expired lease's pending attempt" (expireLocked), and a  *)
(* dialog that is out of date approves nobody else (Decide).                                *)
ApprovedIsShown ==
    [][\A n \in records' \ records : n = shown /\ ~lapsed /\ n = current.id /\ current.ttl > 0]_pairing

(* A pairing that the headset cancelled, and a device that the owner forgot, stay out, also *)
(* over a restart, which restores exactly the devices served before: approval, revocation   *)
(* and forgetting reach the store first.                                                    *)
GoneStaysGone ==
    /\ disk = records
    /\ gone \cap disk = {}

=============================================================================
