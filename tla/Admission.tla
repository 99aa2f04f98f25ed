------------------------------ MODULE Admission ------------------------------
(***************************************************************************)
(* How the companion admits a signed request: authenticateWithDevice() of  *)
(* quest/host/internal/server/server.go, the skew check of security.go and *)
(* the replay cache of state.go, beside the pairing service that it asks   *)
(* for the device before and after.                                        *)
(*                                                                         *)
(* A request may arrive any number of times, and several copies are under  *)
(* way at once; the clock is read once for the skew and once more for the  *)
(* cache.  A request is known by its nonce; a slot of the model stands for *)
(* a new request once the one before is too old for anyone.                *)
(***************************************************************************)
EXTENDS Enrollment

CONSTANTS
    Requests,   \* requests that are young enough to matter at once
    Copies,     \* goroutines that serve them
    MaxSkew, CacheCap,
    NoRequest

ASSUME SkewAssumption == MaxSkew \in Nat \ {0}
ASSUME CacheAssumption == CacheCap \in Nat \ {0}
ASSUME RequestAssumption == NoRequest \notin Requests

\* The owner's token belongs to no device
Owner == NoId

Old == MaxSkew + 1

VARIABLES
    age,        \* the companion's clock less the timestamp of a request
    sender,     \* the device that signed it
    cache,      \* NonceLRU: the requests whose nonce is stored
    serving,    \* the request a goroutine serves, and
    at,         \* how far it is
    \* History: the requests the cache took for new, in this run of the companion, and
    \* the last to pass the authorization
    accepted, served

requests == <<age, sender>>
server == <<cache, serving, at, accepted, served>>
vars == <<pairing, requests, server>>

AdmissionTypeOK ==
    /\ age \in [Requests -> -(MaxSkew + 1) .. Old]
    /\ sender \in [Requests -> Ids]
    /\ cache \subseteq Requests /\ accepted \subseteq Requests
    /\ served \in Requests \cup {NoRequest}
    /\ serving \in [Copies -> Requests \cup {NoRequest}]
    /\ at \in [Copies -> {"idle", "looked up", "verified", "checked"}]
    \* what is stored expires within twice the skew, so a full cache empties
    /\ \A r \in cache : age[r] >= -MaxSkew

Init ==
    /\ PairingInit
    /\ age = [r \in Requests |-> Old]
    /\ sender = [r \in Requests |-> Owner]
    /\ cache = {} /\ accepted = {} /\ served = NoRequest
    /\ serving = [c \in Copies |-> NoRequest]
    /\ at = [c \in Copies |-> "idle"]

Goto(c, place) == at' = [at EXCEPT ![c] = place]

Refuse(c) == Goto(c, "idle") /\ serving' = [serving EXCEPT ![c] = NoRequest]

\* A headset or the owner's tool signs a request; its clock may be ahead or behind
Send(r) ==
    /\ age[r] = Old /\ r \notin cache /\ \A c \in Copies : serving[c] # r
    /\ \E a \in -(MaxSkew + 1) .. MaxSkew : age' = [age EXCEPT ![r] = a]
    /\ \E d \in known \cup {Owner} : sender' = [sender EXCEPT ![r] = d]
    /\ accepted' = accepted \ {r}
    /\ UNCHANGED <<pairing, cache, serving, at, served>>

Paired(d) == d = Owner \/ d \in records

\* A copy arrives; a client over its rate, or a device nobody knows, gets no further
Lookup(c, r) ==
    /\ at[c] = "idle" /\ Paired(sender[r])
    /\ Goto(c, "looked up")
    /\ serving' = [serving EXCEPT ![c] = r]
    /\ UNCHANGED <<pairing, requests, cache, accepted, served>>

WithinSkew(a) == -MaxSkew <= a /\ a <= MaxSkew

Verify(c) ==
    /\ at[c] = "looked up"
    /\ IF WithinSkew(age[serving[c]]) THEN Goto(c, "verified") /\ serving' = serving ELSE Refuse(c)
    /\ UNCHANGED <<pairing, requests, cache, accepted, served>>

\* Bug: an entry is dropped at the very end of its window
BadExpired(r) == age[r] >= MaxSkew
Expired(r) == age[r] > MaxSkew

\* CheckAndAdd(): expired entries go first; a full cache evicts none
CheckAndAdd(c) ==
    /\ at[c] = "verified"
    /\ LET kept == {r \in cache : ~Expired(r)}
           r == serving[c]
       IN IF r \in kept \/ Cardinality(kept) >= CacheCap
          THEN cache' = kept /\ Refuse(c) /\ UNCHANGED accepted
          ELSE /\ cache' = kept \cup {r}
               /\ accepted' = accepted \cup {r}
               /\ Goto(c, "checked") /\ UNCHANGED serving
    /\ UNCHANGED <<pairing, requests, served>>

\* Bug: the device is not looked up again
BadStillPaired(d) == TRUE
\* AuthorizeAndSelectHMAC(), of a device
StillPaired(d) == Paired(d)

Authorize(c) ==
    /\ at[c] = "checked"
    /\ served' = IF StillPaired(sender[serving[c]]) THEN serving[c] ELSE NoRequest
    /\ Refuse(c)
    /\ UNCHANGED <<pairing, requests, cache, accepted>>

Pair == Operation /\ UNCHANGED <<requests, server>>

Pass ==
    /\ Tick
    /\ age' = [r \in Requests |-> IF age[r] = Old THEN Old ELSE age[r] + 1]
    /\ UNCHANGED <<sender, server>>

\* The companion's memory is gone, with its connections
StartAgain ==
    /\ Restart
    /\ cache' = {} /\ accepted' = {} /\ served' = NoRequest
    /\ serving' = [c \in Copies |-> NoRequest]
    /\ at' = [c \in Copies |-> "idle"]
    /\ UNCHANGED requests

Next ==
    \/ \E r \in Requests : Send(r)
    \/ \E c \in Copies : \/ \E r \in Requests : Lookup(c, r)
                         \/ Verify(c) \/ CheckAndAdd(c) \/ Authorize(c)
    \/ Pair \/ Pass \/ StartAgain

Spec == Init /\ [][Next]_vars

-----------------------------------------------------------------------------
(* What the owner sees of it.                                              *)

Asking == IF Live.state = "pending" THEN Live.id ELSE NoId

Date == [r \in Requests |-> IF age[r] > MaxSkew THEN "late" ELSE IF age[r] < -MaxSkew THEN "early" ELSE "good"]

Hand == [c \in Copies |-> IF at[c] = "checked" THEN serving[c] ELSE NoRequest]

Owners == INSTANCE Authorization
            WITH Devices <- Attempts, NoOne <- NoId, met <- 1 .. begun, asking <- Asking,
                 paired <- records, date <- Date, taken <- accepted, hand <- Hand

-----------------------------------------------------------------------------

(* Pairing, requests, time, failures of the store and restarts together are what the owner  *)
(* was promised (Authorization): whoever is let in asked and was approved before the asking *)
(* lapsed or was withdrawn; whoever is out is out for good, also over a restart; a request  *)
(* is taken once while its timestamp is within the skew, never when it is ahead of it, and  *)
(* served to who is let in at that moment, whatever happened since it was looked up.        *)
ImplementsAuthorization == Owners!Spec

\* The cache takes the request of c for new
Admits(c) == at[c] = "verified" /\ at'[c] = "checked"

\* The request of c is served
Serves(c) == at[c] = "checked" /\ at'[c] = "idle" /\ served' = serving[c]

(* "The cache MUST retain the nonce across that entire window": while its timestamp is      *)
(* within the skew, a request is taken for new once, however many copies of it are under    *)
(* way; and nothing is served to a device whose pairing was cancelled or that was forgotten *)
(* after its request had been looked up ("FreshAuthorizer rechecks local approval on every  *)
(* request", server.go:152).                                                                *)
NoStaleAdmission ==
    [][\A c \in Copies :
          /\ (Admits(c) /\ age[serving[c]] <= MaxSkew) => serving[c] \notin accepted
          /\ Serves(c) => sender[serving[c]] \notin gone]_vars

=============================================================================
