-------------------------- MODULE AccessRevocation --------------------------
(***************************************************************************)
(* The access tokens of one user and the revocation epoch kept for him in  *)
(* Redis: apps/api/src/domains/auth/token-revocation.ts, the checks of     *)
(* shared/middleware/auth-guard.ts and the lifetime of tokens.ts.          *)
(*                                                                         *)
(* An access token is its iat: two minted in one second are told apart by  *)
(* nothing here.  Redis commands take time: with maxRetriesPerRequest null *)
(* (config/redis.ts) one issued while the connection is down waits for it. *)
(* API instances share Redis and nothing else, so commands of two handlers *)
(* reach it in any order.                                                  *)
(***************************************************************************)
EXTENDS Integers

CONSTANTS
  Requests,    \* the authenticated requests
  Detections,  \* the refresh handlers that have committed a reuse
  TTL,         \* ACCESS_TOKEN_TTL_SECONDS
  Buffer,      \* TTL_BUFFER_SECONDS
  Patience,    \* how long a GET of the epoch may wait for its reply
  MaxTime      \* bound: the clock stops here

ASSUME RevocationAssumption ==
  /\ TTL \in Nat
  /\ Buffer \in Nat
  /\ Patience \in Nat
  /\ MaxTime \in Nat

VARIABLES
  now,       \* unix seconds, the same on every instance
  epoch,     \* the Redis key: its value, and when it expires
  request,   \* request[r]: where requireAuth is with r
  detection, \* detection[k]: where revokeUserAccessTokens is
  stamped,   \* history: the cutoffs Redis has acknowledged
  served,    \* history: the tokens let through, and whether revoked by then
  raced      \* history: two stamps were under way at the same time

revocationVars == <<now, epoch, request, detection, stamped, served, raced>>

NoEpoch == [cutoff |-> 0, until |-> 0]

\* Mutant of EpochUntil: the key lives exactly as long as a token.
EpochUntilUnbuffered(t) == t + TTL

\* Mutant of EpochUntil: the lifetime is given in milliseconds.
EpochUntilMillis(t) == t + 1000 * (TTL + Buffer)

\* When the key set at t expires.
EpochUntil(t) == t + TTL + Buffer

\* isAccessTokenRevoked, when GET answers; an expired key answers null.
Revoked(iat) == now < epoch.until /\ iat <= epoch.cutoff

Unexpired(iat) == now < iat + TTL
-----------------------------------------------------------------------------
RevocationInit ==
  /\ now = 0
  /\ epoch = NoEpoch
  /\ request = [r \in Requests |-> [pc |-> "start"]]
  /\ detection = [k \in Detections |-> [pc |-> "start"]]
  /\ stamped = {}
  /\ served = {}
  /\ raced = FALSE

\* requireAuth up to its await: the token, minted at any second so far, verifies
\* and has not expired, or is refused.
Verify(r, iat) ==
  /\ request[r].pc = "start"
  /\ iat <= now
  /\ request' = [request EXCEPT ![r] =
       IF Unexpired(iat) THEN [pc |-> "checking", iat |-> iat, since |-> now]
                         ELSE [pc |-> "refused"]]
  /\ UNCHANGED <<now, epoch, detection, stamped, served, raced>>

\* The reply of GET: a revoked token is refused, any other one served.
Check(r) ==
  /\ request[r].pc = "checking"
  /\ LET iat == request[r].iat
     IN  IF Revoked(iat)
         THEN /\ request' = [request EXCEPT ![r] = [pc |-> "refused"]]
              /\ UNCHANGED served
         ELSE /\ request' = [request EXCEPT ![r] = [pc |-> "served"]]
              /\ served' = served \cup
                   {[iat |-> iat, revoked |-> \E c \in stamped : iat <= c]}
  /\ UNCHANGED <<now, epoch, detection, stamped, raced>>

\* GET fails: requireAuth refuses (optionalAuth goes on without a principal).
CheckFails(r) ==
  /\ request[r].pc = "checking"
  /\ request' = [request EXCEPT ![r] = [pc |-> "refused"]]
  /\ UNCHANGED <<now, epoch, detection, stamped, served, raced>>

\* The reuse is committed in Postgres; revokeUserAccessTokens reads the clock and
\* sends its SET.
Detect(k) ==
  /\ detection[k].pc = "start"
  /\ detection' = [detection EXCEPT ![k] = [pc |-> "stamping", cutoff |-> now]]
  /\ raced' = (raced \/ \E j \in Detections : detection[j].pc = "stamping")
  /\ UNCHANGED <<now, epoch, request, stamped, served>>

\* The SET reaches Redis.
Stamp(k) ==
  /\ detection[k].pc = "stamping"
  /\ epoch' = [cutoff |-> detection[k].cutoff, until |-> EpochUntil(now)]
  /\ stamped' = stamped \cup {detection[k].cutoff}
  /\ detection' = [detection EXCEPT ![k] = [pc |-> "done"]]
  /\ UNCHANGED <<now, request, served, raced>>

\* The SET fails and the error is swallowed: best effort.
StampFails(k) ==
  /\ detection[k].pc = "stamping"
  /\ detection' = [detection EXCEPT ![k] = [pc |-> "done"]]
  /\ UNCHANGED <<now, epoch, request, stamped, served, raced>>

\* A second passes.  No GET waits longer than Patience for its reply.
Tick ==
  /\ now < MaxTime
  /\ \A r \in Requests :
       request[r].pc = "checking" => now < request[r].since + Patience
  /\ now' = now + 1
  /\ UNCHANGED <<epoch, request, detection, stamped, served, raced>>

RevocationNext ==
  \/ \E r \in Requests :
       \/ \E iat \in 0 .. MaxTime : Verify(r, iat)
       \/ Check(r) \/ CheckFails(r)
  \/ \E k \in Detections : Detect(k) \/ Stamp(k) \/ StampFails(k)
  \/ Tick

RevocationSpec == RevocationInit /\ [][RevocationNext]_revocationVars
-----------------------------------------------------------------------------
Seconds == 0 .. MaxTime

RequestType ==
  [pc : {"start", "served", "refused"}]
    \cup [pc : {"checking"}, iat : Seconds, since : Seconds]

DetectionType == [pc : {"start", "done"}] \cup [pc : {"stamping"}, cutoff : Seconds]

RevocationTypeOK ==
  /\ now \in Seconds
  /\ epoch \in [cutoff : Seconds, until : 0 .. MaxTime + TTL + Buffer]
  /\ request \in [Requests -> RequestType]
  /\ detection \in [Detections -> DetectionType]
  /\ stamped \subseteq Seconds
  /\ served \subseteq [iat : Seconds, revoked : BOOLEAN]
  /\ raced \in BOOLEAN

\* Once Redis has acknowledged a cutoff, no token minted at or before it passes
\* requireAuth for the rest of its life, not even one that verified just before
\* it expired and waited for Redis: the key outlives every token it covers by
\* Buffer.  This needs replies within Buffer and stamps that do not race.
RevokedNeverServed ==
  Patience <= Buffer /\ ~raced => \A s \in served : ~s.revoked
=============================================================================
