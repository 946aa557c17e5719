------------------------------- MODULE ApiKeys -------------------------------
(***************************************************************************)
(* API keys (internal/api/apikeys.go, internal/auth/keys.go and the bearer *)
(* part of internal/api/middleware/auth.go): keys are created and revoked  *)
(* by the admin while clients use them, and every admitted request leaves  *)
(* a goroutine behind that stores last_used_at when it gets to it.         *)
(*                                                                         *)
(* A key stands for its plaintext, its hash and its row.  Requests that    *)
(* are refused, with 401, 403 or 500, change nothing.                      *)
(***************************************************************************)
EXTENDS Integers, FiniteSets

CONSTANTS
    ApiKeyIds,
    Scopes,         \* read, write, replay and tunnel in the code
    TouchTimeout,   \* of the goroutine, 5 s in the code
    MaxTouches,     \* bound on the goroutines
    MaxNow          \* bound on the clock

ASSUME ApiKeysAssumption ==
    {TouchTimeout, MaxTouches, MaxNow} \subseteq Nat \ {0}

VARIABLES
    now,
    scopes,                     \* of a key; none before it is created
    last_used_at, revoked_at,   \* 0 for NULL
    \* requests let in whose goroutine is not done: their key, the time of the
    \* lookup, and that at which the goroutine started, 0 before
    touches,
    writer                      \* history: the one that stored last_used_at

apiKeyVars == <<now, scopes, last_used_at, revoked_at, touches, writer>>

ApiKeysInit ==
    /\ now = 1
    /\ scopes = [k \in ApiKeyIds |-> {}]
    /\ last_used_at = [k \in ApiKeyIds |-> 0]
    /\ revoked_at = [k \in ApiKeyIds |-> 0]
    /\ touches = {}
    /\ writer = [k \in ApiKeyIds |-> [key |-> k, looked |-> 0, started |-> 0]]

TimePasses ==
    /\ now < MaxNow
    /\ now' = now + 1
    /\ UNCHANGED <<scopes, last_used_at, revoked_at, touches, writer>>
-----------------------------------------------------------------------------
(* The middleware *)

\* Mutant: the query does not look at revoked_at.
GetAPIKeyByHashRevokedToo(k) == scopes[k] # {}

GetAPIKeyByHash(k) == scopes[k] # {} /\ revoked_at[k] = 0

\* What a request with a bearer key gets.
RequireScope(k, scope) ==
    CASE ~GetAPIKeyByHash(k) -> "unauthorized"
      [] GetAPIKeyByHash(k) /\ scope \notin scopes[k] -> "forbidden"
      [] OTHER -> "admitted"

\* A request that is let in, when its key was looked up.
Admit(k, scope) ==
    /\ RequireScope(k, scope) = "admitted"
    /\ Cardinality(touches) < MaxTouches
    /\ touches' = touches \cup {[key |-> k, looked |-> now, started |-> 0]}
    /\ UNCHANGED <<now, scopes, last_used_at, revoked_at, writer>>

\* The goroutine behind it gets to run, however late, and its timeout starts.
StartTouch(t) ==
    /\ t \in touches /\ t.started = 0
    /\ touches' = (touches \ {t}) \cup {[t EXCEPT !.started = now]}
    /\ UNCHANGED <<now, scopes, last_used_at, revoked_at, writer>>

\* TouchAPIKeyLastUsed: now() is the time of the update, and a key that was
\* revoked meanwhile is touched all the same.
TouchAPIKeyLastUsed(t) ==
    /\ t \in touches /\ t.started # 0
    /\ now <= t.started + TouchTimeout
    /\ last_used_at' = [last_used_at EXCEPT ![t.key] = now]
    /\ writer' = [writer EXCEPT ![t.key] = t]
    /\ touches' = touches \ {t}
    /\ UNCHANGED <<now, scopes, revoked_at>>

\* "Best-effort": the update fails or times out.
TouchFails(t) ==
    /\ t \in touches /\ t.started # 0
    /\ touches' = touches \ {t}
    /\ UNCHANGED <<now, scopes, last_used_at, revoked_at, writer>>

\* Shutdown does not wait for these goroutines, nor a crash for requests.
LoseTouches ==
    /\ touches # {}
    /\ touches' = {}
    /\ UNCHANGED <<now, scopes, last_used_at, revoked_at, writer>>
-----------------------------------------------------------------------------
(* The API, which no key opens *)

Credentials == {"session", "password", "key", "none"}
AdminOnly(credential) == credential \in {"session", "password"}

InsertApiKey(k, s) ==
    /\ scopes[k] = {}
    /\ scopes' = [scopes EXCEPT ![k] = s]

RevokeAPIKey(k) ==
    /\ scopes[k] # {} /\ revoked_at[k] = 0
    /\ revoked_at' = [revoked_at EXCEPT ![k] = now]

\* At least one scope, all of them known.
CreateKey(k, s, credential) ==
    /\ AdminOnly(credential)
    /\ s # {}
    /\ InsertApiKey(k, s)
    /\ UNCHANGED <<now, last_used_at, revoked_at, touches, writer>>

\* A second call finds no row and answers 404.
RevokeKey(k, credential) ==
    /\ AdminOnly(credential)
    /\ RevokeAPIKey(k)
    /\ UNCHANGED <<now, scopes, last_used_at, touches, writer>>

ApiKeysNext ==
    \/ TimePasses
    \/ LoseTouches
    \/ \E t \in touches :
          StartTouch(t) \/ TouchAPIKeyLastUsed(t) \/ TouchFails(t)
    \/ \E k \in ApiKeyIds :
          \/ \E scope \in Scopes : Admit(k, scope)
          \/ \E c \in Credentials :
                \/ \E s \in SUBSET Scopes : CreateKey(k, s, c)
                \/ RevokeKey(k, c)
-----------------------------------------------------------------------------
(* Properties *)

\* The list view "keeps an audit trail": last_used_at was stored for a request
\* whose key was looked up no later than that and, when the key is revoked, no
\* later than its revocation, by a goroutine that had started at most a timeout
\* before.  A key may be shown as used after its revocation, by a request that
\* was slow between the lookup and the update.
LastUsedIsHonest ==
    \A k \in ApiKeyIds : last_used_at[k] # 0 =>
        LET u == writer[k] IN
        /\ u.looked <= u.started
        /\ last_used_at[k] \in u.started..(u.started + TouchTimeout)
        /\ revoked_at[k] # 0 => u.looked <= revoked_at[k]
=============================================================================
