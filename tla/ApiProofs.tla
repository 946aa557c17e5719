------------------------------ MODULE ApiProofs ------------------------------
(***************************************************************************)
(* Machine-checked proofs about the API keys, the login sessions, and the  *)
(* sources with their signatures and dedupe keys: for any number of keys,  *)
(* goroutines, requests in flight, sources and events, any durations, and  *)
(* any catalog that Load accepts.                                          *)
(***************************************************************************)
EXTENDS Sessions, ApiKeys, Sources, TLAPS

-----------------------------------------------------------------------------
(* API keys *)

Touches == [key: ApiKeyIds, looked: Nat, started: Nat]

ApiKeysTypeOK ==
    /\ now \in Nat \ {0}
    /\ scopes \in [ApiKeyIds -> SUBSET Scopes]
    /\ last_used_at \in [ApiKeyIds -> Nat]
    /\ revoked_at \in [ApiKeyIds -> Nat]
    /\ writer \in [ApiKeyIds -> Touches]
    /\ touches \subseteq Touches

\* Request t, let in with key k, was looked up in the past, before its goroutine
\* started and before the key was revoked.
LookedUp(t, k) ==
    /\ t.looked <= now
    /\ t.started # 0 => t.looked <= t.started /\ t.started <= now
    /\ revoked_at[k] # 0 => t.looked <= revoked_at[k]

\* So were those with a goroutine under way, and the one that last stored the
\* column, within its timeout.
KeyInv ==
    /\ ApiKeysTypeOK
    /\ \A t \in touches : LookedUp(t, t.key)
    /\ \A k \in ApiKeyIds : last_used_at[k] # 0 =>
          /\ LookedUp(writer[k], k)
          /\ writer[k].started # 0
          /\ writer[k].started <= last_used_at[k]
          /\ last_used_at[k] <= writer[k].started + TouchTimeout

\* The initial state satisfies KeyInv.
LEMMA KeyInit == ApiKeysInit => KeyInv
BY DEF ApiKeysInit, KeyInv, ApiKeysTypeOK, Touches

\* Every action preserves KeyInv: a goroutine writes the time at which it runs,
\* which its start and its timeout bound, and GetAPIKeyByHash lets no revoked
\* key in.
LEMMA KeyStep == KeyInv /\ [ApiKeysNext]_apiKeyVars => KeyInv'
<1> SUFFICES ASSUME KeyInv, [ApiKeysNext]_apiKeyVars
             PROVE  KeyInv'
  BY Zenon
<1>0. TouchTimeout \in Nat \ {0}
  BY ApiKeysAssumption, Zenon
<1>t. ApiKeysTypeOK
  BY Zenon DEF KeyInv
\* What was looked up before a step was so after it.
<1>a. ASSUME NEW t \in Touches, NEW k \in ApiKeyIds, LookedUp(t, k),
             now' \in Nat, now <= now',
             revoked_at'[k] = revoked_at[k] \/ revoked_at'[k] = now
      PROVE  LookedUp(t, k)'
  BY <1>a, <1>t DEF LookedUp, Touches, ApiKeysTypeOK
<1>b. ASSUME ApiKeysTypeOK', touches' \subseteq touches, now <= now',
             \A k \in ApiKeyIds : revoked_at'[k] = revoked_at[k] \/ revoked_at'[k] = now,
             UNCHANGED <<last_used_at, writer>>
      PROVE  KeyInv'
  <2>1. now' \in Nat /\ touches \subseteq Touches /\ writer \in [ApiKeyIds -> Touches]
    BY <1>t, <1>b DEF ApiKeysTypeOK
  <2>2. \A t \in touches : t.key \in ApiKeyIds
    BY <2>1 DEF Touches
  <2>3. \A t \in touches' : LookedUp(t, t.key)'
    BY <1>a, <1>b, <2>1, <2>2, Zenon DEF KeyInv
  <2>4. ASSUME NEW k \in ApiKeyIds, last_used_at'[k] # 0
        PROVE  /\ LookedUp(writer[k], k)'
               /\ writer'[k].started # 0
               /\ writer'[k].started <= last_used_at'[k]
               /\ last_used_at'[k] <= writer'[k].started + TouchTimeout
    <3>1. PICK u \in Touches : u = writer[k]
      BY <2>1, Zenon
    <3>2. LookedUp(u, k)
      BY <1>b, <2>4, <3>1, Zenon DEF KeyInv
    <3>3. LookedUp(u, k)'
      BY <1>a, <1>b, <2>1, <3>2, Zenon
    <3> QED
      BY <1>b, <2>4, <3>1, <3>3, Zenon DEF KeyInv, LookedUp
  <2> QED
    BY <1>b, <2>3, <2>4, Zenon DEF KeyInv
<1>1. CASE TimePasses
  <2>1. ApiKeysTypeOK' /\ now <= now' /\ UNCHANGED <<touches, revoked_at, last_used_at, writer>>
    BY <1>1, <1>t DEF TimePasses, ApiKeysTypeOK
  <2> QED
    BY <1>b, <2>1, Zenon
<1>2. CASE LoseTouches \/ \E t \in touches : TouchFails(t)
  <2>1. /\ ApiKeysTypeOK' /\ touches' \subseteq touches
        /\ UNCHANGED <<now, revoked_at, last_used_at, writer>>
    BY <1>2, <1>t, Zenon DEF LoseTouches, TouchFails, ApiKeysTypeOK
  <2>2. now <= now
    BY <1>t DEF ApiKeysTypeOK
  <2> QED
    BY <1>b, <2>1, <2>2, Zenon
<1>3. ASSUME NEW t \in touches, TouchAPIKeyLastUsed(t)
      PROVE  KeyInv'
  <2>1. /\ t \in Touches /\ t.key \in ApiKeyIds /\ LookedUp(t, t.key)
        /\ t.started # 0 /\ now <= t.started + TouchTimeout
    BY <1>3, <1>t DEF TouchAPIKeyLastUsed, KeyInv, ApiKeysTypeOK, Touches
  <2>2. /\ last_used_at' = [last_used_at EXCEPT ![t.key] = now]
        /\ writer' = [writer EXCEPT ![t.key] = t]
        /\ touches' \subseteq touches
        /\ UNCHANGED <<now, scopes, revoked_at>>
    BY <1>3, Zenon DEF TouchAPIKeyLastUsed
  <2>3. ApiKeysTypeOK'
    BY <1>t, <2>1, <2>2, Zenon DEF ApiKeysTypeOK
  <2>4. \A u, k : LookedUp(u, k) => LookedUp(u, k)'
    BY <2>2, Zenon DEF LookedUp
  <2>5. ASSUME NEW k \in ApiKeyIds, last_used_at'[k] # 0
        PROVE  \E u : /\ u = writer'[k] /\ LookedUp(u, k)
                      /\ u.started # 0 /\ u.started <= last_used_at'[k]
                      /\ last_used_at'[k] <= u.started + TouchTimeout
    <3>1. CASE k = t.key
      <4>1. writer'[k] = t /\ last_used_at'[k] = now
        BY <1>t, <2>1, <2>2, <3>1, Zenon DEF ApiKeysTypeOK
      <4>2. t.started <= now
        BY <2>1, Zenon DEF LookedUp
      <4> QED
        BY <2>1, <3>1, <4>1, <4>2, Zenon
    <3>2. CASE k # t.key
      <4>1. writer'[k] = writer[k] /\ last_used_at'[k] = last_used_at[k]
        BY <1>t, <2>1, <2>2, <3>2, Zenon DEF ApiKeysTypeOK
      <4> QED
        BY <2>5, <4>1, Zenon DEF KeyInv
    <3> QED
      BY <3>1, <3>2, Zenon
  <2>6. \A u \in touches' : LookedUp(u, u.key)'
    BY <2>2, <2>4, Zenon DEF KeyInv
  <2>7. \A k \in ApiKeyIds : last_used_at'[k] # 0 =>
           /\ LookedUp(writer[k], k)'
           /\ writer'[k].started # 0
           /\ writer'[k].started <= last_used_at'[k]
           /\ last_used_at'[k] <= writer'[k].started + TouchTimeout
    <3> TAKE k \in ApiKeyIds
    <3> HAVE last_used_at'[k] # 0
    <3>1. PICK u : /\ u = writer'[k] /\ LookedUp(u, k)
                   /\ u.started # 0 /\ u.started <= last_used_at'[k]
                   /\ last_used_at'[k] <= u.started + TouchTimeout
      BY <2>5, Zenon
    <3>2. LookedUp(u, k)'
      BY <2>4, <3>1, Zenon
    <3> QED
      BY <3>1, <3>2, Zenon DEF LookedUp
  <2> QED
    BY <2>3, <2>6, <2>7, Zenon DEF KeyInv
\* A request comes or goes on: only its own entry is new.
<1>c. ASSUME NEW t \in Touches, LookedUp(t, t.key), touches' \subseteq touches \cup {t},
             UNCHANGED <<now, scopes, last_used_at, revoked_at, writer>>
      PROVE  KeyInv'
  <2>1. ApiKeysTypeOK'
    BY <1>c, <1>t, Zenon DEF ApiKeysTypeOK
  <2>2. \A u, k : LookedUp(u, k) => LookedUp(u, k)'
    BY <1>c, Zenon DEF LookedUp
  <2>3. \A u \in touches' : LookedUp(u, u.key)'
    BY <1>c, <2>2, Zenon DEF KeyInv
  <2>4. ASSUME NEW k \in ApiKeyIds, last_used_at'[k] # 0
        PROVE  LookedUp(writer[k], k)'
    BY <1>c, <2>4, Zenon DEF KeyInv, LookedUp
  <2> QED
    BY <1>c, <2>1, <2>3, <2>4, Zenon DEF KeyInv
<1>4. ASSUME NEW t \in touches, StartTouch(t)
      PROVE  KeyInv'
  <2>1. PICK u : u = [t EXCEPT !.started = now]
    BY Zenon
  <2>2. /\ touches' \subseteq touches \cup {u}
        /\ UNCHANGED <<now, scopes, last_used_at, revoked_at, writer>>
    BY <1>4, <2>1, Zenon DEF StartTouch
  <2>3. t \in Touches /\ LookedUp(t, t.key)
    BY <1>t, Zenon DEF KeyInv, ApiKeysTypeOK
  <2>4. u \in Touches /\ u.key = t.key /\ u.looked = t.looked /\ u.started = now
    BY <1>t, <2>1, <2>3 DEF Touches, ApiKeysTypeOK
  <2>5. now <= now
    BY <1>t DEF ApiKeysTypeOK
  <2>6. LookedUp(u, u.key)
    BY <2>3, <2>4, <2>5, Zenon DEF LookedUp
  <2> QED
    BY <1>c, <2>2, <2>4, <2>6, Zenon
<1>5. ASSUME NEW k \in ApiKeyIds, NEW scope \in Scopes, Admit(k, scope)
      PROVE  KeyInv'
  <2>1. revoked_at[k] = 0
    BY <1>5, Zenon DEF Admit, RequireScope, GetAPIKeyByHash
  <2>2. PICK t : t = [key |-> k, looked |-> now, started |-> 0]
    BY Zenon
  <2>3. /\ touches' \subseteq touches \cup {t}
        /\ UNCHANGED <<now, scopes, last_used_at, revoked_at, writer>>
    BY <1>5, <2>2, Zenon DEF Admit
  <2>4. t \in Touches /\ t.key = k /\ t.looked = now /\ t.started = 0
    BY <1>t, <2>2 DEF Touches, ApiKeysTypeOK
  <2>5. now <= now
    BY <1>t DEF ApiKeysTypeOK
  <2>6. LookedUp(t, t.key)
    BY <2>1, <2>4, <2>5, Zenon DEF LookedUp
  <2> QED
    BY <1>c, <2>3, <2>4, <2>6, Zenon
<1>6. ASSUME NEW k \in ApiKeyIds, NEW c \in Credentials,
             (\E s \in SUBSET Scopes : CreateKey(k, s, c)) \/ RevokeKey(k, c)
      PROVE  KeyInv'
  <2>1. /\ ApiKeysTypeOK'
        /\ UNCHANGED <<now, touches, last_used_at, writer>>
        /\ revoked_at' = revoked_at \/ revoked_at' = [revoked_at EXCEPT ![k] = now]
    BY <1>6, <1>t, Zenon
    DEF CreateKey, InsertApiKey, RevokeKey, RevokeAPIKey, ApiKeysTypeOK
  <2>2. \A j \in ApiKeyIds : revoked_at'[j] = revoked_at[j] \/ revoked_at'[j] = now
    BY <1>t, <2>1, Zenon DEF ApiKeysTypeOK
  <2>3. now <= now
    BY <1>t DEF ApiKeysTypeOK
  <2> QED
    BY <1>b, <2>1, <2>2, <2>3, Zenon
<1>7. CASE UNCHANGED apiKeyVars
  BY <1>7, Zenon DEF apiKeyVars, KeyInv, ApiKeysTypeOK, LookedUp
<1> QED
  BY <1>1, <1>2, <1>3, <1>4, <1>5, <1>6, <1>7, Zenon DEF ApiKeysNext

\* The last_used_at that the list shows was stored for a request whose key was
\* looked up before its revocation, within the timeout of the goroutine that
\* stored it, however late and in whatever order these run.
THEOREM LastUsedHonest ==
    ApiKeysInit /\ [][ApiKeysNext]_apiKeyVars => []LastUsedIsHonest
<1>1. KeyInv => LastUsedIsHonest
  <2> SUFFICES ASSUME KeyInv, NEW k \in ApiKeyIds, last_used_at[k] # 0
               PROVE  LET u == writer[k] IN
                      /\ u.looked <= u.started
                      /\ last_used_at[k] \in u.started..(u.started + TouchTimeout)
                      /\ revoked_at[k] # 0 => u.looked <= revoked_at[k]
    BY Zenon DEF LastUsedIsHonest
  <2>1. PICK u \in Touches : u = writer[k]
    BY Zenon DEF KeyInv, ApiKeysTypeOK
  <2>2. /\ LookedUp(u, k) /\ u.started # 0 /\ u.started <= last_used_at[k]
        /\ last_used_at[k] <= u.started + TouchTimeout
    BY <2>1, Zenon DEF KeyInv
  <2>3. u.started \in Nat /\ last_used_at[k] \in Nat /\ TouchTimeout \in Nat
    BY <2>1, ApiKeysAssumption DEF KeyInv, ApiKeysTypeOK, Touches
  <2>4. last_used_at[k] \in u.started..(u.started + TouchTimeout)
    BY <2>2, <2>3
  <2> QED
    BY <2>1, <2>2, <2>4, Zenon DEF LookedUp
<1> QED
  BY <1>1, KeyInit, KeyStep, PTL
-----------------------------------------------------------------------------
(* Sessions: the inductive invariant *)

Tokens == [key: Nat, expiry: Nat]

RequestRecords ==
    [phase: {"idle", "sent", "answered"}, kind: {"login", "logout", "api"},
     cookie: Tokens, since: Nat, sent: Nat, handled: Nat, ok: BOOLEAN,
     set: {"nothing", "cookie", "clear"}, fresh: Tokens]

SessionsTypeOK ==
    /\ clock \in Nat
    /\ password \in Nat \ {0}
    /\ jar \in Tokens
    /\ request \in [Tabs -> RequestRecords]
    /\ proved \in Nat
    /\ out \in BOOLEAN

\* Requests are handled while they are on their way, which takes no longer than
\* Flight, and no token is of a key that is yet to come.
FlightInv(r) ==
    /\ r.phase # "idle" => r.sent <= clock /\ clock <= r.sent + Flight
    /\ r.phase = "answered" => r.sent <= r.handled /\ r.handled <= clock
    /\ r.cookie.key <= password /\ r.fresh.key <= password

\* Half the life of the cookie is left at the time h, if it is of the current
\* key.
HalfLeft(cookie, h) ==
    cookie.key = password => 2 * (cookie.expiry - h) >= TTL

\* What is known of a request in flight and the browser's cookie: what it was
\* sent with had half its life left when the browser last heard of a success;
\* the browser's cookie is still that one or was issued at most Flight before the
\* request was sent; an answer without a cookie finds one good for half a life;
\* and a cookie in an answer is new.
StayInv(r) ==
    /\ r.phase = "sent" =>
          /\ HalfLeft(r.cookie, r.since)
          /\ \/ jar = r.cookie
             \/ jar.key = password =>
                   jar.expiry + Second + Flight >= r.sent + TTL
    /\ r.phase = "answered" /\ r.ok /\ r.set = "nothing" =>
          HalfLeft(jar, r.handled)
    /\ r.phase = "answered" /\ r.set = "cookie" =>
          r.fresh.expiry + Second >= r.handled + TTL

\* After a logout that nothing overlapped there is no cookie, and none is under
\* way.
OutInv(r) ==
    /\ r.phase = "answered" /\ r.kind = "logout" => r.set = "clear"
    /\ out => /\ r.phase # "idle" => r.kind # "login"
              /\ r.phase = "sent" => r.cookie = NoCookie
              /\ r.phase = "answered" => r.set # "cookie"

SessionsInv ==
    /\ SessionsTypeOK
    /\ proved <= clock
    /\ jar.key <= password
    /\ HalfLeft(jar, proved)
    /\ out => jar = NoCookie
    /\ \A t \in Tabs :
          FlightInv(request[t]) /\ StayInv(request[t]) /\ OutInv(request[t])
-----------------------------------------------------------------------------
(* Sessions: tokens and records *)

\* Two flights and the lost second fit into half a session's life.
LEMMA Durations ==
    /\ TTL \in Nat \ {0} /\ Second \in Nat \ {0} /\ Flight \in Nat \ {0}
    /\ 4 * Flight + 2 * Second <= TTL
<1>1. TTL \in Nat \ {0} /\ Second \in Nat \ {0} /\ Flight \in Nat \ {0}
  BY SessionsAssumption, Zenon
<1>2. 2 * Flight + Second <= TTL \div 2
  BY SessionsAssumption, Zenon
<1>3. 2 * (TTL \div 2) <= TTL
  BY <1>1
<1> QED
  BY <1>1, <1>2, <1>3

\* Rounding down to whole seconds loses less than one.
LEMMA WholeSeconds ==
    ASSUME NEW a \in Nat, NEW b \in Nat \ {0}
    PROVE  (a \div b) * b \in Nat /\ (a \div b) * b + b >= a
<1>1. PICK q \in Nat : q = a \div b
  OBVIOUS
<1>2. q * b \in Nat
  BY <1>1
<1>3. q * b + b >= a
  BY <1>1
<1> QED
  BY <1>1, <1>2, <1>3, Zenon

\* A token issued now is of the current key, and lasts TTL but for the second it
\* may lose.
LEMMA NewTokenLasts ==
    ASSUME SessionsTypeOK
    PROVE  /\ NewToken \in Tokens
           /\ NewToken.key = password
           /\ NewToken.expiry + Second >= clock + TTL
<1>1. PICK expiry \in Nat : /\ expiry = ((clock + TTL) \div Second) * Second
                            /\ expiry + Second >= clock + TTL
  <2>1. clock + TTL \in Nat /\ Second \in Nat \ {0}
    BY Durations DEF SessionsTypeOK
  <2> QED
    BY <2>1, WholeSeconds, Zenon
<1>2. NewToken = [key |-> password, expiry |-> expiry]
  BY <1>1, Zenon DEF NewToken, Token
<1> QED
  BY <1>1, <1>2, Zenon DEF Tokens, SessionsTypeOK

\* No cookie, no key.
LEMMA NoCookieToken == NoCookie \in Tokens /\ NoCookie.key = 0
BY Zenon DEF NoCookie, Token, Tokens

\* The records of a request that is idle, sent and answered.
LEMMA IdleRecord ==
    /\ Idle \in RequestRecords
    /\ Idle.phase = "idle" /\ Idle.cookie = NoCookie /\ Idle.fresh = NoCookie
BY NoCookieToken, Zenon DEF Idle, RequestRecords

\* A request that leaves the browser takes the cookie of that moment along.
LEMMA SentRecord ==
    ASSUME SessionsTypeOK, NEW t \in Tabs, NEW kind \in {"login", "logout", "api"},
           Send(t, kind)
    PROVE  \E a \in RequestRecords :
              /\ request' = [request EXCEPT ![t] = a]
              /\ a.phase = "sent" /\ a.kind = kind /\ a.cookie = jar
              /\ a.since = proved /\ a.sent = clock /\ a.fresh = NoCookie
<1>1. PICK a : a = [phase |-> "sent", kind |-> kind, cookie |-> jar,
                    since |-> proved, sent |-> clock, handled |-> 0,
                    ok |-> FALSE, set |-> "nothing", fresh |-> NoCookie]
  BY Zenon
<1>2. request' = [request EXCEPT ![t] = a]
  BY <1>1, Zenon DEF Send
<1>3. a \in RequestRecords
  BY <1>1, NoCookieToken, Zenon DEF RequestRecords, SessionsTypeOK
<1> QED
  BY <1>1, <1>2, <1>3, Zenon

\* The server's answer keeps what the request brought, and adds the cookie it
\* sets.
LEMMA AnsweredRecord ==
    ASSUME SessionsTypeOK, NEW t \in Tabs, NEW ok \in BOOLEAN,
           NEW set \in {"nothing", "cookie", "clear"}, Answer(t, ok, set)
    PROVE  \E a \in RequestRecords :
              /\ request' = [request EXCEPT ![t] = a]
              /\ a.phase = "answered" /\ a.kind = request[t].kind
              /\ a.cookie = NoCookie /\ a.sent = request[t].sent
              /\ a.handled = clock /\ a.ok = ok /\ a.set = set
              /\ a.fresh = IF set = "cookie" THEN NewToken ELSE NoCookie
<1>1. PICK fresh \in Tokens :
          fresh = IF set = "cookie" THEN NewToken ELSE NoCookie
  BY NewTokenLasts, NoCookieToken, Zenon
<1>2. PICK a : a = [phase |-> "answered", kind |-> request[t].kind,
                    cookie |-> NoCookie, since |-> 0, sent |-> request[t].sent,
                    handled |-> clock, ok |-> ok, set |-> set, fresh |-> fresh]
  BY Zenon
<1>3. request' = [request EXCEPT ![t] = a]
  BY <1>1, <1>2, Zenon DEF Answer
<1>4. a \in RequestRecords
  BY <1>1, <1>2, NoCookieToken, Zenon DEF RequestRecords, SessionsTypeOK
<1> QED
  BY <1>1, <1>2, <1>3, <1>4, Zenon
-----------------------------------------------------------------------------
(* Sessions: the steps *)

\* A step that only replaces the record of one request.
LEMMA RequestChanged ==
    ASSUME SessionsInv, NEW t \in Tabs, NEW a \in RequestRecords,
           request' = [request EXCEPT ![t] = a],
           UNCHANGED <<clock, password, jar, proved, out>>,
           FlightInv(a), StayInv(a), OutInv(a)
    PROVE  SessionsInv'
<1>1. SessionsTypeOK'
  BY Zenon DEF SessionsInv, SessionsTypeOK
<1>2. \A u \in Tabs : request'[u] = IF u = t THEN a ELSE request[u]
  BY Zenon DEF SessionsInv, SessionsTypeOK
<1>3. \A u \in Tabs : FlightInv(request'[u]) /\ StayInv(request'[u])
                                             /\ OutInv(request'[u])
  BY <1>2, Zenon DEF SessionsInv
<1>4. \A u \in Tabs : FlightInv(request[u])'
  BY <1>3, Zenon DEF FlightInv
<1>5. \A u \in Tabs : StayInv(request[u])'
  BY <1>3, Zenon DEF StayInv, HalfLeft
<1>6. \A u \in Tabs : OutInv(request[u])'
  BY <1>3, Zenon DEF OutInv
<1> QED
  BY <1>1, <1>4, <1>5, <1>6, Zenon DEF SessionsInv, HalfLeft

\* Nothing is known, or needed, of an idle request.
LEMMA IdleFine ==
    ASSUME SessionsTypeOK
    PROVE  FlightInv(Idle) /\ StayInv(Idle) /\ OutInv(Idle)
<1>1. password \in Nat
  BY Zenon DEF SessionsTypeOK
<1>2. FlightInv(Idle)
  BY <1>1, IdleRecord, NoCookieToken DEF FlightInv
<1> QED
  BY <1>2, IdleRecord, Zenon DEF StayInv, OutInv

\* Requests are handled: Authenticate refuses a cookie, passes one with half its
\* life left or passes one and renews it, Login issues one, Logout clears it.
LEMMA HandleStep ==
    ASSUME SessionsInv, NEW t \in Tabs, Handle(t)
    PROVE  SessionsInv'
<1> DEFINE r == request[t]
<1>1. /\ SessionsTypeOK /\ r \in RequestRecords /\ r.phase = "sent"
      /\ FlightInv(r) /\ StayInv(r) /\ OutInv(r)
      /\ UNCHANGED <<clock, password, jar, proved, out>>
  BY Zenon DEF Handle, SessionsInv, SessionsTypeOK
<1>2. /\ clock \in Nat /\ password \in Nat \ {0} /\ r.sent \in Nat
      /\ r.sent <= clock /\ clock <= r.sent + Flight
      /\ jar.key \in Nat /\ jar.expiry \in Nat
      /\ r.cookie.key \in Nat /\ r.cookie.expiry \in Nat
  BY <1>1, Zenon DEF SessionsTypeOK, RequestRecords, Tokens, FlightInv
<1> HIDE DEF r
<1>3. ASSUME NEW ok \in BOOLEAN, NEW set \in {"nothing", "cookie", "clear"},
             Answer(t, ok, set),
             ok /\ set = "nothing" => HalfLeft(jar, clock),
             r.kind = "logout" => set = "clear",
             out => set # "cookie"
      PROVE  SessionsInv'
  <2>1. PICK a \in RequestRecords :
              /\ request' = [request EXCEPT ![t] = a]
              /\ a.phase = "answered" /\ a.kind = r.kind
              /\ a.cookie = NoCookie /\ a.sent = r.sent
              /\ a.handled = clock /\ a.ok = ok /\ a.set = set
              /\ a.fresh = IF set = "cookie" THEN NewToken ELSE NoCookie
    BY <1>1, <1>3, AnsweredRecord DEF r
  <2>2. FlightInv(a)
    BY <1>1, <1>2, <2>1, NewTokenLasts, NoCookieToken DEF FlightInv
  <2>3. StayInv(a)
    BY <1>1, <1>3, <2>1, NewTokenLasts, Zenon DEF StayInv
  <2>4. OutInv(a)
    BY <1>1, <1>3, <2>1, Zenon DEF OutInv
  <2> QED
    BY <1>1, <2>1, <2>2, <2>3, <2>4, RequestChanged, Zenon
<1>4. out => r.cookie = NoCookie /\ r.kind # "login"
  BY <1>1, Zenon DEF OutInv
<1>5. CASE Authenticate(t)
  <2>1. r.kind = "api"
    BY <1>5, Zenon DEF Authenticate, r
  <2>2. CASE ~Valid(r.cookie)
    <3>1. Answer(t, FALSE, "nothing")
      BY <1>5, <2>2, Zenon DEF Authenticate, r
    <3> QED
      BY <1>3, <2>1, <3>1, Zenon
  <2>3. CASE Valid(r.cookie) /\ RenewalDue(r.cookie)
    <3>1. Answer(t, TRUE, "cookie")
      BY <1>5, <2>3, Zenon DEF Authenticate, r
    <3>2. ~out
      BY <1>2, <1>4, <2>3, NoCookieToken, Zenon DEF Valid
    <3> QED
      BY <1>3, <2>1, <3>1, <3>2, Zenon
  <2>4. CASE Valid(r.cookie) /\ ~RenewalDue(r.cookie)
    <3>1. Answer(t, TRUE, "nothing")
      BY <1>5, <2>4, Zenon DEF Authenticate, r
    <3>2. 2 * (r.cookie.expiry - clock) >= TTL
      BY <1>2, <2>4, Durations DEF RenewalDue
    <3>3. HalfLeft(jar, clock)
      <4>1. CASE jar = r.cookie
        BY <3>2, <4>1, Zenon DEF HalfLeft
      <4>2. CASE jar.key = password =>
                    jar.expiry + Second + Flight >= r.sent + TTL
        <5> SUFFICES ASSUME jar.key = password
                     PROVE  2 * (jar.expiry - clock) >= TTL
          BY Zenon DEF HalfLeft
        <5>1. jar.expiry + Second + Flight >= r.sent + TTL
          BY <4>2, Zenon
        <5> QED
          BY <1>2, <5>1, Durations
      <4> QED
        BY <1>1, <4>1, <4>2, Zenon DEF StayInv
    <3> QED
      BY <1>3, <2>1, <3>1, <3>3, Zenon
  <2> QED
    BY <2>2, <2>3, <2>4, Zenon
<1>6. ASSUME NEW right \in BOOLEAN, Login(t, right)
      PROVE  SessionsInv'
  <2>1. r.kind = "login" /\ ~out
    BY <1>4, <1>6, Zenon DEF Login, r
  <2>2. CASE right
    <3>1. Answer(t, right, "cookie")
      BY <1>6, <2>2, Zenon DEF Login
    <3> QED
      BY <1>3, <2>1, <3>1, Zenon
  <2>3. CASE ~right
    <3>1. Answer(t, right, "nothing")
      BY <1>6, <2>3, Zenon DEF Login
    <3> QED
      BY <1>3, <2>1, <2>3, <3>1, Zenon
  <2> QED
    BY <2>2, <2>3, Zenon
<1>7. CASE Logout(t)
  <2>1. Answer(t, TRUE, "clear")
    BY <1>7, Zenon DEF Logout
  <2> QED
    BY <1>3, <2>1, Zenon
<1> QED
  BY <1>5, <1>6, <1>7, Zenon DEF Handle

\* A request is sent, with the cookie there is.
LEMMA SendStep ==
    ASSUME SessionsInv, NEW t \in Tabs, NEW kind \in {"login", "logout", "api"},
           Send(t, kind)
    PROVE  SessionsInv'
<1>1. /\ SessionsTypeOK /\ proved <= clock /\ jar.key <= password
      /\ HalfLeft(jar, proved) /\ (out => jar = NoCookie)
  BY Zenon DEF SessionsInv
<1>2. PICK a \in RequestRecords :
          /\ request' = [request EXCEPT ![t] = a]
          /\ a.phase = "sent" /\ a.kind = kind /\ a.cookie = jar
          /\ a.since = proved /\ a.sent = clock /\ a.fresh = NoCookie
  BY <1>1, SentRecord, Zenon
<1>3. /\ out' = (out /\ kind # "login")
      /\ UNCHANGED <<clock, password, jar, proved>>
  BY Zenon DEF Send
<1>4. SessionsTypeOK'
  BY <1>1, <1>2, <1>3, Zenon DEF SessionsTypeOK
<1>5. \A u \in Tabs : request'[u] = IF u = t THEN a ELSE request[u]
  BY <1>1, <1>2, Zenon DEF SessionsTypeOK
<1>6. FlightInv(a)
  BY <1>1, <1>2, Durations, NoCookieToken DEF FlightInv, SessionsTypeOK
<1>7. StayInv(a)
  BY <1>1, <1>2, Zenon DEF StayInv
<1>8. \A u \in Tabs : FlightInv(request[u])' /\ StayInv(request[u])'
  <2>1. \A u \in Tabs : FlightInv(request'[u]) /\ StayInv(request'[u])
    BY <1>5, <1>6, <1>7, Zenon DEF SessionsInv
  <2> QED
    BY <1>3, <2>1, Zenon DEF FlightInv, StayInv, HalfLeft
<1>9. \A u \in Tabs : OutInv(request[u])'
  <2> TAKE u \in Tabs
  <2>1. CASE u = t
    BY <1>1, <1>2, <1>3, <1>5, <2>1, Zenon DEF OutInv
  <2>2. CASE u # t
    BY <1>3, <1>5, <2>2, Zenon DEF OutInv, SessionsInv
  <2> QED
    BY <2>1, <2>2, Zenon
<1> QED
  BY <1>1, <1>3, <1>4, <1>8, <1>9, Zenon DEF SessionsInv, HalfLeft

\* A response is received.  A cookie in it was issued at most Flight ago, so that
\* it lasts longer than any other answer asks for.
LEMMA ReceiveStep ==
    ASSUME SessionsInv, NEW t \in Tabs, Receive(t)
    PROVE  SessionsInv'
<1>1. PICK r \in RequestRecords : r = request[t]
  BY Zenon DEF SessionsInv, SessionsTypeOK
<1>2. /\ SessionsTypeOK /\ r.phase = "answered"
      /\ FlightInv(r) /\ StayInv(r) /\ OutInv(r)
      /\ request' = [request EXCEPT ![t] = Idle]
      /\ UNCHANGED <<clock, password>>
      /\ proved' = IF r.ok /\ r.kind # "logout" /\ r.handled > proved
                   THEN r.handled ELSE proved
  BY <1>1, Zenon DEF Receive, SessionsInv
<1>3. /\ r.set = "cookie" => jar' = r.fresh
      /\ r.set = "clear" => jar' = NoCookie
      /\ r.set = "nothing" => jar' = jar
  BY <1>1, Zenon DEF Receive
<1>4. /\ clock \in Nat /\ password \in Nat \ {0} /\ proved \in Nat
      /\ r.handled \in Nat /\ r.sent \in Nat
      /\ r.fresh \in Tokens /\ r.fresh.key \in Nat /\ r.fresh.expiry \in Nat
      /\ jar \in Tokens /\ jar.key \in Nat /\ jar.expiry \in Nat
      /\ r.set \in {"nothing", "cookie", "clear"} /\ r.ok \in BOOLEAN
  BY <1>2, Zenon DEF SessionsTypeOK, RequestRecords, Tokens
<1>5. /\ r.sent <= r.handled /\ r.handled <= clock /\ clock <= r.sent + Flight
      /\ r.fresh.key <= password
      /\ proved <= clock /\ jar.key <= password /\ HalfLeft(jar, proved)
      /\ out => jar = NoCookie
  BY <1>2, Zenon DEF FlightInv, SessionsInv
<1>6. proved' \in Nat /\ proved' <= clock
  BY <1>2, <1>4, <1>5, Zenon
<1>7. SessionsTypeOK'
  <2>1. jar' \in Tokens
    BY <1>3, <1>4, NoCookieToken, Zenon
  <2>2. request' \in [Tabs -> RequestRecords]
    BY <1>2, IdleRecord, Zenon DEF SessionsTypeOK
  <2>3. out' \in BOOLEAN
    BY <1>2, Zenon DEF Receive, SessionsTypeOK
  <2> QED
    BY <1>2, <1>6, <2>1, <2>2, <2>3, Zenon DEF SessionsTypeOK
<1>8. jar'.key <= password
  BY <1>3, <1>4, <1>5, NoCookieToken
<1>9. r.set = "cookie" => jar'.expiry + Second + Flight >= clock + TTL
  <2> SUFFICES ASSUME r.set = "cookie"
               PROVE  r.fresh.expiry + Second + Flight >= clock + TTL
    BY <1>3, Zenon
  <2>1. r.fresh.expiry + Second >= r.handled + TTL
    BY <1>2, Zenon DEF StayInv
  <2> QED
    BY <1>4, <1>5, <2>1, Durations
<1>10. ASSUME NEW h \in Nat, h <= clock, r.set = "cookie"
       PROVE  2 * (jar'.expiry - h) >= TTL
  <2>1. jar'.expiry \in Nat
    BY <1>3, <1>4, <1>10, Zenon
  <2> QED
    BY <1>4, <1>9, <1>10, <2>1, Durations
<1>11. ASSUME NEW h \in Nat, h <= clock, HalfLeft(jar, h)
       PROVE  HalfLeft(jar, h)' /\ HalfLeft(jar', h)
  <2>1. CASE r.set = "cookie"
    BY <1>10, <1>11, <2>1, Zenon DEF HalfLeft
  <2>2. CASE r.set = "clear"
    BY <1>2, <1>3, <1>4, <2>2, NoCookieToken, Zenon DEF HalfLeft
  <2>3. CASE r.set = "nothing"
    BY <1>2, <1>3, <1>11, <2>3, Zenon DEF HalfLeft
  <2> QED
    BY <1>4, <2>1, <2>2, <2>3, Zenon
<1>12. HalfLeft(jar, proved)'
  <2>1. CASE proved' = proved
    BY <1>2, <1>4, <1>5, <1>11, <2>1, Zenon DEF HalfLeft
  <2>2. CASE proved' = r.handled /\ r.ok /\ r.kind # "logout"
    <3>1. CASE r.set = "nothing"
      <4>1. HalfLeft(jar, r.handled)
        BY <1>2, <2>2, <3>1, Zenon DEF StayInv
      <4> QED
        BY <1>2, <1>3, <2>2, <3>1, <4>1, Zenon DEF HalfLeft
    <3>2. CASE r.set = "cookie"
      BY <1>4, <1>5, <1>10, <2>2, <3>2, Zenon DEF HalfLeft
    <3>3. CASE r.set = "clear"
      BY <1>2, <1>3, <1>4, <3>3, NoCookieToken, Zenon DEF HalfLeft
    <3> QED
      BY <1>4, <3>1, <3>2, <3>3, Zenon
  <2> QED
    BY <1>2, <2>1, <2>2, Zenon
<1>13. out' => jar' = NoCookie
  <2>1. CASE out
    BY <1>2, <1>3, <1>4, <1>5, <2>1, Zenon DEF OutInv
  <2>2. CASE r.kind = "logout"
    BY <1>2, <1>3, <2>2, Zenon DEF OutInv
  <2> QED
    BY <1>1, <2>1, <2>2, Zenon DEF Receive
<1>14. \A u \in Tabs : request'[u] = IF u = t THEN Idle ELSE request[u]
  BY <1>2, Zenon DEF SessionsTypeOK
<1>15. ASSUME NEW u \in Tabs, u # t
       PROVE  FlightInv(request[u])' /\ StayInv(request[u])' /\ OutInv(request[u])'
  <2>1. PICK q \in RequestRecords : q = request[u] /\ q = request'[u]
    BY <1>2, <1>14, <1>15, Zenon DEF SessionsTypeOK
  <2>2. FlightInv(q) /\ StayInv(q) /\ OutInv(q)
    BY <1>15, <2>1, Zenon DEF SessionsInv
  <2>3. q.handled \in Nat /\ q.sent \in Nat
    BY Zenon DEF RequestRecords
  <2>4. FlightInv(request[u])'
    BY <1>2, <2>1, <2>2, Zenon DEF FlightInv
  <2>5. q.phase = "sent" => HalfLeft(q.cookie, q.since)'
    BY <1>2, <2>2, Zenon DEF StayInv, HalfLeft
  <2>6. q.phase = "sent" =>
            \/ jar' = q.cookie
            \/ jar'.key = password =>
                  jar'.expiry + Second + Flight >= q.sent + TTL
    <3> SUFFICES ASSUME q.phase = "sent"
                 PROVE  \/ jar' = q.cookie
                        \/ jar'.key = password =>
                              jar'.expiry + Second + Flight >= q.sent + TTL
      BY Zenon
    <3>1. CASE r.set = "cookie"
      <4>1. q.sent <= clock
        BY <2>2, Zenon DEF FlightInv
      <4>2. jar'.expiry \in Nat
        BY <1>3, <1>4, <3>1, Zenon
      <4> QED
        BY <1>4, <1>9, <2>3, <3>1, <4>1, <4>2, Durations
    <3>2. CASE r.set = "clear"
      BY <1>3, <1>4, <3>2, NoCookieToken, Zenon
    <3>3. CASE r.set = "nothing"
      BY <1>3, <2>2, <3>3, Zenon DEF StayInv
    <3> QED
      BY <1>4, <3>1, <3>2, <3>3, Zenon
  <2>7. q.phase = "answered" /\ q.ok /\ q.set = "nothing" => HalfLeft(jar', q.handled)
    BY <1>11, <2>2, <2>3, Zenon DEF StayInv, FlightInv
  <2>8. StayInv(request[u])'
    BY <1>2, <2>1, <2>2, <2>5, <2>6, <2>7, Zenon DEF StayInv, HalfLeft
  <2>9. OutInv(request[u])'
    <3>1. CASE out
      BY <2>1, <2>2, <3>1, Zenon DEF OutInv
    <3>2. CASE ~out /\ out'
      <4>1. q.phase = "idle"
        BY <1>15, <2>1, <3>2, Zenon DEF Receive
      <4> QED
        BY <2>1, <4>1, Zenon DEF OutInv
    <3>3. CASE ~out'
      BY <2>1, <2>2, <3>3, Zenon DEF OutInv
    <3> QED
      BY <3>1, <3>2, <3>3, Zenon
  <2> QED
    BY <2>4, <2>8, <2>9, Zenon
<1>16. FlightInv(request[t])' /\ StayInv(request[t])' /\ OutInv(request[t])'
  <2>1. request'[t] = Idle
    BY <1>14, Zenon
  <2>2. FlightInv(request[t])'
    BY <1>2, <1>4, <2>1, IdleRecord, NoCookieToken DEF FlightInv
  <2> QED
    BY <2>1, <2>2, IdleRecord, Zenon DEF StayInv, OutInv
<1> QED
  BY <1>2, <1>6, <1>7, <1>8, <1>12, <1>13, <1>15, <1>16, Zenon DEF SessionsInv

\* With another password the signing key is one that no token is of, and the
\* requests that were sent are lost.
LEMMA ChangePasswordStep ==
    ASSUME SessionsInv, ChangePassword
    PROVE  SessionsInv'
<1>1. /\ SessionsTypeOK /\ password \in Nat \ {0} /\ password' = password + 1
      /\ UNCHANGED <<clock, jar, proved, out>>
      /\ jar \in Tokens /\ jar.key \in Nat /\ jar.key <= password
  BY Zenon DEF SessionsInv, SessionsTypeOK, Tokens, ChangePassword
<1>2. jar.key # password' /\ jar.key <= password'
  BY <1>1
<1>3. \A u \in Tabs :
          request'[u] = IF request[u].phase = "sent" THEN Idle ELSE request[u]
  BY Zenon DEF ChangePassword
<1>4. SessionsTypeOK'
  <2>1. request' \in [Tabs -> RequestRecords]
    BY <1>1, IdleRecord, Zenon DEF ChangePassword, SessionsTypeOK
  <2> QED
    BY <1>1, <2>1 DEF SessionsTypeOK
<1>5. ASSUME NEW u \in Tabs
      PROVE  FlightInv(request[u])' /\ StayInv(request[u])' /\ OutInv(request[u])'
  <2>1. PICK q \in RequestRecords : q = request'[u]
    BY <1>4, Zenon DEF SessionsTypeOK
  <2>2. FlightInv(q) /\ StayInv(q) /\ OutInv(q)
    BY <1>1, <1>3, <2>1, IdleFine, Zenon DEF SessionsInv
  <2>3. q.phase # "sent"
    BY <1>3, <2>1, IdleRecord, Zenon
  <2>4. q.cookie.key \in Nat /\ q.fresh.key \in Nat
    BY Zenon DEF RequestRecords, Tokens
  <2>5. q.cookie.key <= password' /\ q.fresh.key <= password'
    BY <1>1, <2>2, <2>4 DEF FlightInv
  <2>6. FlightInv(request[u])'
    BY <1>1, <2>1, <2>2, <2>5, Zenon DEF FlightInv
  <2>7. StayInv(request[u])'
    BY <1>1, <1>2, <2>1, <2>2, <2>3, Zenon DEF StayInv, HalfLeft
  <2>8. OutInv(request[u])'
    BY <1>1, <2>1, <2>2, Zenon DEF OutInv
  <2> QED
    BY <2>6, <2>7, <2>8, Zenon
<1> QED
  BY <1>1, <1>2, <1>4, <1>5, Zenon DEF SessionsInv, HalfLeft

\* The initial state satisfies the invariant.
LEMMA SessionsInitInv == SessionsInit => SessionsInv
<1> SUFFICES ASSUME SessionsInit
             PROVE  SessionsInv
  BY Zenon
<1>1. SessionsTypeOK
  <2>1. request \in [Tabs -> RequestRecords]
    BY IdleRecord, Zenon DEF SessionsInit
  <2>2. jar \in Tokens
    BY NoCookieToken, Zenon DEF SessionsInit
  <2>3. out \in BOOLEAN
    BY Zenon DEF SessionsInit
  <2> QED
    BY <2>1, <2>2, <2>3 DEF SessionsInit, SessionsTypeOK
<1>2. \A t \in Tabs : request[t] = Idle
  BY Zenon DEF SessionsInit
<1>3. \A t \in Tabs :
          FlightInv(request[t]) /\ StayInv(request[t]) /\ OutInv(request[t])
  BY <1>1, <1>2, IdleFine, Zenon
<1>4. jar.key = 0 /\ password = 1 /\ proved = clock /\ clock = 0
  BY NoCookieToken, Zenon DEF SessionsInit
<1> QED
  BY <1>1, <1>3, <1>4 DEF SessionsInit, SessionsInv, HalfLeft

\* Every step preserves the invariant.
LEMMA SessionsStep == SessionsInv /\ [SessionsNext]_sessionVars => SessionsInv'
<1> SUFFICES ASSUME SessionsInv, [SessionsNext]_sessionVars
             PROVE  SessionsInv'
  BY Zenon
<1>1. CASE Pass
  <2>1. /\ SessionsTypeOK /\ clock \in Nat /\ clock' = clock + 1
        /\ UNCHANGED <<password, jar, request, proved, out>>
    BY <1>1, Zenon DEF Pass, SessionsInv, SessionsTypeOK
  <2>2. SessionsTypeOK'
    BY <2>1 DEF SessionsTypeOK
  <2>3. proved <= clock'
    BY <2>1 DEF SessionsInv, SessionsTypeOK
  <2>4. ASSUME NEW t \in Tabs
        PROVE  FlightInv(request[t])'
    <3>1. PICK r \in RequestRecords : r = request[t] /\ r = request'[t]
      BY <2>1, Zenon DEF SessionsTypeOK
    <3>2. /\ FlightInv(r)
          /\ r.phase # "idle" => clock < r.sent + Flight
      BY <1>1, <3>1, Zenon DEF SessionsInv, Pass
    <3>3. r.sent \in Nat /\ r.handled \in Nat
      BY Zenon DEF RequestRecords
    <3>4. /\ r.phase # "idle" => r.sent <= clock' /\ clock' <= r.sent + Flight
          /\ r.phase = "answered" => r.sent <= r.handled /\ r.handled <= clock'
      BY <2>1, <3>2, <3>3, Durations DEF FlightInv
    <3> QED
      BY <2>1, <3>1, <3>2, <3>4, Zenon DEF FlightInv
  <2>5. \A t \in Tabs : StayInv(request[t])' /\ OutInv(request[t])'
    BY <2>1 DEF SessionsInv, StayInv, HalfLeft, OutInv
  <2> QED
    BY <2>1, <2>2, <2>3, <2>4, <2>5, Zenon DEF SessionsInv, HalfLeft
<1>2. ASSUME NEW t \in Tabs, Lose(t)
      PROVE  SessionsInv'
  <2>1. SessionsTypeOK
    BY Zenon DEF SessionsInv
  <2> QED
    BY <1>2, <2>1, IdleFine, IdleRecord, RequestChanged, Zenon DEF Lose
<1>3. CASE UNCHANGED sessionVars
  <2>1. \A t \in Tabs :
            FlightInv(request[t])' /\ StayInv(request[t])' /\ OutInv(request[t])'
    BY <1>3 DEF sessionVars, SessionsInv, FlightInv, StayInv, HalfLeft, OutInv
  <2> QED
    BY <1>3, <2>1, Zenon DEF sessionVars, SessionsInv, SessionsTypeOK, HalfLeft
<1> QED
  BY <1>1, <1>2, <1>3, SendStep, HandleStep, ReceiveStep, ChangePasswordStep,
     Zenon
  DEF SessionsNext
-----------------------------------------------------------------------------
(* Sessions: the theorems *)

\* A logout that nothing overlaps is final, whatever requests of however many
\* tabs follow it, until the next login.
THEOREM LogoutFinal ==
    SessionsInit /\ [][SessionsNext]_sessionVars => []LogoutIsFinal
<1>1. SessionsInv => LogoutIsFinal
  BY Zenon DEF SessionsInv, LogoutIsFinal
<1> QED
  BY <1>1, SessionsInitInv, SessionsStep, PTL

\* "An active admin is never logged out mid-task": with renewal past half the
\* life of a cookie, Authenticate refuses one of the current key only when the
\* browser, at the time it sent the request, had heard of no success in the half
\* life before; for any TTL of which two flights and a second are at most half,
\* and however the responses of concurrent requests are reordered or lost.
THEOREM ActiveStaysLoggedIn ==
    SessionsInit /\ [][SessionsNext]_sessionVars => ActiveStaysIn
<1> DEFINE Refused(t) ==
        LET r == request[t] IN
        /\ r.phase = "sent" /\ r.kind = "api"
        /\ request'[t].phase = "answered" /\ ~request'[t].ok
        /\ r.cookie.key = password
<1>1. ASSUME SessionsInv, SessionsNext, NEW t \in Tabs, Refused(t)
      PROVE  2 * (clock - request[t].since) >= TTL
  <2>1. PICK r \in RequestRecords : r = request[t]
    BY <1>1, Zenon DEF SessionsInv, SessionsTypeOK
  <2>2. /\ SessionsTypeOK /\ r.phase = "sent" /\ r.kind = "api"
        /\ r.cookie.key = password /\ HalfLeft(r.cookie, r.since)
    BY <1>1, <2>1, Zenon DEF SessionsInv, StayInv
  <2>3. Handle(t)
    <3>1. ASSUME NEW u \in Tabs, u # t,
                 \/ \E kind \in {"login", "logout", "api"} : Send(u, kind)
                 \/ Handle(u) \/ Receive(u) \/ Lose(u)
          PROVE  request'[t] = request[t]
      BY <1>1, <3>1, Zenon
      DEF Send, Handle, Authenticate, Login, Logout, Answer, Receive, Lose,
          SessionsInv, SessionsTypeOK
    <3>2. ASSUME \/ \E kind \in {"login", "logout", "api"} : Send(t, kind)
                 \/ Receive(t) \/ Lose(t)
          PROVE  request'[t].phase # "answered"
      BY <1>1, <2>1, <2>2, <3>2, IdleRecord, Zenon
      DEF Send, Receive, Lose, SessionsInv, SessionsTypeOK
    <3>3. Pass => request'[t] = request[t]
      BY Zenon DEF Pass
    <3>4. ChangePassword => request'[t] = Idle
      BY <2>1, <2>2, Zenon DEF ChangePassword
    <3> QED
      BY <1>1, <2>1, <2>2, <3>1, <3>2, <3>3, <3>4, IdleRecord, Zenon
      DEF SessionsNext
  <2>4. ~Valid(r.cookie)
    <3>1. Authenticate(t)
      BY <2>1, <2>2, <2>3, Zenon DEF Handle, Login, Logout
    <3>2. CASE Valid(r.cookie)
      <4>1. PICK set \in {"cookie", "nothing"} : Answer(t, TRUE, set)
        BY <2>1, <3>1, <3>2, Zenon DEF Authenticate
      <4>2. request'[t].ok
        BY <2>2, <4>1, Zenon DEF Answer, SessionsTypeOK
      <4> QED
        BY <1>1, <4>2, Zenon
    <3> QED
      BY <3>2, Zenon
  <2>5. clock \in Nat /\ r.cookie.expiry \in Nat /\ r.since \in Nat
    BY <2>2, Zenon DEF SessionsTypeOK, RequestRecords, Tokens
  <2>6. clock >= r.cookie.expiry
    BY <2>2, <2>4, <2>5 DEF Valid
  <2>7. 2 * (r.cookie.expiry - r.since) >= TTL
    BY <2>2, Zenon DEF HalfLeft
  <2> QED
    BY <2>1, <2>5, <2>6, <2>7, Durations
<1>2. SessionsInv /\ [SessionsNext]_sessionVars
        => [\A t \in Tabs : Refused(t) => 2 * (clock - request[t].since) >= TTL]_sessionVars
  <2> HIDE DEF Refused
  <2> QED
    BY <1>1, Zenon
<1> QED
  BY <1>2, SessionsInitInv, SessionsStep, PTL DEF ActiveStaysIn
-----------------------------------------------------------------------------
(* Sources: Sign and Verify *)

\* What is set in a header is read from it.
LEMMA HeaderGet ==
    ASSUME NEW name, NEW value
    PROVE  Get(Header(name, value), name) = value
BY Zenon DEF Get, Header

\* Taking a prefix off undoes putting it on.
LEMMA PrefixOff ==
    ASSUME NEW prefix, NEW part
    PROVE  /\ TrimPrefix(WithPrefix(prefix, part), prefix) = <<part>>
           /\ WithPrefix(prefix, part) # <<>>
<1>1. CASE prefix = ""
  BY <1>1, Zenon DEF TrimPrefix, WithPrefix
<1>2. CASE prefix # ""
  <2>1. WithPrefix(prefix, part) = <<prefix, part>>
    BY <1>2, Zenon DEF WithPrefix
  <2>2. /\ Head(<<prefix, part>>) = prefix /\ Tail(<<prefix, part>>) = <<part>>
        /\ <<prefix, part>> # <<>>
    OBVIOUS
  <2> QED
    BY <1>2, <2>1, <2>2, Zenon DEF TrimPrefix
<1> QED
  BY <1>1, <1>2, Zenon

Stamped(def) == def.type = "hmac" /\ def.stamped

\* VerifyRequest accepts what Sign made if and only if the secrets agree and
\* the timestamp, where the scheme has one, is fresh.
LEMMA VerifyUndoesSign ==
    ASSUME NEW def, Validate(def), NEW body, NEW secret, NEW other,
           NEW stamp, NEW time
    PROVE  VerifyRequest(def, body, Sign(def, body, secret, stamp), other, time)
           <=> \/ def.type = "none"
               \/ /\ secret = other
                  /\ Stamped(def) => Fresh(def, stamp, time)
<1>0. def.type \in {"none", "hmac", "api_key", "basic_auth"}
  BY Zenon DEF Validate, Types
<1>1. PICK headers : headers = Sign(def, body, secret, stamp)
  BY Zenon
<1>2. CASE def.type = "none"
  BY <1>2, Zenon DEF VerifyRequest
<1>3. CASE def.type = "hmac" /\ ~def.stamped
  <2>1. PICK sig : sig = EncodeSignature(ComputeHMAC(def, secret, <<body>>),
                                         def.encoding)
    BY Zenon
  <2>2. PICK own : own = EncodeSignature(ComputeHMAC(def, other, <<body>>),
                                         def.encoding)
    BY Zenon
  <2>3. headers = Header(def.header, WithPrefix(def.prefix, sig))
    BY <1>1, <1>3, <2>1, Zenon DEF Sign, SignHMAC
  <2>4. Get(headers, def.header) = WithPrefix(def.prefix, sig)
    BY <2>3, HeaderGet, Zenon
  <2>5. VerifyHMAC(def, body, headers, other, time) <=> <<sig>> = <<own>>
    BY <1>3, <2>2, <2>4, PrefixOff, Zenon DEF VerifyHMAC
  <2>6. <<sig>> = <<own>> <=> secret = other
    BY <2>1, <2>2, Zenon DEF EncodeSignature, ComputeHMAC
  <2>7. VerifyRequest(def, body, headers, other, time)
        <=> VerifyHMAC(def, body, headers, other, time)
    BY <1>3, Zenon DEF VerifyRequest
  <2> QED
    BY <1>1, <1>3, <2>5, <2>6, <2>7, Zenon DEF Stamped
<1>4. CASE def.type = "hmac" /\ def.stamped
  <2>1. PICK sig : sig = EncodeSignature(
                            ComputeHMAC(def, secret, <<stamp, body>>), def.encoding)
    BY Zenon
  <2>2. PICK own : own = EncodeSignature(
                            ComputeHMAC(def, other, <<stamp, body>>), def.encoding)
    BY Zenon
  <2>3. headers = Header(def.header, <<stamp, sig>>)
    BY <1>1, <1>4, <2>1, Zenon DEF Sign, SignHMAC
  <2>4. Get(headers, def.header) = <<stamp, sig>>
    BY <2>3, HeaderGet, Zenon
  <2>5. /\ <<stamp, sig>> # <<>> /\ Len(<<stamp, sig>>) = 2
        /\ <<stamp, sig>>[1] = stamp /\ Tail(<<stamp, sig>>) = <<sig>>
    OBVIOUS
  <2>6. VerifyHMAC(def, body, headers, other, time)
        <=> Fresh(def, stamp, time) /\ <<sig>> = <<own>>
    BY <1>4, <2>2, <2>4, <2>5, Zenon DEF VerifyHMAC
  <2>7. <<sig>> = <<own>> <=> secret = other
    BY <2>1, <2>2, Zenon DEF EncodeSignature, ComputeHMAC
  <2>8. VerifyRequest(def, body, headers, other, time)
        <=> VerifyHMAC(def, body, headers, other, time)
    BY <1>4, Zenon DEF VerifyRequest
  <2> QED
    BY <1>1, <1>4, <2>6, <2>7, <2>8, Zenon DEF Stamped
<1>5. CASE def.type = "api_key"
  <2>1. headers = Header(def.header, WithPrefix(def.prefix, secret))
    BY <1>1, <1>5, Zenon DEF Sign
  <2>2. Get(headers, def.header) = WithPrefix(def.prefix, secret)
    BY <2>1, HeaderGet, Zenon
  <2>3. VerifyAPIKey(def, headers, other) <=> <<secret>> = <<other>>
    BY <2>2, PrefixOff, Zenon DEF VerifyAPIKey
  <2>4. <<secret>> = <<other>> <=> secret = other
    BY Zenon
  <2>5. VerifyRequest(def, body, headers, other, time)
        <=> VerifyAPIKey(def, headers, other)
    BY <1>5, Zenon DEF VerifyRequest
  <2> QED
    BY <1>1, <1>5, <2>3, <2>4, <2>5, Zenon DEF Stamped
<1>6. CASE def.type = "basic_auth"
  <2>1. headers = Header("Authorization",
                         WithPrefix("Basic ", EncodeSignature(secret, "base64")))
    BY <1>1, <1>6, Zenon DEF Sign
  <2>2. Get(headers, "Authorization") =
           WithPrefix("Basic ", EncodeSignature(secret, "base64"))
    BY <2>1, HeaderGet, Zenon
  <2>3. VerifyBasicAuth(headers, other) <=> secret = other
    <3>1. ASSUME NEW x
          PROVE  WithPrefix("Basic ", EncodeSignature(x, "base64"))
                    = <<"Basic ", <<"base64", x>>>>
      BY Zenon DEF WithPrefix, EncodeSignature
    <3>2. <<"Basic ", <<"base64", secret>>>> = <<"Basic ", <<"base64", other>>>>
          <=> secret = other
      BY Zenon
    <3> QED
      BY <2>2, <3>1, <3>2, Zenon DEF VerifyBasicAuth
  <2>4. VerifyRequest(def, body, headers, other, time)
        <=> VerifyBasicAuth(headers, other)
    BY <1>6, Zenon DEF VerifyRequest
  <2> QED
    BY <1>1, <1>6, <2>3, <2>4, Zenon DEF Stamped
<1> QED
  BY <1>0, <1>2, <1>3, <1>4, <1>5, <1>6, Zenon
-----------------------------------------------------------------------------
(* Sources: the rows and the calls *)

AllBodies == Bodies \cup {Sample}
Sealed == [secret : {req.secret : req \in Requests}, key : {1, 2}]

\* What create stores: a source whose scheme has something to check has a
\* secret.
SourceRows ==
    {row \in [provider : {req.provider : req \in Requests},
              sealed : Sealed \cup {NoValue},
              strategy : {req.strategy : req \in Requests} \cup {NoValue},
              path : {req.path : req \in Requests} \cup {NoValue}] :
        row.provider \in DOMAIN Catalog /\ Catalog[row.provider].type # "none"
            => row.sealed \in Sealed}

DedupeKeys ==
    UNION {{DedupeKey(row, body) : body \in AllBodies} : row \in SourceRows}

StoredRows ==
    [source : Nat, body : AllBodies, verified : BOOLEAN,
     dedupe_key : DedupeKeys]

SourcesTypeOK ==
    /\ seconds \in Nat
    /\ enc_key \in {1, 2}
    /\ sources \in Seq(SourceRows)
    /\ stored \in Seq(StoredRows)

\* A call on its way carries what Sign made of its body; a test event also
\* the secret of its source, which the process that sends it can open.
CallInv ==
    call # NoCall =>
        /\ call.source \in DOMAIN sources
        /\ call.body \in AllBodies
        /\ call.stamp \in Nat
        /\ Row.provider \in DOMAIN Catalog =>
              call.headers = Sign(Catalog[Row.provider], call.body, call.secret,
                                  call.stamp)
        /\ call.kind = "test" =>
              /\ Row.provider \in DOMAIN Catalog
              /\ Decryptable(Row.sealed)
              /\ call.secret = Decrypt(Row.sealed)

\* An event has the key that its body has for its source.
KeysInv ==
    \A i \in DOMAIN stored :
        /\ stored[i].source \in DOMAIN sources
        /\ stored[i].body \in AllBodies
        /\ stored[i].dedupe_key = DedupeKey(sources[stored[i].source],
                                            stored[i].body)

SourcesInv == SourcesTypeOK /\ CallInv /\ KeysInv

\* create stores a row of that type.
LEMMA CreateRow ==
    ASSUME SourcesTypeOK, NEW req \in Requests, CreateSource(req)
    PROVE  \E row \in SourceRows : sources' = Append(sources, row)
<1>1. PICK row : /\ row = [provider |-> req.provider,
                           sealed |-> IF req.secret = NoValue THEN NoValue
                                      ELSE Encrypt(req.secret),
                           strategy |-> IF req.enabled THEN req.strategy
                                        ELSE NoValue,
                           path |-> IF req.enabled THEN req.path ELSE NoValue]
                 /\ sources' = Append(sources, row)
  BY Zenon DEF CreateSource, InsertSource
<1>2. Encrypt(req.secret) \in Sealed
  BY Zenon DEF Encrypt, Sealed, SourcesTypeOK
<1>3. req.provider \in DOMAIN Catalog /\ Catalog[req.provider].type # "none"
        => req.secret # NoValue
  BY Zenon DEF CreateSource, Acceptable
<1>4. /\ row.provider = req.provider
      /\ row.sealed = IF req.secret = NoValue THEN NoValue
                      ELSE Encrypt(req.secret)
  BY <1>1, Zenon
<1>5. row \in [provider : {q.provider : q \in Requests},
               sealed : Sealed \cup {NoValue},
               strategy : {q.strategy : q \in Requests} \cup {NoValue},
               path : {q.path : q \in Requests} \cup {NoValue}]
  BY <1>1, <1>2, Zenon
<1>6. row.provider \in DOMAIN Catalog /\ Catalog[row.provider].type # "none"
        => row.sealed \in Sealed
  BY <1>2, <1>3, <1>4, Zenon
<1> QED
  BY <1>1, <1>5, <1>6, Zenon DEF SourceRows

\* Every action preserves SourcesInv: rows are only appended, and a restart
\* with another key drops the test event that was signed under the old one.
LEMMA SourcesStep == SourcesInv /\ [SourcesNext]_sourceVars => SourcesInv'
<1> SUFFICES ASSUME SourcesInv, [SourcesNext]_sourceVars
             PROVE  SourcesInv'
  BY Zenon
<1>0. SourcesTypeOK /\ CallInv /\ KeysInv
  BY Zenon DEF SourcesInv
<1>1. ASSUME NEW req \in Requests, CreateSource(req) PROVE SourcesInv'
  <2>1. PICK row \in SourceRows : sources' = Append(sources, row)
    BY <1>0, <1>1, CreateRow, Zenon
  <2>2. /\ sources' \in Seq(SourceRows)
        /\ \A i \in DOMAIN sources :
              i \in DOMAIN sources' /\ sources'[i] = sources[i]
    BY <1>0, <2>1 DEF SourcesTypeOK
  <2>3. UNCHANGED <<seconds, enc_key, call, stored>>
    BY <1>1, Zenon DEF CreateSource
  <2>4. SourcesTypeOK'
    BY <1>0, <2>2, <2>3, Zenon DEF SourcesTypeOK
  <2>5. CallInv'
    BY <1>0, <2>2, <2>3, Zenon DEF CallInv, Row, Decryptable
  <2>6. KeysInv'
    BY <1>0, <2>2, <2>3, Zenon DEF KeysInv
  <2> QED
    BY <2>4, <2>5, <2>6, Zenon DEF SourcesInv
<1>2. ASSUME NEW i \in DOMAIN sources, TestEvent(i) PROVE SourcesInv'
  <2>1. PICK secret : secret = Decrypt(sources[i].sealed)
    BY Zenon
  <2>2. /\ sources[i].provider \in DOMAIN Catalog
        /\ Decryptable(sources[i].sealed)
        /\ call' = [kind |-> "test", source |-> i, body |-> Sample,
                    headers |-> Sign(Catalog[sources[i].provider], Sample,
                                     secret, seconds),
                    secret |-> secret, stamp |-> seconds]
        /\ UNCHANGED <<seconds, enc_key, sources, stored>>
    BY <1>2, <2>1, Zenon DEF TestEvent, GetSource
  <2>3. /\ call'.source = i /\ call'.body = Sample
        /\ call'.headers = Sign(Catalog[sources[i].provider], Sample, secret,
                                seconds)
        /\ call'.secret = secret /\ call'.stamp = seconds
    BY <2>2, Zenon
  <2>4. CallInv'
    BY <1>0, <2>1, <2>2, <2>3, Zenon
    DEF CallInv, Row, Decryptable, AllBodies, SourcesTypeOK
  <2> QED
    BY <1>0, <2>2, <2>4, Zenon DEF SourcesInv, SourcesTypeOK, KeysInv
<1>3. ASSUME NEW i \in DOMAIN sources, NEW b \in Bodies, NEW s \in Secrets,
             NEW t \in 0..MaxSeconds, Webhook(i, b, s, t)
      PROVE  SourcesInv'
  <2>1. PICK headers :
           /\ sources[i].provider \in DOMAIN Catalog =>
                 headers = Sign(Catalog[sources[i].provider], b, s, t)
           /\ call' = [kind |-> "webhook", source |-> i, body |-> b,
                       headers |-> headers, secret |-> s, stamp |-> t]
           /\ UNCHANGED <<seconds, enc_key, sources, stored>>
    BY <1>3, Zenon DEF Webhook, GetSourceByEndpointPath
  <2>2. /\ call'.kind = "webhook" /\ call'.source = i /\ call'.body = b
        /\ call'.headers = headers /\ call'.secret = s /\ call'.stamp = t
        /\ t \in Nat /\ "webhook" # "test"
    BY <2>1
  <2>3. CallInv'
    BY <2>1, <2>2, Zenon DEF CallInv, Row, AllBodies
  <2> QED
    BY <1>0, <2>1, <2>3, Zenon DEF SourcesInv, SourcesTypeOK, KeysInv
<1>4. CASE Store
  <2>1. PICK row \in SourceRows :
           /\ row = sources[call.source] /\ call.source \in DOMAIN sources
           /\ call.source \in Nat /\ call.body \in AllBodies
    BY <1>0, <1>4 DEF Store, CallInv, SourcesTypeOK
  <2>2. PICK e : /\ e = [source |-> call.source, body |-> call.body,
                         verified |-> VerifySource(row, call.body, call.headers),
                         dedupe_key |-> DedupeKey(row, call.body)]
                 /\ stored' = Append(stored, e) /\ call' = NoCall
                 /\ UNCHANGED <<seconds, enc_key, sources>>
    BY <1>4, <2>1, Zenon DEF Store
  <2>3. VerifySource(row, call.body, call.headers) \in BOOLEAN
    BY Zenon DEF VerifySource
  <2>4. PICK key \in DedupeKeys : key = DedupeKey(row, call.body)
    <3>1. DedupeKey(row, call.body) \in {DedupeKey(row, body) : body \in AllBodies}
      BY <2>1, Zenon
    <3> QED
      BY <3>1, Zenon DEF DedupeKeys
  <2>5. PICK v \in BOOLEAN : v = VerifySource(row, call.body, call.headers)
    BY <2>3, Zenon
  <2>6. e = [source |-> call.source, body |-> call.body, verified |-> v,
             dedupe_key |-> key]
    BY <2>2, <2>4, <2>5, Zenon
  <2>7. /\ e \in StoredRows
        /\ e.source = call.source /\ e.body = call.body /\ e.dedupe_key = key
    BY <2>1, <2>6, Zenon DEF StoredRows
  <2>8. /\ stored' \in Seq(StoredRows)
        /\ \A i \in DOMAIN stored' :
              stored'[i] = e \/ (i \in DOMAIN stored /\ stored'[i] = stored[i])
    BY <1>0, <2>2, <2>7 DEF SourcesTypeOK
  <2>9. KeysInv'
    <3>1. e.dedupe_key = DedupeKey(sources[e.source], e.body)
          /\ e.source \in DOMAIN sources /\ e.body \in AllBodies
      BY <2>1, <2>4, <2>7, Zenon
    <3> QED
      BY <1>0, <2>2, <2>8, <3>1, Zenon DEF KeysInv
  <2>10. SourcesTypeOK'
    BY <1>0, <2>2, <2>8, Zenon DEF SourcesTypeOK
  <2> QED
    BY <2>2, <2>9, <2>10, Zenon DEF SourcesInv, CallInv
<1>5. CASE SecondPasses
  <2>1. seconds' \in Nat /\ UNCHANGED <<enc_key, sources, call, stored>>
    BY <1>0, <1>5 DEF SecondPasses, SourcesTypeOK
  <2> QED
    BY <1>0, <2>1, Zenon
    DEF SourcesInv, SourcesTypeOK, CallInv, KeysInv, Row, Decryptable
<1>6. CASE ChangeKey
  <2>1. /\ enc_key' \in {1, 2} /\ UNCHANGED <<seconds, sources, stored>>
        /\ call' = IF call.kind = "test" THEN NoCall ELSE call
    BY <1>0, <1>6 DEF ChangeKey, SourcesTypeOK
  <2> QED
    BY <1>0, <2>1, Zenon DEF SourcesInv, SourcesTypeOK, CallInv, KeysInv, Row
<1>7. CASE UNCHANGED sourceVars
  BY <1>0, <1>7, Zenon
  DEF sourceVars, SourcesInv, SourcesTypeOK, CallInv, KeysInv, Row, Decryptable
<1> QED
  BY <1>1, <1>2, <1>3, <1>4, <1>5, <1>6, <1>7, Zenon DEF SourcesNext

\* The initial state satisfies SourcesInv.
LEMMA SourcesInitInv == SourcesInit => SourcesInv
BY DEF SourcesInit, SourcesInv, SourcesTypeOK, CallInv, KeysInv
-----------------------------------------------------------------------------
(* Sources: the theorems *)

\* Only Store adds an event, with what VerifySource says of the call.
LEMMA StoreVerifies ==
    ASSUME SourcesInv, [SourcesNext]_sourceVars, Processed
    PROVE  /\ call # NoCall
           /\ Verified <=> VerifySource(Row, call.body, call.headers)
<1>1. Store
  BY Zenon
  DEF Processed, SourcesNext, sourceVars, CreateSource, TestEvent, Webhook,
      SecondPasses, ChangeKey
<1>2. PICK v \in BOOLEAN : v = VerifySource(Row, call.body, call.headers)
  BY Zenon DEF VerifySource
<1>3. PICK key : key = DedupeKey(Row, call.body)
  BY Zenon
<1>4. /\ call # NoCall
      /\ stored' = Append(stored, [source |-> call.source, body |-> call.body,
                                   verified |-> v, dedupe_key |-> key])
  BY <1>1, <1>2, <1>3, Zenon DEF Store, Row
<1>5. stored'[Len(stored')].verified = v
  BY <1>4 DEF SourcesInv, SourcesTypeOK
<1> QED
  BY <1>2, <1>4, <1>5, Zenon DEF Verified

\* VerifySource of a call: the secret that was signed with is the source's,
\* and the timestamp fresh.
LEMMA CallVerified ==
    ASSUME SourcesInv, call # NoCall, Row.provider \in DOMAIN Catalog
    PROVE  VerifySource(Row, call.body, call.headers)
           <=> /\ Decryptable(Row.sealed)
               /\ \/ Catalog[Row.provider].type = "none"
                  \/ call.secret = Decrypt(Row.sealed) /\ WithinTolerance
<1>1. PICK def : def = Catalog[Row.provider] /\ Validate(def)
  BY SourcesAssumption, Zenon
<1>2. call.headers = Sign(def, call.body, call.secret, call.stamp)
  BY <1>1, Zenon DEF SourcesInv, CallInv
<1>3. WithinTolerance <=> (Stamped(def) => Fresh(def, call.stamp, seconds))
  <2>1. seconds \in Nat /\ call.stamp \in Nat
    BY Zenon DEF SourcesInv, SourcesTypeOK, CallInv
  <2>2. CASE Stamped(def)
    <3>1. def.tolerance \in Nat \ {0}
      BY <1>1, <2>2, Zenon DEF Validate, Stamped
    <3>2. seconds - call.stamp \in -def.tolerance..def.tolerance
          <=> Fresh(def, call.stamp, seconds)
      BY <2>1, <3>1 DEF Fresh
    <3> QED
      BY <1>1, <2>2, <3>2, Zenon DEF WithinTolerance, Stamped
  <2>3. CASE ~Stamped(def)
    BY <1>1, <2>3, Zenon DEF WithinTolerance, Stamped
  <2> QED
    BY <2>2, <2>3, Zenon
<1>4. VerifyRequest(def, call.body, call.headers, Decrypt(Row.sealed), seconds)
      <=> \/ def.type = "none"
          \/ /\ call.secret = Decrypt(Row.sealed)
             /\ Stamped(def) => Fresh(def, call.stamp, seconds)
  <2>1. Validate(def)
    BY <1>1, Zenon
  <2>2. VerifyRequest(def, call.body,
                      Sign(def, call.body, call.secret, call.stamp),
                      Decrypt(Row.sealed), seconds)
        <=> \/ def.type = "none"
            \/ /\ call.secret = Decrypt(Row.sealed)
               /\ Stamped(def) => Fresh(def, call.stamp, seconds)
    BY <2>1, VerifyUndoesSign
  <2>3. VerifyRequest(def, call.body, call.headers, Decrypt(Row.sealed), seconds)
        <=> VerifyRequest(def, call.body,
                          Sign(def, call.body, call.secret, call.stamp),
                          Decrypt(Row.sealed), seconds)
    BY <1>2, Zenon
  <2> QED
    BY <2>2, <2>3, Zenon
<1> QED
  BY <1>1, <1>3, <1>4, Zenon DEF VerifySource

\* Sign is Verify's inverse, for every catalog that Load accepts and every
\* source that create let in: a test event that is checked within the
\* tolerance is stored as verified.
THEOREM TestEventsVerify ==
    SourcesInit /\ [][SourcesNext]_sourceVars => TestEventVerifies
<1>1. SourcesInv /\ [SourcesNext]_sourceVars =>
         [Processed /\ call.kind = "test" /\ WithinTolerance
             => Verified]_sourceVars
  <2> SUFFICES ASSUME SourcesInv, [SourcesNext]_sourceVars, Processed,
                      call.kind = "test", WithinTolerance
               PROVE  Verified
    BY Zenon
  <2>1. /\ call # NoCall
        /\ Verified <=> VerifySource(Row, call.body, call.headers)
    BY StoreVerifies, Zenon
  <2>2. /\ Row.provider \in DOMAIN Catalog /\ Decryptable(Row.sealed)
        /\ call.secret = Decrypt(Row.sealed)
    BY <2>1, Zenon DEF SourcesInv, CallInv
  <2> QED
    BY <2>1, <2>2, CallVerified, Zenon
<1> QED
  BY <1>1, SourcesInitInv, SourcesStep, PTL DEF TestEventVerifies

\* An event of a scheme with something to check is stored as verified only if
\* it was signed with the secret of its own source, under a key the gateway
\* has now, and at most the tolerance before or after it is checked.
THEOREM VerifiedGenuine ==
    SourcesInit /\ [][SourcesNext]_sourceVars => VerifiedIsGenuine
<1>1. SourcesInv /\ [SourcesNext]_sourceVars =>
         [Processed /\ Verified /\ Checked =>
             /\ Row.sealed = Encrypt(call.secret)
             /\ WithinTolerance]_sourceVars
  <2> SUFFICES ASSUME SourcesInv, [SourcesNext]_sourceVars, Processed, Verified,
                      Checked
               PROVE  Row.sealed = Encrypt(call.secret) /\ WithinTolerance
    BY Zenon
  <2>1. call # NoCall /\ VerifySource(Row, call.body, call.headers)
    BY StoreVerifies, Zenon
  <2>2. /\ Decryptable(Row.sealed) /\ WithinTolerance
        /\ call.secret = Decrypt(Row.sealed)
    BY <2>1, CallVerified, Zenon DEF Checked
  <2>3. Row.sealed \in Sealed
    <3>1. Row \in SourceRows
      <4>1. call.source \in DOMAIN sources
        BY <2>1, Zenon DEF SourcesInv, CallInv
      <4> QED
        BY <4>1 DEF SourcesInv, SourcesTypeOK, Row
    <3> QED
      BY <3>1, Zenon DEF SourceRows, Checked
  <2>4. PICK req \in Requests, k \in {1, 2} :
           Row.sealed = [secret |-> req.secret, key |-> k]
    BY <2>3, Zenon DEF Sealed
  <2>5. Row.sealed # NoValue
    BY <2>4, SourcesAssumption, Zenon
  <2>6. Row.sealed.key = enc_key /\ Row.sealed.secret = call.secret
    BY <2>2, <2>5, Zenon DEF Decryptable, Decrypt
  <2>7. Row.sealed = Encrypt(call.secret)
    BY <2>4, <2>6, Zenon DEF Encrypt
  <2> QED
    BY <2>2, <2>7, Zenon
<1> QED
  BY <1>1, SourcesInitInv, SourcesStep, PTL DEF VerifiedIsGenuine

\* A digest tells what it is of.
LEMMA DigestsApart == \A x, y : Digest(x) = Digest(y) => x = y
<1> SUFFICES ASSUME NEW x, NEW y, Digest(x) = Digest(y) PROVE x = y
  BY Zenon
<1>1. Digest(x)[1].sha256 = x /\ Digest(y)[1].sha256 = y
  BY Zenon DEF Digest
<1> QED
  BY <1>1, Zenon

\* Two events of a source share a dedupe key only if their bytes are the same
\* (exact), or the texts at the path are (field), however long, or one text is
\* what the other is shortened to.
THEOREM KeysIdentify ==
    SourcesInit /\ [][SourcesNext]_sourceVars => []SameKeySameIdentity
<1>1. SourcesInv => SameKeySameIdentity
  <2> SUFFICES ASSUME SourcesInv, NEW i \in DOMAIN stored,
                      NEW j \in DOMAIN stored,
                      stored[i].source = stored[j].source,
                      stored[i].dedupe_key # NoValue,
                      stored[i].dedupe_key = stored[j].dedupe_key
               PROVE  LET row == sources[stored[i].source]
                          text(x) == ValueAt(x.body.document, row.path).text
                          stands(x, y) ==
                              /\ text(x) = Digest(text(y))
                              /\ ~(Len(text(y)) <= MaxKeyLen)
                      IN IF row.strategy = "exact"
                         THEN stored[i].body.bytes = stored[j].body.bytes
                         ELSE \/ text(stored[i]) = text(stored[j])
                              \/ stands(stored[i], stored[j])
                              \/ stands(stored[j], stored[i])
    BY Zenon DEF SameKeySameIdentity
  <2>1. PICK row : row = sources[stored[i].source]
    BY Zenon
  <2>2. PICK b \in AllBodies :
           b = stored[i].body /\ stored[i].dedupe_key = DedupeKey(row, b)
    BY <2>1, Zenon DEF SourcesInv, KeysInv
  <2>3. PICK c \in AllBodies :
           c = stored[j].body /\ stored[j].dedupe_key = DedupeKey(row, c)
    BY <2>1, Zenon DEF SourcesInv, KeysInv
  <2>4. row \in SourceRows
    <3>1. stored[i].source \in DOMAIN sources
      BY Zenon DEF SourcesInv, KeysInv
    <3> QED
      BY <2>1, <3>1 DEF SourcesInv, SourcesTypeOK
  <2>5. CASE row.strategy = "exact"
    <3>1. ASSUME NEW x PROVE DedupeKey(row, x) = Digest(x.bytes)
      BY <2>5, Zenon DEF DedupeKey
    <3>2. Digest(b.bytes) = Digest(c.bytes)
      BY <2>2, <2>3, <3>1, Zenon
    <3>3. b.bytes = c.bytes
      BY <3>2, DigestsApart, Zenon
    <3> QED
      BY <2>1, <2>2, <2>3, <2>5, <3>3, Zenon
  <2>6. CASE row.strategy # "exact"
    <3>1. ASSUME NEW x, DedupeKey(row, x) # NoValue
          PROVE  /\ DedupeKey(row, x) = Shorten(JsonFieldValue(x.document, row.path))
                 /\ JsonFieldValue(x.document, row.path)
                       = ValueAt(x.document, row.path).text
      BY <2>6, <3>1, Zenon DEF DedupeKey, JsonFieldValue
    <3>2. PICK text : text = JsonFieldValue(b.document, row.path)
      BY Zenon
    <3>3. PICK other : other = JsonFieldValue(c.document, row.path)
      BY Zenon
    <3>4. Shorten(text) = Shorten(other)
      BY <2>2, <2>3, <3>1, <3>2, <3>3, Zenon
    <3>5. Digest(text) = Digest(other) => text = other
      BY DigestsApart, Zenon
    <3>6. \/ text = other
          \/ text = Digest(other) /\ ~(Len(other) <= MaxKeyLen)
          \/ other = Digest(text) /\ ~(Len(text) <= MaxKeyLen)
      BY <3>4, <3>5, Zenon DEF Shorten
    <3>8. DedupeKey(row, b) # NoValue /\ DedupeKey(row, c) # NoValue
      BY <2>2, <2>3, Zenon
    <3>9. text = ValueAt(b.document, row.path).text
      BY <3>1, <3>2, <3>8, Zenon
    <3>10. other = ValueAt(c.document, row.path).text
      BY <3>1, <3>3, <3>8, Zenon
    <3> QED
      BY <2>1, <2>2, <2>3, <2>6, <3>6, <3>9, <3>10, Zenon
  <2> QED
    BY <2>5, <2>6, Zenon
<1> QED
  BY <1>1, SourcesInitInv, SourcesStep, PTL
=============================================================================
