-------------------------------- MODULE MCApi --------------------------------
(***************************************************************************)
(* Small instances for TLC of parts around the delivery pipeline that      *)
(* share no state with each other: sessions, API keys, the event log,      *)
(* sources with their signatures, the retry policy, and the two token      *)
(* buckets.  A behaviour is one of one part, chosen in the initial state,  *)
(* while the others rest.                                                  *)
(***************************************************************************)
EXTENDS Sessions, ApiKeys, EventLog, Sources, Retry, Pacing, TLC

CONSTANTS s1, s2, chA, chB, chC

VARIABLE part

vars == <<part, sessionVars, apiKeyVars, logVars, sourceVars, retryVars,
          pacingVars>>

SomeBackoffs == {-1, 0, 1, 3, 20}

Def(type, header, prefix, stamped) ==
    [type |-> type, header |-> header, prefix |-> prefix, stamped |-> stamped,
     tolerance |-> 1, algorithm |-> "sha256", encoding |-> "hex"]

SomeCatalog ==
       "github" :> Def("hmac", "X-Hub-Signature-256", "sha256=", FALSE)
    @@ "stripe" :> Def("hmac", "Stripe-Signature", "", TRUE)
    @@ "key" :> Def("api_key", "X-API-Key", "Bearer ", FALSE)
    @@ "basic" :> Def("basic_auth", "", "", FALSE)
    @@ "open" :> Def("none", "", "", FALSE)

Req(provider, secret, strategy, path) ==
    [provider |-> provider, secret |-> secret, enabled |-> strategy # NoValue,
     strategy |-> strategy, path |-> path, window |-> 0]

SomeRequests ==
    {Req(p, s, NoValue, NoValue) :
        p \in DOMAIN SomeCatalog \cup {"none"}, s \in {s1, NoValue}}
    \cup {Req("github", s1, "exact", NoValue)}
    \cup {Req("github", s1, "field", p) : p \in {<<"data", "id">>, <<>>, NoValue}}

\* Bodies with {"data": {"id": ...}}, something else there, or no JSON; an id
\* is short, long, or what a long one is shortened to.
Object(name, value) == [kind |-> "object", fields |-> name :> value]
Body(bytes, id) ==
    [bytes |-> bytes, document |-> Object("data", Object("id", id))]
Scalar(kind, text) == [kind |-> kind, text |-> text]

SomeBodies ==
    {Body("b1", Scalar("string", <<chA>>)), Body("b2", Scalar("number", <<chA>>)),
     Body("b3", Scalar("string", <<chA, chB>>)), Body("b4", Scalar("string", <<chA, chC>>)),
     Body("b5", Scalar("string", Digest(<<chA, chB>>))), Body("b6", [kind |-> "bool"]),
     [bytes |-> "b7", document |-> Object("data", [kind |-> "null"])],
     [bytes |-> "b8", document |-> NoValue]}

SomeSample == Body("b0", Scalar("string", <<>>))

Init ==
    /\ part \in {"sessions", "keys", "log", "sources", "retry", "pacer", "limiter"}
    /\ SessionsInit /\ ApiKeysInit /\ LogInit /\ SourcesInit /\ RetryInit
    /\ PacingInit /\ (rps = 0 \/ part = "pacer")

Next ==
    /\ part' = part
    /\ \/ /\ part = "sessions" /\ SessionsNext
          /\ UNCHANGED <<apiKeyVars, logVars, sourceVars, retryVars, pacingVars>>
       \/ /\ part = "keys" /\ ApiKeysNext
          /\ UNCHANGED <<sessionVars, logVars, sourceVars, retryVars, pacingVars>>
       \/ /\ part = "log" /\ LogNext
          /\ UNCHANGED <<sessionVars, apiKeyVars, sourceVars, retryVars, pacingVars>>
       \/ /\ part = "sources" /\ SourcesNext
          /\ UNCHANGED <<sessionVars, apiKeyVars, logVars, retryVars, pacingVars>>
       \/ /\ part = "retry" /\ RetryNext
          /\ UNCHANGED <<sessionVars, apiKeyVars, logVars, sourceVars, pacingVars>>
       \/ /\ part \in {"pacer", "limiter"} /\ PacingNext
          /\ \A c \in Calls :
                pc'[c] # "idle" => c \in IF part = "pacer" THEN Jobs ELSE Posts
          /\ UNCHANGED <<sessionVars, apiKeyVars, logVars, sourceVars, retryVars>>

Spec == Init /\ [][Next]_vars
=============================================================================
