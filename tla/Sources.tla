------------------------------- MODULE Sources -------------------------------
(***************************************************************************)
(* Sources: their creation (internal/api/sources.go), the catalog of       *)
(* signature schemes with Sign and Verify (internal/sourcedef), the        *)
(* encryption of their secrets (internal/crypto) and how ingest derives    *)
(* the dedupe key of a body (internal/ingest/dedupe.go), for webhooks of   *)
(* providers and for the test events of the API.                           *)
(*                                                                         *)
(* Cryptography is symbolic: a MAC or a hash is the tuple of what went     *)
(* into it, a ciphertext is the secret with its key.  A header value is a  *)
(* sequence of parts, so that a prefix can be put on and taken off.  A     *)
(* body is its bytes with the JSON document in them, if any.  A text is a  *)
(* sequence of symbols; the hexadecimal digest of something is one symbol, *)
(* which a sender may put into a text like any other.                      *)
(***************************************************************************)
EXTENDS Integers, Sequences

CONSTANTS
    Catalog,        \* slug -> definition
    Requests,       \* bodies of POST /api/sources
    Secrets,        \* secrets providers sign with
    Bodies,         \* bodies of webhooks
    Sample,         \* the sample payload
    NoValue,        \* NULL
    MaxKeyLen,      \* maxDedupeKeyLen
    MaxSources,     \* bound on the sources
    MaxStored,      \* bound on the events
    MaxSeconds      \* bound on the clock

Types == {"none", "hmac", "api_key", "basic_auth"}

\* validate: what Load lets into the catalog.
Validate(def) ==
    /\ def.type \in Types
    /\ def.type \in {"hmac", "api_key"} => def.header # ""
    /\ def.type = "hmac" =>
          /\ def.algorithm \in {"sha256", "sha1"}
          /\ def.encoding \in {"hex", "base64"}
          /\ def.stamped => def.tolerance \in Nat \ {0}

ASSUME SourcesAssumption ==
    /\ \A slug \in DOMAIN Catalog : Validate(Catalog[slug])
    /\ {MaxKeyLen, MaxSources, MaxStored, MaxSeconds} \subseteq Nat \ {0}
    \* NULL is no ciphertext
    /\ \A req \in Requests, key \in {1, 2} :
          NoValue # [secret |-> req.secret, key |-> key]

VARIABLES
    seconds,
    enc_key,        \* version of ENCRYPTION_KEY
    sources,        \* rows in the order of their creation
    call,           \* the webhook or test event on its way to ProcessEvent
    stored          \* events

sourceVars == <<seconds, enc_key, sources, call, stored>>

NoCall == [kind |-> "none", source |-> 0, body |-> NoValue,
           headers |-> <<>>, secret |-> NoValue, stamp |-> 0]

SourcesInit ==
    /\ seconds = 0
    /\ enc_key = 1
    /\ sources = <<>>
    /\ call = NoCall
    /\ stored = <<>>
-----------------------------------------------------------------------------
(* internal/crypto and internal/sourcedef *)

Encrypt(secret) == [secret |-> secret, key |-> enc_key]
Decryptable(sealed) == sealed # NoValue => sealed.key = enc_key
Decrypt(sealed) == IF sealed = NoValue THEN NoValue ELSE sealed.secret

ComputeHMAC(def, secret, payload) == <<def.algorithm, secret, payload>>
EncodeSignature(sig, encoding) == <<encoding, sig>>
WithPrefix(prefix, part) == IF prefix = "" THEN <<part>> ELSE <<prefix, part>>
TrimPrefix(value, prefix) ==
    IF prefix # "" /\ Head(value) = prefix THEN Tail(value) ELSE value

Header(name, value) == [h \in {name} |-> value]
Get(headers, name) == IF name \in DOMAIN headers THEN headers[name] ELSE <<>>

\* Mutant: the time is sent but not signed.
SignHMACBodyOnly(def, body, secret, time) ==
    LET sig == EncodeSignature(ComputeHMAC(def, secret, <<body>>), def.encoding)
    IN Header(def.header, IF def.stamped THEN <<time, sig>>
                                         ELSE WithPrefix(def.prefix, sig))

\* signHMAC; a stamped scheme signs the time together with the body.
SignHMAC(def, body, secret, time) ==
    LET payload == IF def.stamped THEN <<time, body>> ELSE <<body>>
        sig == EncodeSignature(ComputeHMAC(def, secret, payload), def.encoding)
    IN Header(def.header, IF def.stamped THEN <<time, sig>>
                                         ELSE WithPrefix(def.prefix, sig))

Sign(def, body, secret, time) ==
    CASE def.type = "none" -> <<>>
      [] def.type = "hmac" -> SignHMAC(def, body, secret, time)
      [] def.type = "api_key" ->
            Header(def.header, WithPrefix(def.prefix, secret))
      [] def.type = "basic_auth" ->
            Header("Authorization",
                   WithPrefix("Basic ", EncodeSignature(secret, "base64")))

\* Mutant: only old timestamps are rejected.
FreshOneSided(def, stamp, time) == time - stamp <= def.tolerance

\* The tolerance holds in both directions.
Fresh(def, stamp, time) ==
    time - stamp <= def.tolerance /\ stamp - time <= def.tolerance

\* verifyHMAC; a header that is missing or has the other shape fails.
VerifyHMAC(def, body, headers, secret, time) ==
    LET raw == Get(headers, def.header)
        provided == IF def.stamped THEN Tail(raw) ELSE TrimPrefix(raw, def.prefix)
        payload == IF def.stamped THEN <<raw[1], body>> ELSE <<body>>
    IN /\ raw # <<>>
       /\ def.stamped => Len(raw) = 2 /\ Fresh(def, raw[1], time)
       /\ provided = <<EncodeSignature(ComputeHMAC(def, secret, payload),
                                       def.encoding)>>

VerifyAPIKey(def, headers, secret) ==
    LET raw == Get(headers, def.header) IN
    raw # <<>> /\ TrimPrefix(raw, def.prefix) = <<secret>>

VerifyBasicAuth(headers, secret) ==
    Get(headers, "Authorization") =
        WithPrefix("Basic ", EncodeSignature(secret, "base64"))

VerifyRequest(def, body, headers, secret, time) ==
    CASE def.type = "none" -> TRUE
      [] def.type = "hmac" -> VerifyHMAC(def, body, headers, secret, time)
      [] def.type = "api_key" -> VerifyAPIKey(def, headers, secret)
      [] def.type = "basic_auth" -> VerifyBasicAuth(headers, secret)

\* Handler.verify: a provider without an entry is always verified, a secret
\* that cannot be opened never.
VerifySource(row, body, headers) ==
    row.provider \in DOMAIN Catalog =>
        /\ Decryptable(row.sealed)
        /\ VerifyRequest(Catalog[row.provider], body, headers,
                         Decrypt(row.sealed), seconds)
-----------------------------------------------------------------------------
(* Dedupe keys *)

Missing == [kind |-> "missing"]

\* Down the path, through objects only.
ValueAt(document, path) ==
    LET current[n \in 0..Len(path)] ==
            IF n = 0 THEN document
            ELSE IF /\ current[n - 1].kind = "object"
                    /\ path[n] \in DOMAIN current[n - 1].fields
                 THEN current[n - 1].fields[path[n]]
                 ELSE Missing
    IN current[Len(path)]

\* A string that is not empty or a number; NoValue if there is none.
JsonFieldValue(document, path) ==
    LET value == ValueAt(document, path) IN
    IF path # <<>> /\ value.kind \in {"string", "number"} /\ value.text # <<>>
    THEN value.text ELSE NoValue

\* hex.EncodeToString of the sum: 64 of at most maxDedupeKeyLen characters.
Digest(x) == <<[sha256 |-> x]>>

\* Mutant: a long value is cut off.
ShortenTruncates(text) == SubSeq(text, 1, MaxKeyLen)

Shorten(text) == IF Len(text) <= MaxKeyLen THEN text ELSE Digest(text)

\* NoValue if dedupe is off, or the key cannot be derived: fail open.
DedupeKey(row, body) ==
    LET text == JsonFieldValue(body.document, row.path) IN
    CASE row.strategy = "exact" -> Digest(body.bytes)
      [] row.strategy = "field" /\ body.document # NoValue /\ text # NoValue ->
            Shorten(text)
      [] OTHER -> NoValue
-----------------------------------------------------------------------------
(* The sources API *)

ValidateDedupe(req) ==
    req.enabled =>
        /\ req.strategy \in {"exact", "field"}
        /\ req.strategy = "field" => req.path # NoValue
        /\ req.window >= 0

\* What create lets through: a scheme ingest has a verifier for, with a
\* secret where it needs one.
Acceptable(req) ==
    /\ req.provider \in DOMAIN Catalog \cup {"none"}
    /\ req.provider \in DOMAIN Catalog =>
          Catalog[req.provider].type = "none" \/ req.secret # NoValue
    /\ ValidateDedupe(req)

\* A row has the next id, and an endpoint path that stands for it.
InsertSource(row) ==
    /\ Len(sources) < MaxSources
    /\ sources' = Append(sources, row)

GetSource(id) == sources[id]
GetSourceByEndpointPath(path) == sources[path]

\* create; a request that is not acceptable is a 400 and changes nothing.
CreateSource(req) ==
    /\ Acceptable(req)
    /\ InsertSource([provider |-> req.provider,
                     sealed |-> IF req.secret = NoValue THEN NoValue
                                                        ELSE Encrypt(req.secret),
                     strategy |-> IF req.enabled THEN req.strategy ELSE NoValue,
                     path |-> IF req.enabled THEN req.path ELSE NoValue])
    /\ UNCHANGED <<seconds, enc_key, call, stored>>

\* testEvent: the sample, signed with the source's own secret.  "none" has no
\* sample (400), a secret that cannot be opened is a 500.
TestEvent(i) ==
    LET row == GetSource(i) IN
    /\ call = NoCall
    /\ Len(stored) < MaxStored
    /\ row.provider \in DOMAIN Catalog
    /\ Decryptable(row.sealed)
    /\ LET secret == Decrypt(row.sealed) IN
       call' = [kind |-> "test", source |-> i, body |-> Sample,
                headers |-> Sign(Catalog[row.provider], Sample, secret, seconds),
                secret |-> secret, stamp |-> seconds]
    /\ UNCHANGED <<seconds, enc_key, sources, stored>>

\* A provider posts to the source's endpoint, with the secret and the clock it
\* has.
Webhook(i, body, secret, stamp) ==
    /\ call = NoCall
    /\ Len(stored) < MaxStored
    /\ LET slug == GetSourceByEndpointPath(i).provider IN
       call' = [kind |-> "webhook", source |-> i, body |-> body,
                headers |-> IF slug \in DOMAIN Catalog
                            THEN Sign(Catalog[slug], body, secret, stamp) ELSE <<>>,
                secret |-> secret, stamp |-> stamp]
    /\ UNCHANGED <<seconds, enc_key, sources, stored>>

\* ProcessEvent, as far as the columns of the event go.
Store ==
    LET row == sources[call.source] IN
    /\ call # NoCall
    /\ stored' = Append(stored,
          [source |-> call.source, body |-> call.body,
           verified |-> VerifySource(row, call.body, call.headers),
           dedupe_key |-> DedupeKey(row, call.body)])
    /\ call' = NoCall
    /\ UNCHANGED <<seconds, enc_key, sources>>

SecondPasses ==
    /\ seconds < MaxSeconds
    /\ seconds' = seconds + 1
    /\ UNCHANGED <<enc_key, sources, call, stored>>

\* A restart with another ENCRYPTION_KEY: the test event dies with the old
\* process, the provider's webhook reaches the new one.
ChangeKey ==
    /\ enc_key' = 3 - enc_key
    /\ call' = IF call.kind = "test" THEN NoCall ELSE call
    /\ UNCHANGED <<seconds, sources, stored>>

SourcesNext ==
    \/ \E req \in Requests : CreateSource(req)
    \/ \E i \in DOMAIN sources :
          \/ TestEvent(i)
          \/ \E b \in Bodies, s \in Secrets, t \in 0..MaxSeconds :
                Webhook(i, b, s, t)
    \/ Store
    \/ SecondPasses
    \/ ChangeKey
-----------------------------------------------------------------------------
(* Properties *)

Processed == stored' # stored
Verified == stored'[Len(stored')].verified
Row == sources[call.source]
Checked == /\ Row.provider \in DOMAIN Catalog
           /\ Catalog[Row.provider].type # "none"

\* How far the timestamp of the call may be off when it is checked.
WithinTolerance ==
    LET def == Catalog[Row.provider] IN
    def.type = "hmac" /\ def.stamped =>
        seconds - call.stamp \in -def.tolerance..def.tolerance

\* Sign is Verify's inverse: a test event of any source that create let in,
\* which reaches verify within the tolerance, is stored as verified, whatever
\* the scheme and the restarts with other keys before it.
TestEventVerifies ==
    [][Processed /\ call.kind = "test" /\ WithinTolerance => Verified]_sourceVars

\* An event is stored as verified only if it was signed with the secret of
\* its own source, under a key the gateway has now, and, where the scheme has
\* a timestamp, at most the tolerance before or after it is checked.
VerifiedIsGenuine ==
    [][Processed /\ Verified /\ Checked =>
          /\ Row.sealed = Encrypt(call.secret)
          /\ WithinTolerance]_sourceVars

\* Two events of a source share a dedupe key only if their bytes are the same
\* (exact), or the texts at the path are (field), however long; but for the text
\* that a long one is shortened to, which is its own key.
SameKeySameIdentity ==
    \A i, j \in DOMAIN stored :
        LET e == stored[i]
            f == stored[j]
            row == sources[e.source]
            text(x) == ValueAt(x.body.document, row.path).text
            stands(x, y) == /\ text(x) = Digest(text(y))
                            /\ ~(Len(text(y)) <= MaxKeyLen)
        IN /\ e.source = f.source
           /\ e.dedupe_key # NoValue /\ e.dedupe_key = f.dedupe_key
           => IF row.strategy = "exact" THEN e.body.bytes = f.body.bytes
              ELSE text(e) = text(f) \/ stands(e, f) \/ stands(f, e)
=============================================================================
