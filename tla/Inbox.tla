-------------------------------- MODULE Inbox --------------------------------
(***************************************************************************)
(* What ProcessEvent promises the provider that calls it, without          *)
(* transactions, locks or statements: an event is stored, together with    *)
(* what became of it and its deliveries, in one step or not at all.        *)
(***************************************************************************)
CONSTANTS Events, Destinations, Keys, NoKey

VARIABLES
    key,         \* dedupe key of an event
    outcome,     \* not stored, or why it was dropped; "null" is fanned out
    deliveries,
    answer       \* what the provider has heard

inboxVars == <<key, outcome, deliveries, answer>>

Init ==
    /\ key = [e \in Events |-> NoKey]
    /\ outcome = [e \in Events |-> "none"]
    /\ deliveries = {}
    /\ answer = [e \in Events |-> "no call"]

Receive(e, k) ==
    /\ answer[e] = "no call"
    /\ answer' = [answer EXCEPT ![e] = "waiting"]
    /\ key' = [key EXCEPT ![e] = k]
    /\ UNCHANGED <<outcome, deliveries>>

\* Stored events with this key that were not themselves dropped as duplicates.
Originals(k) ==
    {e \in Events : key[e] = k /\ outcome[e] \in {"null", "rule"}}

\* Only an event that is fanned out has deliveries, and a duplicate has an
\* original.  The reply to the commit may be lost, which is answered with 500.
Store(e) ==
    /\ answer[e] = "waiting"
    /\ outcome[e] = "none"
    /\ \/ /\ outcome' = [outcome EXCEPT ![e] = "null"]
          /\ \E to \in SUBSET Destinations :
                deliveries' = deliveries \cup ({e} \X to)
       \/ /\ outcome' = [outcome EXCEPT ![e] = "rule"]
          /\ UNCHANGED deliveries
       \/ /\ key[e] # NoKey
          /\ Originals(key[e]) # {}
          /\ outcome' = [outcome EXCEPT ![e] = "duplicate"]
          /\ UNCHANGED deliveries
    /\ answer' \in {answer, [answer EXCEPT ![e] = "500"]}
    /\ UNCHANGED key

\* 200 for an event that is stored, 500 for one that never will be.
Answer(e) ==
    /\ answer[e] = "waiting"
    /\ answer' = [answer EXCEPT ![e] =
                     IF outcome[e] = "none" THEN "500" ELSE "200"]
    /\ UNCHANGED <<key, outcome, deliveries>>

\* A deleted destination takes its deliveries along.
Forget(x) ==
    /\ deliveries' = {d \in deliveries : d[2] # x}
    /\ UNCHANGED <<key, outcome, answer>>

Next ==
    \/ \E e \in Events :
          \/ \E k \in Keys \cup {NoKey} : Receive(e, k)
          \/ Store(e)
          \/ Answer(e)
    \/ \E x \in Destinations : Forget(x)

Spec == Init /\ [][Next]_inboxVars
=============================================================================
