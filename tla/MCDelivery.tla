---------------------------- MODULE MCDelivery ----------------------------
(***************************************************************************)
(* Small instances of Delivery for TLC.                                    *)
(***************************************************************************)
EXTENDS Delivery, FiniteSetsExt, TLC

CONSTANTS d1, d2, x1, x2, r1, r2

\* Both deliveries go to one destination, or each to its own.
SameDestination == [d \in Deliveries |-> x1]
OwnDestination == [d \in Deliveries |-> IF d = d1 THEN x1 ELSE x2]

\* A value InsertDeliveryJob clamps to one attempt, and one with a retry.
ShortPolicies == {-1, 2}
OnePolicy == {2}

\* To keep the instance small, the API edits the policy of x1 only.
OnlyX1Edited == \A x \in Destinations : x # x1 => policy[x] = 2

\* Recover calls are interchangeable.
RequestSymmetry == Permutations(Requests)

JobsOf(d) == {j \in Jobs : delivery_id[j] = d}

\* The trace shows what was sent.  Of the dispatches that the jobs of a
\* delivery have made, through retries, recoveries and races, each is one of
\* its attempt_count attempts or is about to be recorded; only a fault between
\* the dispatch and its record loses one, and nothing is counted that was
\* never dispatched.
TraceCoversDispatches ==
    \A d \in Deliveries : Exists(d) =>
        LET made == MapThenSumSet(LAMBDA j : dispatched[j], JobsOf(d))
            shown == attempt_count[d]
                        + Cardinality({j \in JobsOf(d) : pc[j] = "record"})
        IN  made \in shown..(shown + faults)
=============================================================================
