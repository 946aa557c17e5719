------------------------------ MODULE MCIngest ------------------------------
(***************************************************************************)
(* Small instances of Ingest for TLC.                                      *)
(***************************************************************************)
EXTENDS Ingest

CONSTANTS x1, x2

Rule(action, to, outcome) == [action |-> action, to |-> to, outcome |-> outcome]

NoRules == {<<>>}

Broken == Rule("drop", {}, "error")
Other == Rule("route", {x2}, "no match")
DropIt == Rule("drop", {}, "match")
RouteIt == Rule("route", {x1, x2}, "match")

\* A broken rule before one that matches, two that match, one that does not
\* match, none; each one call of the rules API from another.
SomeRules ==
    {<<>>, <<Broken>>, <<Broken, RouteIt>>, <<RouteIt, DropIt>>,
     <<Other, DropIt>>}
=============================================================================
