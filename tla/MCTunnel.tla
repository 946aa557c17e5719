------------------------------ MODULE MCTunnel ------------------------------
(***************************************************************************)
(* Small instances for TLC of Tunnel and of the client's reconnect loop.   *)
(* They share no state: a behaviour is one of either.                      *)
(***************************************************************************)
EXTENDS Tunnel, Reconnect

CONSTANTS s1, c1, c2, c3, d1, d2

\* The first delivery can be dispatched twice: after it was recovered, or
\* enqueued twice by two recovers.
RecoveredDelivery == [c \in Calls |-> IF c = c3 THEN d2 ELSE d1]

OneSession == [d \in Deliveries |-> s1]

\* Two calls for one delivery, two for two, or the reconnect loop.
VARIABLE part

Dispatched ==
    CASE part = "recovered" -> {c1, c2}
      [] part = "two" -> {c1, c3}
      [] OTHER -> {}

mcVars == <<part, vars, reconnectVars>>

MCInit ==
    /\ part \in {"recovered", "two", "listen"}
    /\ Init
    /\ ReconnectInit(IF part = "listen" THEN "dialing" ELSE "stopped")

MCNext ==
    /\ part' = part
    /\ \/ /\ part # "listen" /\ Next /\ UNCHANGED reconnectVars
          /\ {c \in Calls : call'[c] # "idle"} \subseteq Dispatched
       \/ part = "listen" /\ ReconnectNext /\ UNCHANGED vars

MCSpec == MCInit /\ [][MCNext]_mcVars /\ Fairness /\ ReconnectFairness
=============================================================================
