------------------------------ MODULE Reconnect ------------------------------
(***************************************************************************)
(* The reconnect loop of the CLI's `listen' command (Listen and runSession *)
(* in cli/internal/tunnel/listen.go) against a gateway that comes and      *)
(* goes, and that may refuse the credential or the source for good.        *)
(*                                                                         *)
(* The delivery of events over one session is the subject of Tunnel; here  *)
(* a session only has a number of forwards in flight, which runSession     *)
(* waits for before it returns.  A tick is a fraction of a second, so that *)
(* the jitter is visible.                                                  *)
(***************************************************************************)
EXTENDS Integers

CONSTANTS
    MinBackoff,
    MaxBackoff,
    MaxForwards     \* bound on the forwards in flight

ASSUME ReconnectAssumption ==
    /\ {MinBackoff, MaxBackoff, MaxForwards} \subseteq Nat \ {0}
    /\ MinBackoff <= MaxBackoff

VARIABLES
    gateway,        \* how the gateway answers a dial
    session,        \* position of Listen
    was_ready,      \* this session has received its ready frame
    forwards,       \* events of the session being forwarded
    backoff, timer, \* the backoff, and what is left of the sleep
    cancelled,      \* Ctrl-C
    \* history: the length of the last sleep, and min(backoff, cap) after as
    \* many doublings as there were sleeps since a session was last ready
    slept, expected

reconnectVars ==
    <<gateway, session, was_ready, forwards, backoff, timer, cancelled, slept,
      expected>>

\* No connection, or a 5xx of the gateway or a proxy.
Transient == {"down", "failing"}
\* 401, 403, 404 and 400.
Permanent == {"unauthorized", "forbidden", "unknown source", "no sources"}

\* Listen starts with a dial; a client that is not run is "stopped".
ReconnectInit(start) ==
    /\ gateway = "up"
    /\ session = start
    /\ was_ready = FALSE
    /\ forwards = 0
    /\ backoff = MinBackoff
    /\ timer = 0
    /\ cancelled = FALSE
    /\ slept = 0
    /\ expected = MinBackoff
-----------------------------------------------------------------------------
(* runSession *)

\* Mutant: every failed upgrade is tried again.
IsPermanentNever(answer) == FALSE

\* dialError: a 4xx is not retried.
IsPermanent(answer) == answer \in Permanent

\* 50-100% of a backoff.
JitterOf(d) == IF d \div 2 <= 0 THEN {d} ELSE (d \div 2)..(2 * (d \div 2))

Smaller(a, b) == IF a < b THEN a ELSE b

\* Mutant: the backoff is not reset after a session that was ready.
SleepWithoutReset ==
    /\ session' = "sleeping"
    /\ expected' = IF was_ready THEN MinBackoff ELSE expected
    /\ UNCHANGED backoff
    /\ timer' \in JitterOf(backoff)
    /\ slept' = timer'

\* A session that got as far as ready starts over at the short backoff.
Sleep ==
    /\ session' = "sleeping"
    /\ expected' = IF was_ready THEN MinBackoff ELSE expected
    /\ backoff' = IF was_ready THEN MinBackoff ELSE backoff
    /\ timer' \in JitterOf(backoff')
    /\ slept' = timer'

Stop ==
    /\ session' = "stopped"
    /\ UNCHANGED <<backoff, timer, slept, expected>>

Dial ==
    /\ session = "dialing"
    /\ \/ /\ ~cancelled /\ gateway = "up"
          /\ session' = "open"
          /\ UNCHANGED <<backoff, timer, slept, expected>>
       \/ ~cancelled /\ gateway # "up" /\ ~IsPermanent(gateway) /\ Sleep
       \/ (cancelled \/ IsPermanent(gateway)) /\ Stop
    /\ UNCHANGED <<gateway, was_ready, forwards, cancelled>>

ReadReady ==
    /\ session = "open"
    /\ was_ready' = TRUE
    /\ UNCHANGED <<gateway, session, forwards, backoff, timer, cancelled, slept,
                   expected>>

\* Events may come before the ready frame: the routes exist already.
ReadEvent ==
    /\ session = "open"
    /\ forwards < MaxForwards
    /\ forwards' = forwards + 1
    /\ UNCHANGED <<gateway, session, was_ready, backoff, timer, cancelled, slept,
                   expected>>

\* Mutant: wg.Done is forgotten.
HandledForgotten == forwards > 0 /\ UNCHANGED reconnectVars

\* A forward is over, 25 s after it began at the latest.
Handled ==
    /\ forwards > 0
    /\ forwards' = forwards - 1
    /\ UNCHANGED <<gateway, session, was_ready, backoff, timer, cancelled, slept,
                   expected>>

\* The socket is lost, or the context is cancelled.
ReadFails ==
    /\ session = "open"
    /\ session' = "draining"
    /\ UNCHANGED <<gateway, was_ready, forwards, backoff, timer, cancelled, slept,
                   expected>>

\* wg.Wait, after which runSession returns to Listen.
SessionOver ==
    /\ session = "draining"
    /\ forwards = 0
    /\ \/ cancelled /\ Stop
       \/ ~cancelled /\ Sleep
    /\ was_ready' = FALSE
    /\ UNCHANGED <<gateway, forwards, cancelled>>
-----------------------------------------------------------------------------
(* Listen *)

SleepOn ==
    /\ session = "sleeping"
    /\ timer > 0
    /\ timer' = timer - 1
    /\ UNCHANGED <<gateway, session, was_ready, forwards, backoff, cancelled, slept,
                   expected>>

\* The sleep is over, or cut short by Ctrl-C.
Wake ==
    /\ session = "sleeping"
    /\ \/ cancelled /\ Stop
       \/ /\ ~cancelled /\ timer = 0
          /\ session' = "dialing"
          /\ backoff' = IF backoff < MaxBackoff
                        THEN Smaller(2 * backoff, MaxBackoff) ELSE backoff
          /\ expected' = Smaller(2 * expected, MaxBackoff)
          /\ UNCHANGED <<timer, slept>>
    /\ UNCHANGED <<gateway, was_ready, forwards, cancelled>>

Interrupt ==
    /\ session # "stopped"
    /\ ~cancelled
    /\ cancelled' = TRUE
    /\ UNCHANGED <<gateway, session, was_ready, forwards, backoff, timer, slept,
                   expected>>

\* The gateway goes down, comes back, loses or gets sources; a key that was
\* revoked stays so.
GatewayChanges(answer) ==
    /\ gateway # "unauthorized"
    /\ gateway' = answer
    /\ gateway' # gateway
    /\ UNCHANGED <<session, was_ready, forwards, backoff, timer, cancelled, slept,
                   expected>>

Client ==
    \/ Dial \/ ReadReady \/ Handled \/ SessionOver \/ SleepOn \/ Wake

ReconnectNext ==
    \/ Client
    \/ ReadEvent
    \/ ReadFails
    \/ Interrupt
    \/ \E answer \in {"up"} \cup Transient \cup Permanent :
          GatewayChanges(answer)

\* The client keeps running, its forwards end by their timeout, and a context
\* that is cancelled ends the read.
ReconnectFairness ==
    /\ WF_reconnectVars(Dial)
    /\ WF_reconnectVars(Handled)
    /\ WF_reconnectVars(SessionOver)
    /\ WF_reconnectVars(SleepOn)
    /\ WF_reconnectVars(Wake)
    /\ WF_reconnectVars(cancelled /\ ReadFails)
-----------------------------------------------------------------------------
(* Properties *)

\* The n-th sleep in a row lasts between half and all of
\* min(minBackoff * 2^(n-1), maxBackoff), and a row starts over only when a
\* session was ready: a gateway that accepts and drops the client is not
\* hammered, and a good session does not inherit a long wait.
ReconnectPaced ==
    session = "sleeping" =>
        /\ slept <= expected
        /\ 2 * slept >= expected - 1
        /\ slept > 0

\* Once the key is revoked, a client that is not attached ends: retrying a
\* permanent refusal "forever would just spin".  An open session may go on.
RefusalStops ==
    (gateway = "unauthorized" /\ session # "open") ~> session = "stopped"

\* A client that is neither cancelled nor refused gets back to an open
\* session whenever the gateway stays up, whatever was in flight when the
\* socket was lost.
Reattaches ==
    <>[](gateway = "up") => []<>(session \in {"open", "stopped"})
=============================================================================
