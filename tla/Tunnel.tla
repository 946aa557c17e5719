------------------------------- MODULE Tunnel -------------------------------
(***************************************************************************)
(* The developer tunnel: the session handler of GET /api/tunnel            *)
(* (internal/tunnel/handler.go), the connection and its pending acks       *)
(* (conn.go), the registry, the worker's Deliver calls                     *)
(* (internal/delivery/tunnel_dispatch.go) and the CLI at the other end     *)
(* (cli/internal/tunnel/listen.go), in one gateway process; of a second    *)
(* process there is the sweep at its boot.                                 *)
(*                                                                         *)
(* A session owns one ephemeral destination and one socket, so all three   *)
(* are named by the session; a CLI that reconnects starts a new one.       *)
(* Frames carry delivery ids only; an event frame is written here as the   *)
(* Deliver call that wrote it, so that a property can tell two frames of   *)
(* one delivery apart.  The code never looks at more than the delivery.    *)
(***************************************************************************)
EXTENDS Naturals, Sequences, FiniteSets

CONSTANTS
    Sessions,
    Sources,      \* the sources a session asks for
    Calls,        \* calls of Deliver, several for a delivery that is recovered
    NoCall,
    Deliveries,
    DeliveryOf,   \* the delivery a call is for
    SessionOf,    \* the tunnel destination a delivery goes to
    MaxFaults     \* bound: failed queries, API deletions, restarts and boots

ASSUME TunnelAssumption ==
    /\ NoCall \notin Calls /\ "ready" \notin Calls
    /\ DeliveryOf \in [Calls -> Deliveries]
    /\ SessionOf \in [Deliveries -> Sessions]
    /\ MaxFaults \in Nat

Ready == "ready"

VARIABLES
    \* tables: tunnel destinations, their routes, their deliveries
    destinations, routes, deliveries,
    registry,
    \* each session: its handler, its socket, and whether Conn.pending is nil
    handler, socket, closed,
    pending,                 \* Conn.pending: the channel of which call
    \* each Deliver call: position, its channel (the frame that the ack in it
    \* answers) and the ack it returned
    call, channel, acked,
    \* frames under way, events the CLI is forwarding, sessions it saw ready
    to_client, to_server, forwarding, ready,
    \* history: sessions whose row a failed attach or detach left behind; faults
    orphans, faults

tableVars == <<destinations, routes, deliveries>>
serverVars == <<registry, handler, closed>>
callVars == <<pending, call, channel, acked>>
clientVars == <<to_client, to_server, forwarding, ready>>

vars == <<tableVars, serverVars, socket, callVars, clientVars, orphans, faults>>
-----------------------------------------------------------------------------
\* A handler goes from "idle" through "attached", "registered", "routed",
\* "serving", "detaching" and "deleting" to "ended", a call from "idle" through
\* "found", "registered", "waiting" and "returning" to "done".
Conn(c) == SessionOf[DeliveryOf[c]]

Init ==
    /\ destinations = {}
    /\ routes = [s \in Sessions |-> {}]
    /\ deliveries = {}
    /\ registry = {}
    /\ handler = [s \in Sessions |-> "idle"]
    /\ socket = [s \in Sessions |-> "none"]
    /\ closed = {}
    /\ pending = [d \in Deliveries |-> NoCall]
    /\ call = [c \in Calls |-> "idle"]
    /\ channel = [c \in Calls |-> NoCall]
    /\ acked = [c \in Calls |-> NoCall]
    /\ to_client = [s \in Sessions |-> <<>>]
    /\ to_server = [s \in Sessions |-> <<>>]
    /\ forwarding = [s \in Sessions |-> {}]
    /\ ready = {}
    /\ orphans = {}
    /\ faults = 0

Fault == faults < MaxFaults /\ faults' = faults + 1
Handler(s, to) == handler' = [handler EXCEPT ![s] = to]
CloseSocket(s) == socket' = [socket EXCEPT ![s] = "closed"]

\* The row goes and takes its routes and deliveries along.
DeleteDestination(s) ==
    /\ destinations' = destinations \ {s}
    /\ routes' = [routes EXCEPT ![s] = {}]
    /\ deliveries' = {d \in deliveries : SessionOf[d] # s}
-----------------------------------------------------------------------------
(* The session handler *)

\* The row of a tunnel destination.
InsertDestination(s) == destinations' = destinations \cup {s}

\* The upgrade and attach.  When the insert fails the session is over; it may
\* have been applied although its reply was lost.
Attach(s) ==
    /\ handler[s] = "idle"
    /\ \/ /\ InsertDestination(s)
          /\ Handler(s, "attached")
          /\ socket' = [socket EXCEPT ![s] = "open"]
          /\ UNCHANGED <<orphans, faults>>
       \/ /\ Fault /\ Handler(s, "ended") /\ CloseSocket(s)
          /\ \/ UNCHANGED <<destinations, orphans>>
             \/ InsertDestination(s) /\ orphans' = orphans \cup {s}
    /\ UNCHANGED <<routes, deliveries, registry, closed, callVars, clientVars>>

Register(s) ==
    /\ handler[s] = "attached"
    /\ registry' = registry \cup {s}
    /\ Handler(s, "registered")
    /\ UNCHANGED <<tableVars, closed, socket, callVars, clientVars, orphans,
                   faults>>

\* A route from a source to the tunnel, which must have its row.
InsertRoute(s, src) ==
    /\ s \in destinations
    /\ routes' = [routes EXCEPT ![s] = @ \cup {src}]

\* Mutant: the routes exist before the session is registered.
RouteSourceFirst(s, src) ==
    /\ handler[s] = "attached"
    /\ src \notin routes[s]
    /\ s \in destinations
    /\ routes' = [routes EXCEPT ![s] = @ \cup {src}]
    /\ UNCHANGED <<destinations, deliveries, serverVars, socket, callVars,
                   clientVars, orphans, faults>>

\* One InsertRoute of routeSources; it fails when the destination was deleted
\* through the API, or the query does, and the session ends.
RouteSource(s, src) ==
    /\ handler[s] = "registered"
    /\ src \notin routes[s]
    /\ \/ /\ InsertRoute(s, src)
          /\ Handler(s, IF routes'[s] = Sources THEN "routed" ELSE "registered")
          /\ UNCHANGED <<socket, faults>>
       \/ /\ IF s \in destinations THEN Fault ELSE faults' = faults
          /\ Handler(s, "detaching")
          /\ CloseSocket(s)
          /\ UNCHANGED routes
    /\ UNCHANGED <<destinations, deliveries, registry, closed, callVars,
                   clientVars, orphans>>

\* The ready frame, then readLoop.
SendReady(s) ==
    /\ handler[s] = "routed"
    /\ IF socket[s] = "open"
       THEN /\ to_client' = [to_client EXCEPT ![s] = Append(@, Ready)]
            /\ Handler(s, "serving")
       ELSE /\ Handler(s, "detaching")
            /\ UNCHANGED to_client
    /\ UNCHANGED <<tableVars, registry, closed, socket, callVars, to_server,
                   forwarding, ready, orphans, faults>>

\* Mutant: the ack goes to whichever call of the session is pending.
ReadAckAny(s) ==
    /\ handler[s] = "serving"
    /\ to_server[s] # <<>>
    /\ to_server' = [to_server EXCEPT ![s] = Tail(@)]
    /\ \E c \in {pending[d] : d \in Deliveries} \ {NoCall} :
          /\ Conn(c) = s
          /\ channel' = [channel EXCEPT ![c] = Head(to_server[s])]
    /\ UNCHANGED <<tableVars, serverVars, socket, pending, call, acked,
                   to_client, forwarding, ready, orphans, faults>>

\* readLoop hands an ack to the call whose channel is pending for that
\* delivery.  No such call, or an ack already in its channel: discarded.
ReadAck(s) ==
    /\ handler[s] = "serving"
    /\ to_server[s] # <<>>
    /\ to_server' = [to_server EXCEPT ![s] = Tail(@)]
    /\ LET frame == Head(to_server[s])
           c == pending[DeliveryOf[frame]] IN
       IF c # NoCall /\ channel[c] = NoCall
       THEN channel' = [channel EXCEPT ![c] = frame]
       ELSE UNCHANGED channel
    /\ UNCHANGED <<tableVars, serverVars, socket, pending, call, acked,
                   to_client, forwarding, ready, orphans, faults>>

\* Mutant: readLoop ends without closePending.
ReadErrorLeavesPending(s) ==
    /\ handler[s] = "serving"
    /\ socket[s] = "closed"
    /\ Handler(s, "detaching")
    /\ UNCHANGED <<tableVars, registry, closed, socket, callVars, clientVars,
                   orphans, faults>>

\* A read error ends the session: closePending.
ReadError(s) ==
    /\ handler[s] = "serving"
    /\ socket[s] = "closed"
    /\ closed' = closed \cup {s}
    /\ pending' = [d \in Deliveries |->
                      IF SessionOf[d] = s THEN NoCall ELSE pending[d]]
    /\ Handler(s, "detaching")
    /\ UNCHANGED <<tableVars, registry, socket, call, channel, acked,
                   clientVars, orphans, faults>>

\* detach, first half.
Unregister(s) ==
    /\ handler[s] = "detaching"
    /\ registry' = registry \ {s}
    /\ Handler(s, "deleting")
    /\ UNCHANGED <<tableVars, closed, socket, callVars, clientVars, orphans,
                   faults>>

\* Mutant: only the registry entry is removed.
DetachKeepsRow(s) ==
    /\ handler[s] = "deleting"
    /\ Handler(s, "ended")
    /\ CloseSocket(s)
    /\ UNCHANGED <<tableVars, registry, closed, callVars, clientVars, orphans,
                   faults>>

\* detach, second half; a failed delete is only logged.
Detach(s) ==
    /\ handler[s] = "deleting"
    /\ Handler(s, "ended")
    /\ \/ DeleteDestination(s) /\ UNCHANGED <<orphans, faults>>
       \/ Fault /\ orphans' = orphans \cup {s} /\ UNCHANGED tableVars
    /\ CloseSocket(s)
    /\ UNCHANGED <<registry, closed, callVars, clientVars>>
-----------------------------------------------------------------------------
(* Deliver, called by dispatchTunnel *)

\* An event of a routed source is fanned out to the tunnel.
FanOut(d) ==
    /\ d \notin deliveries
    /\ routes[SessionOf[d]] # {}
    /\ deliveries' = deliveries \cup {d}
    /\ UNCHANGED <<destinations, routes, serverVars, socket, callVars,
                   clientVars, orphans, faults>>

\* Work has loaded the delivery and its destination; Lookup, and the event,
\* whose query may fail.
Lookup(c) ==
    /\ call[c] = "idle"
    /\ DeliveryOf[c] \in deliveries
    /\ \/ /\ call' = [call EXCEPT ![c] =
                         IF Conn(c) \in registry THEN "found" ELSE "done"]
          /\ faults' = faults
       \/ Conn(c) \in registry /\ Fault /\ call' = [call EXCEPT ![c] = "done"]
    /\ UNCHANGED <<tableVars, serverVars, socket, pending, channel, acked,
                   clientVars, orphans>>

\* The channel is put into pending, or ErrClosed.
AddPending(c) ==
    /\ call[c] = "found"
    /\ IF Conn(c) \in closed
       THEN /\ call' = [call EXCEPT ![c] = "done"]
            /\ UNCHANGED pending
       ELSE /\ call' = [call EXCEPT ![c] = "registered"]
            /\ pending' = [pending EXCEPT ![DeliveryOf[c]] = c]
    /\ UNCHANGED <<tableVars, serverVars, socket, channel, acked, clientVars,
                   orphans, faults>>

\* The event frame; writing to a closed socket is an error, and so is a write
\* that outlives its context, which closes the socket.
WriteEvent(c) ==
    LET s == Conn(c) IN
    /\ call[c] = "registered"
    /\ \/ /\ socket[s] = "open"
          /\ to_client' = [to_client EXCEPT ![s] = Append(@, c)]
          /\ call' = [call EXCEPT ![c] = "waiting"]
          /\ UNCHANGED socket
       \/ /\ call' = [call EXCEPT ![c] = "returning"]
          /\ CloseSocket(s)
          /\ UNCHANGED to_client
    /\ UNCHANGED <<tableVars, serverVars, pending, channel, acked, to_server,
                   forwarding, ready, orphans, faults>>

\* The select: an ack, or done.
Return(c) ==
    /\ call[c] = "waiting"
    /\ \/ channel[c] # NoCall /\ acked' = [acked EXCEPT ![c] = channel[c]]
       \/ Conn(c) \in closed /\ UNCHANGED acked
    /\ call' = [call EXCEPT ![c] = "returning"]
    /\ UNCHANGED <<tableVars, serverVars, socket, pending, channel,
                   clientVars, orphans, faults>>

\* The select: the destination's timeout.
Timeout(c) ==
    /\ call[c] = "waiting"
    /\ call' = [call EXCEPT ![c] = "returning"]
    /\ UNCHANGED <<tableVars, serverVars, socket, pending, channel, acked,
                   clientVars, orphans, faults>>

\* The deferred delete, by delivery id.
RemovePending(c) ==
    /\ call[c] = "returning"
    /\ call' = [call EXCEPT ![c] = "done"]
    /\ pending' = [pending EXCEPT ![DeliveryOf[c]] = NoCall]
    /\ UNCHANGED <<tableVars, serverVars, socket, channel, acked, clientVars,
                   orphans, faults>>
-----------------------------------------------------------------------------
(* The CLI, the network and the process *)

\* runSession reads a frame: ready is noted, an event is forwarded by a
\* goroutine of its own.
ClientReceive(s) ==
    /\ to_client[s] # <<>>
    /\ socket[s] = "open"
    /\ to_client' = [to_client EXCEPT ![s] = Tail(@)]
    /\ LET frame == Head(to_client[s]) IN
       IF frame = Ready
       THEN ready' = ready \cup {s} /\ UNCHANGED forwarding
       ELSE /\ forwarding' = [forwarding EXCEPT ![s] = @ \cup {frame}]
            /\ UNCHANGED ready
    /\ UNCHANGED <<tableVars, serverVars, socket, callVars, to_server,
                   orphans, faults>>

\* handle: the local target has answered; the ack is written, or lost with
\* the socket.
ClientAck(s, c) ==
    /\ c \in forwarding[s]
    /\ forwarding' = [forwarding EXCEPT ![s] = @ \ {c}]
    /\ to_server' = IF socket[s] = "open"
                    THEN [to_server EXCEPT ![s] = Append(@, c)]
                    ELSE to_server
    /\ UNCHANGED <<tableVars, serverVars, socket, callVars, to_client, ready,
                   orphans, faults>>

\* Ctrl-C, or the network.
Disconnect(s) ==
    /\ socket[s] = "open"
    /\ CloseSocket(s)
    /\ UNCHANGED <<tableVars, serverVars, callVars, clientVars, orphans,
                   faults>>

\* DELETE /api/destinations/{id} of a tunnel's row.
ApiDelete(s) ==
    /\ s \in destinations
    /\ Fault
    /\ DeleteDestination(s)
    /\ UNCHANGED <<serverVars, socket, callVars, clientVars, orphans>>

\* Every tunnel destination, with its routes and deliveries.
DeleteStaleTunnelDestinations ==
    /\ destinations' = {}
    /\ routes' = [s \in Sessions |-> {}]
    /\ deliveries' = {}

\* The sweep of a second process that boots on the same database while this
\* one still serves, as in a rolling restart: the rows of live sessions go.
OverlappingBoot ==
    /\ Fault
    /\ DeleteStaleTunnelDestinations
    /\ orphans' = {}
    /\ UNCHANGED <<serverVars, socket, callVars, clientVars>>

\* The process dies; at boot, before anything is served, the rows it left are
\* deleted.
Restart ==
    /\ Fault
    /\ DeleteStaleTunnelDestinations
    /\ registry' = {}
    /\ handler' = [s \in Sessions |->
                      IF handler[s] = "idle" THEN "idle" ELSE "ended"]
    /\ socket' = [s \in Sessions |->
                     IF socket[s] = "none" THEN "none" ELSE "closed"]
    /\ pending' = [d \in Deliveries |-> NoCall]
    /\ call' = [c \in Calls |-> IF call[c] = "idle" THEN "idle" ELSE "done"]
    /\ orphans' = {}
    /\ UNCHANGED <<closed, channel, acked, clientVars>>
-----------------------------------------------------------------------------
HandlerStep(s) ==
    \/ Register(s)
    \/ \E src \in Sources : RouteSource(s, src)
    \/ SendReady(s)
    \/ ReadError(s)
    \/ Unregister(s)
    \/ Detach(s)

CallStep(c) == AddPending(c) \/ WriteEvent(c) \/ Return(c) \/ RemovePending(c)

Next ==
    \/ \E s \in Sessions :
          \/ Attach(s)
          \/ HandlerStep(s)
          \/ ReadAck(s)
          \/ ClientReceive(s)
          \/ \E c \in Calls : ClientAck(s, c)
          \/ Disconnect(s)
          \/ ApiDelete(s)
    \/ \E d \in Deliveries : FanOut(d)
    \/ \E c \in Calls : Lookup(c) \/ CallStep(c) \/ Timeout(c)
    \/ Restart
    \/ OverlappingBoot

Spec == Init /\ [][Next]_vars

\* Goroutines that can run do.  Nothing is assumed of the CLI, and not even
\* that a timeout fires.
Fairness ==
    /\ \A s \in Sessions : WF_vars(HandlerStep(s))
    /\ \A c \in Calls : WF_vars(CallStep(c))

FairSpec == Spec /\ Fairness
-----------------------------------------------------------------------------
(* Properties *)

\* "Register before the routes exist, so no event can fan out to this
\* destination before the socket is reachable": a routed session is in the
\* registry until it detaches, and what is routed has a row.
RoutedIsRegistered ==
    \A s \in Sessions : routes[s] # {} =>
        /\ s \in destinations
        /\ s \in registry \/ handler[s] \in {"deleting", "ended"}

\* However acks of several calls are reordered, delayed and cut off, and also
\* when a delivery that was recovered is dispatched again while the first frame
\* is unanswered: an ack is credited to a call for the delivery it names, no
\* frame's ack is credited to two calls, and only calls under way are pending,
\* for their own delivery.  Of two calls for one delivery, the ack of either
\* frame may go to the other.
AckCreditedOnce ==
    /\ \A c \in Calls : acked[c] # NoCall => DeliveryOf[acked[c]] = DeliveryOf[c]
    /\ \A c, k \in Calls : acked[c] = acked[k] /\ acked[c] # NoCall => c = k
    /\ \A d \in Deliveries : pending[d] # NoCall =>
          /\ DeliveryOf[pending[d]] = d
          /\ call[pending[d]] \in {"registered", "waiting", "returning"}

\* "then wakes every in-flight Deliver": a call that waits on a socket that is
\* lost returns without waiting for its timeout, once readLoop has started.
LostSocketWakesCalls ==
    \A c \in Calls :
        (/\ call[c] = "waiting"
         /\ handler[Conn(c)] = "serving"
         /\ socket[Conn(c)] = "closed") ~> call[c] = "done"

\* "Disconnect means the destination is gone", or its delete has failed.
DisconnectDeletes ==
    \A s \in Sessions :
        socket[s] = "closed" ~> s \notin destinations \/ s \in orphans
=============================================================================
