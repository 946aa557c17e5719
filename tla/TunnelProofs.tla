---------------------------- MODULE TunnelProofs ----------------------------
(***************************************************************************)
(* Proofs about the tunnel, for any number of sessions, sources, calls and *)
(* deliveries, and about the client's reconnect loop, for any backoffs.    *)
(***************************************************************************)
EXTENDS Tunnel, Reconnect, TLAPS

-----------------------------------------------------------------------------
(* Routes exist only while the socket can be found *)

\* Handler positions between Register and Unregister.
Attached == {"registered", "routed", "serving", "detaching"}

\* What RoutedIsRegistered rests on: the handler's position says whether the
\* session is in the registry, and nothing is routed before it is.
RouteInv ==
    /\ handler \in [Sessions -> Attached \cup
                        {"idle", "attached", "deleting", "ended"}]
    /\ routes \in [Sessions -> SUBSET Sources]
    /\ \A s \in Sessions :
          /\ handler[s] \in Attached => s \in registry
          /\ handler[s] \in {"idle", "attached"} => routes[s] = {}
          /\ routes[s] # {} => s \in destinations

\* The initial state satisfies RouteInv.
LEMMA RouteInit == Init => RouteInv
BY DEF Init, RouteInv, Attached

\* Every action preserves RouteInv: Register puts the session into the registry
\* before RouteSource runs, Unregister takes it out when the position says so,
\* and whatever deletes a row deletes its routes.
LEMMA RouteStep == RouteInv /\ [Next]_vars => RouteInv'
<1> SUFFICES ASSUME RouteInv, [Next]_vars
             PROVE  RouteInv'
  BY Zenon
<1> USE DEF RouteInv, Attached, tableVars, serverVars, callVars, clientVars,
            Handler
<1>1. ASSUME NEW s \in Sessions, Attach(s)
      PROVE  RouteInv'
  BY <1>1 DEF Attach, InsertDestination
<1>2. ASSUME NEW s \in Sessions, Register(s)
      PROVE  RouteInv'
  BY <1>2, Zenon DEF Register
<1>3. ASSUME NEW s \in Sessions, NEW src \in Sources, RouteSource(s, src)
      PROVE  RouteInv'
  <2>1. CASE InsertRoute(s, src) /\ Handler(s, IF routes'[s] = Sources
                                                THEN "routed" ELSE "registered")
    BY <1>3, <2>1 DEF RouteSource, InsertRoute
  <2>2. CASE Handler(s, "detaching") /\ UNCHANGED routes
    BY <1>3, <2>2, Zenon DEF RouteSource
  <2> QED
    BY <1>3, <2>1, <2>2, Zenon DEF RouteSource
<1>4. ASSUME NEW s \in Sessions, SendReady(s)
      PROVE  RouteInv'
  BY <1>4, Zenon DEF SendReady
<1>5. ASSUME NEW s \in Sessions, ReadError(s)
      PROVE  RouteInv'
  BY <1>5, Zenon DEF ReadError
<1>6. ASSUME NEW s \in Sessions, Unregister(s)
      PROVE  RouteInv'
  BY <1>6, Zenon DEF Unregister
<1>7. ASSUME NEW s \in Sessions, Detach(s)
      PROVE  RouteInv'
  BY <1>7, Zenon DEF Detach, DeleteDestination
<1>8. ASSUME NEW s \in Sessions, ApiDelete(s)
      PROVE  RouteInv'
  BY <1>8, Zenon DEF ApiDelete, DeleteDestination
<1>9. ASSUME Restart
      PROVE  RouteInv'
  BY <1>9, Zenon DEF Restart, DeleteStaleTunnelDestinations
<1>10. ASSUME OverlappingBoot
       PROVE  RouteInv'
  BY <1>10, Zenon DEF OverlappingBoot, DeleteStaleTunnelDestinations
<1>11. ASSUME UNCHANGED <<destinations, routes, registry, handler>>
       PROVE  RouteInv'
  BY <1>11, Zenon
<1>12. ASSUME NEW s \in Sessions,
              \/ ReadAck(s) \/ ClientReceive(s) \/ Disconnect(s)
              \/ \E c \in Calls : ClientAck(s, c)
       PROVE  UNCHANGED <<destinations, routes, registry, handler>>
  BY <1>12, Zenon DEF ReadAck, ClientReceive, Disconnect, ClientAck
<1>13. ASSUME NEW d \in Deliveries, FanOut(d)
       PROVE  UNCHANGED <<destinations, routes, registry, handler>>
  BY <1>13, Zenon DEF FanOut
<1>14. ASSUME NEW c \in Calls, Lookup(c) \/ CallStep(c) \/ Timeout(c)
       PROVE  UNCHANGED <<destinations, routes, registry, handler>>
  BY <1>14, Zenon
  DEF Lookup, CallStep, AddPending, WriteEvent, Return, RemovePending,
               Timeout
<1>15. CASE UNCHANGED vars
  BY <1>11, <1>15, Zenon DEF vars
<1> QED
  BY <1>1, <1>2, <1>3, <1>4, <1>5, <1>6, <1>7, <1>8, <1>9, <1>10, <1>11, <1>12,
     <1>13, <1>14, <1>15, Zenon DEF Next, HandlerStep

\* "Register before the routes exist": for any number of sessions and sources,
\* and whatever is deleted, restarted or swept meanwhile, an event is fanned out
\* only to a session whose socket the worker can look up, or that is detaching.
THEOREM RoutesFollowRegistry == Spec => []RoutedIsRegistered
<1>1. RouteInv => RoutedIsRegistered
  BY Zenon DEF RouteInv, RoutedIsRegistered, Attached
<1> QED
  BY <1>1, RouteInit, RouteStep, PTL DEF Spec
-----------------------------------------------------------------------------
(* Acks are credited to calls of their delivery, and to one each *)

InDeliver == {"registered", "waiting", "returning"}

Frames == Calls \cup {Ready}

\* Writing a frame to one socket of many.
LEMMA FrameWritten ==
    ASSUME NEW S, NEW T, NEW f \in [S -> Seq(T)], NEW s \in S, NEW x \in T
    PROVE  [f EXCEPT ![s] = Append(@, x)] \in [S -> Seq(T)]
OBVIOUS

\* Reading the first frame of one socket of many.
LEMMA FrameRead ==
    ASSUME NEW S, NEW T, NEW f \in [S -> Seq(T)], NEW s \in S, f[s] # <<>>
    PROVE  Head(f[s]) \in T /\ [f EXCEPT ![s] = Tail(@)] \in [S -> Seq(T)]
<1>1. f[s] \in Seq(T) /\ f[s] # <<>>
  BY Zenon
<1>2. Head(f[s]) \in T /\ Tail(f[s]) \in Seq(T)
  BY <1>1
<1> QED
  BY <1>2, Zenon

\* Frames name calls, and Conn.pending, the channels and the returned acks hold
\* calls.
FramesOK ==
    /\ pending \in [Deliveries -> Calls \cup {NoCall}]
    /\ call \in [Calls -> InDeliver \cup {"idle", "found", "done"}]
    /\ channel \in [Calls -> Calls \cup {NoCall}]
    /\ acked \in [Calls -> Calls \cup {NoCall}]
    /\ to_client \in [Sessions -> Seq(Frames)]
    /\ to_server \in [Sessions -> Seq(Calls)]
    /\ forwarding \in [Sessions -> SUBSET Calls]

\* Conn.pending files a call that is under way, under its own delivery.
PendingOwn ==
    \A d \in Deliveries : pending[d] # NoCall =>
        /\ DeliveryOf[pending[d]] = d
        /\ call[pending[d]] \in InDeliver

\* What is in a call's channel, or was returned from it, answers a frame of the
\* call's own delivery.
AckOfDelivery ==
    \A c \in Calls :
        /\ channel[c] # NoCall => DeliveryOf[channel[c]] = DeliveryOf[c]
        /\ acked[c] # NoCall => DeliveryOf[acked[c]] = DeliveryOf[c]

AckInv == FramesOK /\ PendingOwn /\ AckOfDelivery

\* The initial state satisfies AckInv.
LEMMA AckInit == Init => AckInv
BY DEF Init, AckInv, FramesOK, PendingOwn, AckOfDelivery

\* Every action preserves AckInv.  An ack finds the call through the delivery it
\* names, and a call is filed only under its delivery, so what readLoop puts into
\* a channel is of the right delivery; the deferred delete removes the call that
\* ends, so nothing stays pending of a call that is over.
LEMMA AckStep == AckInv /\ [Next]_vars => AckInv'
<1> SUFFICES ASSUME AckInv, [Next]_vars
             PROVE  AckInv'
  BY Zenon
<1>0. FramesOK /\ PendingOwn /\ AckOfDelivery
  BY Zenon DEF AckInv
<1> USE TunnelAssumption DEF AckInv, tableVars, serverVars, callVars, clientVars
<1>1. ASSUME UNCHANGED <<callVars, clientVars>>
      PROVE  AckInv'
  BY <1>0, <1>1, Zenon DEF FramesOK, PendingOwn, AckOfDelivery
<1>m. ASSUME NEW c \in Calls, NEW to \in InDeliver \cup {"idle", "found", "done"},
              call' = [call EXCEPT ![c] = to],
              call[c] \in InDeliver => to \in InDeliver
       PROVE  /\ call' \in [Calls -> InDeliver \cup {"idle", "found", "done"}]
              /\ pending' = pending => PendingOwn'
  <2>1. call' \in [Calls -> InDeliver \cup {"idle", "found", "done"}]
    BY <1>0, <1>m, Zenon DEF FramesOK
  <2>2. \A k \in Calls : call[k] \in InDeliver => call'[k] \in InDeliver
    BY <1>0, <1>m, Zenon DEF FramesOK
  <2> QED
    BY <1>0, <2>1, <2>2 DEF FramesOK, PendingOwn
<1>2. ASSUME NEW s \in Sessions, SendReady(s)
      PROVE  AckInv'
  <2>1. to_client' \in [Sessions -> Seq(Frames)]
    <3>1. Ready \in Frames
      BY Zenon DEF Frames
    <3>2. [to_client EXCEPT ![s] = Append(@, Ready)]
             \in [Sessions -> Seq(Frames)]
      BY <1>0, <3>1, FrameWritten, Zenon DEF FramesOK
    <3>3. \/ to_client' = [to_client EXCEPT ![s] = Append(@, Ready)]
          \/ to_client' = to_client
      BY <1>2, Zenon DEF SendReady
    <3> QED
      BY <1>0, <3>2, <3>3, Zenon DEF FramesOK
  <2>2. UNCHANGED <<callVars, to_server, forwarding>>
    BY <1>2, Zenon DEF SendReady
  <2> QED
    BY <1>0, <2>1, <2>2, Zenon DEF FramesOK, PendingOwn, AckOfDelivery
<1>3. ASSUME NEW s \in Sessions, ReadAck(s)
      PROVE  AckInv'
  <2>1. PICK frame \in Calls : frame = Head(to_server[s])
    BY <1>0, <1>3, FrameRead, Zenon DEF ReadAck, FramesOK
  <2>2. to_server' \in [Sessions -> Seq(Calls)]
    BY <1>0, <1>3, FrameRead, Zenon DEF ReadAck, FramesOK
  <2>3. UNCHANGED <<pending, call, acked, to_client, forwarding>>
    BY <1>3, Zenon DEF ReadAck
  <2>4. PICK c \in Calls \cup {NoCall} : c = pending[DeliveryOf[frame]]
    BY <1>0, <2>1, Zenon DEF FramesOK
  <2>5. PendingOwn'
    BY <1>0, <2>3, Zenon DEF PendingOwn
  <2>6. CASE c # NoCall /\ channel[c] = NoCall
    <3>1. c \in Calls /\ DeliveryOf[c] = DeliveryOf[frame]
      BY <1>0, <2>1, <2>4, <2>6, Zenon DEF PendingOwn
    <3>2. channel' = [channel EXCEPT ![c] = frame]
      BY <1>3, <2>1, <2>4, <2>6, Zenon DEF ReadAck
    <3>3. FramesOK'
      <4>1. channel' \in [Calls -> Calls \cup {NoCall}]
        BY <1>0, <2>1, <3>1, <3>2, Zenon DEF FramesOK
      <4> QED
        BY <1>0, <2>2, <2>3, <4>1, Zenon DEF FramesOK
    <3>4. AckOfDelivery'
      BY <1>0, <2>1, <2>3, <3>1, <3>2, Zenon DEF FramesOK, AckOfDelivery
    <3> QED
      BY <2>5, <3>3, <3>4, Zenon
  <2>7. CASE ~(c # NoCall /\ channel[c] = NoCall)
    <3>1. channel' = channel
      BY <1>3, <2>1, <2>4, <2>7, Zenon DEF ReadAck
    <3>2. FramesOK' /\ AckOfDelivery'
      BY <1>0, <2>2, <2>3, <3>1, Zenon DEF FramesOK, AckOfDelivery
    <3> QED
      BY <2>5, <3>2, Zenon
  <2> QED
    BY <2>6, <2>7, Zenon
<1>4. ASSUME NEW s \in Sessions, ReadError(s)
      PROVE  AckInv'
  BY <1>0, <1>4, Zenon DEF ReadError, FramesOK, PendingOwn, AckOfDelivery
<1>5. ASSUME NEW s \in Sessions, ClientReceive(s)
      PROVE  AckInv'
  <2>1. PICK frame \in Frames : frame = Head(to_client[s])
    BY <1>0, <1>5, FrameRead, Zenon DEF ClientReceive, FramesOK
  <2>2. to_client' \in [Sessions -> Seq(Frames)]
    BY <1>0, <1>5, FrameRead, Zenon DEF ClientReceive, FramesOK
  <2>3. forwarding' \in [Sessions -> SUBSET Calls]
    <3>1. CASE frame = Ready
      BY <1>0, <1>5, <2>1, <3>1, Zenon DEF ClientReceive, FramesOK
    <3>2. CASE frame # Ready
      <4>1. frame \in Calls
        BY <3>2, Zenon DEF Frames
      <4>2. forwarding' = [forwarding EXCEPT ![s] = @ \cup {frame}]
        BY <1>5, <2>1, <3>2, Zenon DEF ClientReceive
      <4> QED
        BY <1>0, <4>1, <4>2, Zenon DEF FramesOK
    <3> QED
      BY <3>1, <3>2, Zenon
  <2>4. UNCHANGED <<callVars, to_server>>
    BY <1>5, Zenon DEF ClientReceive
  <2> QED
    BY <1>0, <2>2, <2>3, <2>4, Zenon DEF FramesOK, PendingOwn, AckOfDelivery
<1>6. ASSUME NEW s \in Sessions, NEW c \in Calls, ClientAck(s, c)
      PROVE  AckInv'
  <2>1. to_server' \in [Sessions -> Seq(Calls)]
    BY <1>0, <1>6, FrameWritten, Zenon DEF ClientAck, FramesOK
  <2>2. forwarding' \in [Sessions -> SUBSET Calls]
    BY <1>0, <1>6, Zenon DEF ClientAck, FramesOK
  <2>3. UNCHANGED <<callVars, to_client>>
    BY <1>6, Zenon DEF ClientAck
  <2> QED
    BY <1>0, <2>1, <2>2, <2>3, Zenon DEF FramesOK, PendingOwn, AckOfDelivery
<1>7. ASSUME NEW c \in Calls, Lookup(c)
      PROVE  AckInv'
  <2>1. /\ UNCHANGED <<pending, channel, acked, to_client, to_server, forwarding>>
        /\ call[c] \notin InDeliver
    BY <1>7, Zenon DEF Lookup, InDeliver
  <2>2. PICK to \in {"found", "done"} : call' = [call EXCEPT ![c] = to]
    BY <1>7, Zenon DEF Lookup
  <2>3. /\ call' \in [Calls -> InDeliver \cup {"idle", "found", "done"}]
        /\ PendingOwn'
    BY <1>m, <2>1, <2>2, Zenon
  <2> QED
    BY <1>0, <2>1, <2>3, Zenon DEF FramesOK, AckOfDelivery
<1>8. ASSUME NEW c \in Calls, AddPending(c)
      PROVE  AckInv'
  <2>1. UNCHANGED <<channel, acked, to_client, to_server, forwarding>>
    BY <1>8, Zenon DEF AddPending
  <2>2. AckOfDelivery'
    BY <1>0, <2>1, Zenon DEF AckOfDelivery
  <2>3. CASE Conn(c) \in closed
    <3>1. call' = [call EXCEPT ![c] = "done"] /\ pending' = pending
      BY <1>8, <2>3, Zenon DEF AddPending
    <3>2. FramesOK'
      BY <1>0, <2>1, <3>1, Zenon DEF FramesOK
    <3>3. PendingOwn'
      BY <1>0, <1>8, <3>1 DEF AddPending, FramesOK, PendingOwn, InDeliver
    <3> QED
      BY <2>2, <3>2, <3>3, Zenon
  <2>4. CASE Conn(c) \notin closed
    <3>1. /\ call' = [call EXCEPT ![c] = "registered"]
          /\ pending' = [pending EXCEPT ![DeliveryOf[c]] = c]
      BY <1>8, <2>4, Zenon DEF AddPending
    <3>2. FramesOK'
      BY <1>0, <2>1, <3>1, Zenon DEF FramesOK, InDeliver
    <3>3. PendingOwn'
      BY <1>0, <3>1 DEF FramesOK, PendingOwn, InDeliver
    <3> QED
      BY <2>2, <3>2, <3>3, Zenon
  <2> QED
    BY <2>3, <2>4, Zenon
<1>9. ASSUME NEW c \in Calls, WriteEvent(c)
      PROVE  AckInv'
  <2>1. Conn(c) \in Sessions
    BY Zenon DEF Conn
  <2>2. to_client' \in [Sessions -> Seq(Frames)]
    <3>1. c \in Frames
      BY Zenon DEF Frames
    <3>2. [to_client EXCEPT ![Conn(c)] = Append(@, c)]
             \in [Sessions -> Seq(Frames)]
      BY <1>0, <2>1, <3>1, FrameWritten, Zenon DEF FramesOK
    <3>3. \/ to_client' = [to_client EXCEPT ![Conn(c)] = Append(@, c)]
          \/ to_client' = to_client
      BY <1>9, Zenon DEF WriteEvent
    <3> QED
      BY <1>0, <3>2, <3>3, Zenon DEF FramesOK
  <2>3. UNCHANGED <<pending, channel, acked, to_server, forwarding>>
    BY <1>9, Zenon DEF WriteEvent
  <2>4. PICK to \in {"waiting", "returning"} : call' = [call EXCEPT ![c] = to]
    BY <1>9, Zenon DEF WriteEvent
  <2>5. /\ call' \in [Calls -> InDeliver \cup {"idle", "found", "done"}]
        /\ PendingOwn'
    BY <1>m, <2>3, <2>4, Zenon DEF InDeliver
  <2> QED
    BY <1>0, <2>2, <2>3, <2>5, Zenon DEF FramesOK, AckOfDelivery
<1>10. ASSUME NEW c \in Calls, Return(c)
       PROVE  AckInv'
  <2>1. /\ UNCHANGED <<pending, channel, to_client, to_server, forwarding>>
        /\ call' = [call EXCEPT ![c] = "returning"]
        /\ \/ acked' = [acked EXCEPT ![c] = channel[c]]
           \/ UNCHANGED acked
    BY <1>10, Zenon DEF Return
  <2>2. /\ call' \in [Calls -> InDeliver \cup {"idle", "found", "done"}]
        /\ PendingOwn'
    BY <1>m, <2>1, Zenon DEF InDeliver
  <2>3. acked' \in [Calls -> Calls \cup {NoCall}]
    BY <1>0, <2>1, Zenon DEF FramesOK
  <2>4. FramesOK'
    BY <1>0, <2>1, <2>2, <2>3, Zenon DEF FramesOK
  <2>5. AckOfDelivery'
    BY <1>0, <2>1, Zenon DEF FramesOK, AckOfDelivery
  <2> QED
    BY <2>2, <2>4, <2>5, Zenon
<1>11. ASSUME NEW c \in Calls, Timeout(c)
       PROVE  AckInv'
  <2>1. /\ UNCHANGED <<pending, channel, acked, to_client, to_server, forwarding>>
        /\ call' = [call EXCEPT ![c] = "returning"]
    BY <1>11, Zenon DEF Timeout
  <2>2. /\ call' \in [Calls -> InDeliver \cup {"idle", "found", "done"}]
        /\ PendingOwn'
    BY <1>m, <2>1, Zenon DEF InDeliver
  <2> QED
    BY <1>0, <2>1, <2>2, Zenon DEF FramesOK, AckOfDelivery
<1>12. ASSUME NEW c \in Calls, RemovePending(c)
       PROVE  AckInv'
  <2>1. /\ UNCHANGED <<channel, acked, to_client, to_server, forwarding>>
        /\ call' = [call EXCEPT ![c] = "done"]
        /\ pending' = [pending EXCEPT ![DeliveryOf[c]] = NoCall]
    BY <1>12, Zenon DEF RemovePending
  <2>2. FramesOK'
    BY <1>0, <2>1, Zenon DEF FramesOK
  <2>3. PendingOwn'
    <3> SUFFICES ASSUME NEW d \in Deliveries, pending'[d] # NoCall
                 PROVE  /\ DeliveryOf[pending'[d]] = d
                        /\ call'[pending'[d]] \in InDeliver
      BY Zenon DEF PendingOwn
    <3>1. pending'[d] = pending[d] /\ d # DeliveryOf[c]
      BY <1>0, <2>1, Zenon DEF FramesOK
    <3>2. /\ DeliveryOf[pending[d]] = d /\ call[pending[d]] \in InDeliver
          /\ pending[d] \in Calls
      BY <1>0, <3>1, Zenon DEF FramesOK, PendingOwn
    <3>3. pending[d] # c
      BY <3>1, <3>2, Zenon
    <3> QED
      BY <1>0, <2>1, <3>1, <3>2, <3>3, Zenon DEF FramesOK
  <2>4. AckOfDelivery'
    BY <1>0, <2>1, Zenon DEF AckOfDelivery
  <2> QED
    BY <2>2, <2>3, <2>4, Zenon
<1>13. ASSUME Restart
       PROVE  AckInv'
  BY <1>0, <1>13, Zenon
  DEF Restart, FramesOK, PendingOwn, AckOfDelivery, InDeliver
<1>14. ASSUME NEW s \in Sessions,
              \/ Attach(s) \/ Register(s) \/ Unregister(s) \/ Detach(s)
              \/ \E src \in Sources : RouteSource(s, src)
       PROVE  UNCHANGED <<callVars, clientVars>>
  BY <1>14, Zenon DEF Attach, Register, RouteSource, Unregister, Detach
<1>15. ASSUME NEW s \in Sessions, Disconnect(s) \/ ApiDelete(s)
       PROVE  UNCHANGED <<callVars, clientVars>>
  BY <1>15, Zenon DEF Disconnect, ApiDelete
<1>16. ASSUME NEW d \in Deliveries, FanOut(d)
       PROVE  UNCHANGED <<callVars, clientVars>>
  BY <1>16, Zenon DEF FanOut
<1>17. ASSUME OverlappingBoot
       PROVE  UNCHANGED <<callVars, clientVars>>
  BY <1>17, Zenon DEF OverlappingBoot
<1>18. CASE UNCHANGED vars
  BY <1>1, <1>18, Zenon DEF vars
<1> QED
  BY <1>1, <1>2, <1>3, <1>4, <1>5, <1>6, <1>7, <1>8, <1>9, <1>10, <1>11, <1>12,
     <1>13, <1>14, <1>15, <1>16, <1>17, <1>18, Zenon DEF Next, HandlerStep, CallStep

\* x is among the frames of queue q.
In(x, q) == \E i \in 1..Len(q) : q[i] = x

\* No event frame is twice in q.
Once(q) == \A i, j \in 1..Len(q) : q[i] = q[j] /\ q[i] # Ready => i = j

\* A frame that is not in a queue is written to it.
LEMMA OnceWritten ==
    ASSUME NEW T, NEW q \in Seq(T), NEW x \in T, Once(q), x = Ready \/ ~In(x, q)
    PROVE  /\ Once(Append(q, x))
           /\ \A y : In(y, Append(q, x)) => In(y, q) \/ y = x
<1>1. /\ Len(q) \in Nat /\ Len(Append(q, x)) = Len(q) + 1
      /\ Append(q, x)[Len(q) + 1] = x
      /\ \A i \in 1..Len(q) : Append(q, x)[i] = q[i]
  OBVIOUS
<1>2. \A i \in 1..(Len(q) + 1) : i \in 1..Len(q) \/ i = Len(q) + 1
  BY <1>1
<1>3. ASSUME NEW i \in 1..(Len(q) + 1), NEW j \in 1..(Len(q) + 1),
             Append(q, x)[i] = Append(q, x)[j], Append(q, x)[i] # Ready
      PROVE  i = j
  BY <1>1, <1>2, <1>3, Zenon DEF Once, In
<1>4. Once(Append(q, x))
  BY <1>1, <1>3, Zenon DEF Once
<1>5. \A y : In(y, Append(q, x)) => In(y, q) \/ y = x
  BY <1>1, <1>2, Zenon DEF In
<1> QED
  BY <1>4, <1>5, Zenon

\* The first frame is read from a queue, and is not in it any more.
LEMMA OnceRead ==
    ASSUME NEW T, NEW q \in Seq(T), q # <<>>, Once(q)
    PROVE  /\ Once(Tail(q))
           /\ In(Head(q), q)
           /\ \A y : In(y, Tail(q)) => In(y, q) /\ (y # Ready => y # Head(q))
<1>1. /\ Len(q) \in Nat \ {0} /\ Len(Tail(q)) = Len(q) - 1 /\ Head(q) = q[1]
      /\ \A i \in 1..(Len(q) - 1) : Tail(q)[i] = q[i + 1]
  OBVIOUS
<1>2. /\ 1 \in 1..Len(q)
      /\ \A i \in 1..(Len(q) - 1) : i + 1 \in 1..Len(q) /\ i + 1 # 1
      /\ \A i, j \in 1..(Len(q) - 1) : i + 1 = j + 1 => i = j
  BY <1>1
<1>3. Once(Tail(q))
  <2> SUFFICES ASSUME NEW i \in 1..(Len(q) - 1), NEW j \in 1..(Len(q) - 1),
                      Tail(q)[i] = Tail(q)[j], Tail(q)[i] # Ready
               PROVE  i = j
    BY <1>1, Zenon DEF Once
  <2>1. i + 1 = j + 1
    BY <1>1, <1>2, Zenon DEF Once
  <2> QED
    BY <1>2, <2>1, Zenon
<1>4. In(Head(q), q)
  BY <1>1, <1>2, Zenon DEF In
<1>5. ASSUME NEW y, In(y, Tail(q))
      PROVE  In(y, q) /\ (y # Ready => y # Head(q))
  <2>1. PICK i \in 1..(Len(q) - 1) : y = q[i + 1]
    BY <1>1, <1>5, Zenon DEF In
  <2> QED
    BY <1>1, <1>2, <2>1, Zenon DEF In, Once
<1> QED
  BY <1>3, <1>4, <1>5, Zenon

\* A call that has not written its frame yet.
Unsent(c) == call[c] \in {"idle", "found", "registered"}

\* The ack of frame c is in no channel.
Uncredited(c) == \A k \in Calls : channel[k] # c

\* A frame is in one place at a time, at its session, until it is credited.
Placed(s, c) ==
    /\ In(c, to_client[s]) => /\ s = Conn(c) /\ ~Unsent(c) /\ Uncredited(c)
                              /\ c \notin forwarding[s] /\ ~In(c, to_server[s])
    /\ c \in forwarding[s] => /\ s = Conn(c) /\ ~Unsent(c) /\ Uncredited(c)
                              /\ ~In(c, to_server[s])
    /\ In(c, to_server[s]) => s = Conn(c) /\ ~Unsent(c) /\ Uncredited(c)

\* A frame is credited to one call at most, after it was written; and what a
\* call returns is what its channel holds.
Credits ==
    /\ \A c, k \in Calls : channel[k] = c => ~Unsent(c)
    /\ \A c, k \in Calls : channel[c] = channel[k] /\ channel[c] # NoCall => c = k
    /\ \A c \in Calls : acked[c] \in {NoCall, channel[c]}

\* A call writes one frame.  It goes from the queue to the client, through a
\* forward and the queue back, into one channel at most.
FrameOnce ==
    /\ \A s \in Sessions : Once(to_client[s]) /\ Once(to_server[s])
    /\ \A s \in Sessions, c \in Calls : Placed(s, c)
    /\ Credits

\* No frame is under way at first.
LEMMA FrameInit == Init => FrameOnce
<1> SUFFICES ASSUME Init
             PROVE  FrameOnce
  BY Zenon
<1>1. /\ \A s \in Sessions : to_client[s] = <<>> /\ to_server[s] = <<>>
      /\ \A s \in Sessions : forwarding[s] = {}
      /\ \A c \in Calls : channel[c] = NoCall /\ acked[c] = NoCall
  BY Zenon DEF Init
<1>2. Once(<<>>) /\ \A c : ~In(c, <<>>)
  BY DEF Once, In
<1>3. \A s \in Sessions : Once(to_client[s]) /\ Once(to_server[s])
  BY <1>1, <1>2, Zenon
<1>4. \A s \in Sessions, c \in Calls : Placed(s, c)
  BY <1>1, <1>2, Zenon DEF Placed
<1>5. Credits
  BY <1>1, TunnelAssumption, Zenon DEF Credits
<1> QED
  BY <1>3, <1>4, <1>5, Zenon DEF FrameOnce

\* Every action preserves FrameOnce: a call writes its frame once, the client
\* forwards it once and answers it once, and readLoop takes an ack off the
\* socket before it looks for the call.
LEMMA FrameStep == AckInv /\ FrameOnce /\ [Next]_vars => FrameOnce'
<1> SUFFICES ASSUME AckInv, FrameOnce, [Next]_vars
             PROVE  FrameOnce'
  BY Zenon
<1> USE TunnelAssumption DEF tableVars, serverVars, callVars, clientVars
<1>t. FramesOK
  BY Zenon DEF AckInv
<1>p. /\ \A s \in Sessions : Once(to_client[s]) /\ Once(to_server[s])
      /\ \A s \in Sessions, c \in Calls : Placed(s, c)
      /\ Credits
  BY Zenon DEF FrameOnce
<1>r. \A c \in Calls : c # Ready /\ c # NoCall
  BY Zenon DEF Ready
\* A step that moves no frame.
<1>a. ASSUME UNCHANGED <<channel, acked, to_client, to_server, forwarding>>,
             \A c \in Calls : Unsent(c)' => Unsent(c)
      PROVE  FrameOnce'
  <2>1. \A s \in Sessions, c \in Calls : Placed(s, c)'
    BY <1>a, <1>p, Zenon DEF Placed, Uncredited
  <2>2. Credits'
    BY <1>a, <1>p, Zenon DEF Credits
  <2> QED
    BY <1>a, <1>p, <2>1, <2>2, Zenon DEF FrameOnce
<1>1. ASSUME NEW s \in Sessions, SendReady(s)
      PROVE  FrameOnce'
  <2>1. UNCHANGED <<call, channel, acked, to_server, forwarding>>
    BY <1>1, Zenon DEF SendReady
  <2>2. CASE to_client' = to_client
    BY <1>a, <2>1, <2>2, Zenon DEF Unsent
  <2>3. CASE to_client' = [to_client EXCEPT ![s] = Append(@, Ready)]
    <3>1. to_client[s] \in Seq(Frames) /\ Ready \in Frames
      BY <1>t, Zenon DEF FramesOK, Frames
    <3>2. /\ to_client'[s] = Append(to_client[s], Ready)
          /\ \A t \in Sessions \ {s} : to_client'[t] = to_client[t]
      BY <1>t, <2>3, Zenon DEF FramesOK
    <3>3. /\ Once(to_client'[s])
          /\ \A c \in Calls : In(c, to_client'[s]) => In(c, to_client[s])
      <4>1. /\ Once(Append(to_client[s], Ready))
            /\ \A y : In(y, Append(to_client[s], Ready)) => In(y, to_client[s]) \/ y = Ready
        <5>1. Once(to_client[s])
          BY <1>p, Zenon
        <5> QED
          BY <3>1, <5>1, OnceWritten, Zenon
      <4> QED
        BY <1>r, <3>2, <4>1, Zenon
    <3>4. \A t \in Sessions : Once(to_client'[t]) /\ Once(to_server'[t])
      BY <1>p, <2>1, <3>2, <3>3, Zenon
    <3>5. \A t \in Sessions, c \in Calls : In(c, to_client'[t]) => In(c, to_client[t])
      BY <3>2, <3>3, Zenon
    <3>6. \A t \in Sessions, c \in Calls : Placed(t, c)'
      BY <1>p, <2>1, <3>5, Zenon DEF Placed, Uncredited, Unsent
    <3>7. Credits'
      BY <1>p, <2>1, Zenon DEF Credits, Unsent
    <3> QED
      BY <3>4, <3>6, <3>7, Zenon DEF FrameOnce
  <2> QED
    BY <1>1, <2>2, <2>3, Zenon DEF SendReady
<1>2. ASSUME NEW c \in Calls, WriteEvent(c)
      PROVE  FrameOnce'
  <2>1. /\ UNCHANGED <<channel, acked, to_server, forwarding>>
        /\ Unsent(c) /\ Conn(c) \in Sessions
    BY <1>2, Zenon DEF WriteEvent, Unsent, Conn
  <2>2. PICK to \in {"waiting", "returning"} : call' = [call EXCEPT ![c] = to]
    BY <1>2, Zenon DEF WriteEvent
  <2>3. /\ ~Unsent(c)'
        /\ \A k \in Calls : Unsent(k)' => Unsent(k)
    BY <1>t, <2>2, Zenon DEF FramesOK, Unsent
  <2>4. CASE to_client' = to_client
    BY <1>a, <2>1, <2>3, <2>4, Zenon
  <2>5. CASE to_client' = [to_client EXCEPT ![Conn(c)] = Append(@, c)]
    <3>0. PICK s \in Sessions : s = Conn(c)
      BY <2>1, Zenon
    <3>1. to_client[s] \in Seq(Frames) /\ c \in Frames
      BY <1>t, Zenon DEF FramesOK, Frames
    <3>2. /\ to_client'[s] = Append(to_client[s], c)
          /\ \A t \in Sessions \ {s} : to_client'[t] = to_client[t]
      BY <1>t, <2>5, <3>0, Zenon DEF FramesOK
    <3>3. /\ Uncredited(c)
          /\ \A t \in Sessions : /\ ~In(c, to_client[t]) /\ ~In(c, to_server[t])
                                 /\ c \notin forwarding[t]
      BY <1>p, <2>1, Zenon DEF Placed, Credits, Uncredited
    <3>4. /\ Once(to_client'[s])
          /\ \A k \in Calls : In(k, to_client'[s]) => In(k, to_client[s]) \/ k = c
      <4>1. /\ Once(Append(to_client[s], c))
            /\ \A y : In(y, Append(to_client[s], c)) => In(y, to_client[s]) \/ y = c
        <5>1. Once(to_client[s]) /\ ~In(c, to_client[s])
          BY <1>p, <3>3, Zenon
        <5> QED
          BY <3>1, <5>1, OnceWritten, Zenon
      <4> QED
        BY <3>2, <4>1, Zenon
    <3>5. \A t \in Sessions : Once(to_client'[t]) /\ Once(to_server'[t])
      BY <1>p, <2>1, <3>2, <3>4, Zenon
    <3>6. \A t \in Sessions, k \in Calls :
             In(k, to_client'[t]) => In(k, to_client[t]) \/ (k = c /\ t = s)
      BY <3>2, <3>4, Zenon
    <3>7. \A t \in Sessions, k \in Calls : Placed(t, k)'
      <4> TAKE t \in Sessions, k \in Calls
      <4>1. Placed(t, k) /\ (Uncredited(k) => Uncredited(k)')
        BY <1>p, <2>1, Zenon DEF Uncredited
      <4>2. CASE k = c
        BY <2>1, <2>3, <3>0, <3>3, <3>6, <4>1, <4>2, Zenon DEF Placed
      <4>3. CASE k # c
        BY <2>1, <2>3, <3>6, <4>1, <4>3, Zenon DEF Placed
      <4> QED
        BY <4>2, <4>3, Zenon
    <3>8. Credits'
      BY <1>p, <2>1, <2>3, Zenon DEF Credits
    <3> QED
      BY <3>5, <3>7, <3>8, Zenon DEF FrameOnce
  <2> QED
    BY <1>2, <2>4, <2>5, Zenon DEF WriteEvent
<1>3. ASSUME NEW s \in Sessions, ReadAck(s)
      PROVE  FrameOnce'
  <2>1. /\ UNCHANGED <<call, acked, to_client, forwarding>>
        /\ to_server' = [to_server EXCEPT ![s] = Tail(@)]
        /\ to_server[s] # <<>> /\ to_server[s] \in Seq(Calls)
    BY <1>3, <1>t, Zenon DEF ReadAck, FramesOK
  <2>2. /\ to_server'[s] = Tail(to_server[s])
        /\ \A t \in Sessions \ {s} : to_server'[t] = to_server[t]
    BY <1>t, <2>1, Zenon DEF FramesOK
  <2>3. PICK frame \in Calls : frame = Head(to_server[s])
    BY <1>t, <2>1, FrameRead, Zenon DEF FramesOK
  <2>4. /\ Once(to_server'[s]) /\ In(frame, to_server[s])
        /\ \A c \in Calls : In(c, to_server'[s]) => In(c, to_server[s]) /\ c # frame
    <3>1. Once(to_server[s])
      BY <1>p, Zenon
    <3>2. /\ Once(Tail(to_server[s])) /\ In(Head(to_server[s]), to_server[s])
          /\ \A y : In(y, Tail(to_server[s])) =>
                In(y, to_server[s]) /\ (y # Ready => y # Head(to_server[s]))
      BY <2>1, <3>1, OnceRead, Zenon
    <3> QED
      BY <1>r, <2>2, <2>3, <3>2, Zenon
  <2>5. \A t \in Sessions : Once(to_client'[t]) /\ Once(to_server'[t])
    BY <1>p, <2>1, <2>2, <2>4, Zenon
  <2>6. s = Conn(frame) /\ ~Unsent(frame) /\ Uncredited(frame)
    BY <1>p, <2>4, Zenon DEF Placed
  <2>7. \A t \in Sessions, c \in Calls : In(c, to_server'[t]) => In(c, to_server[t])
    BY <2>2, <2>4, Zenon
  <2>8. \A t \in Sessions : /\ ~In(frame, to_client[t]) /\ ~In(frame, to_server'[t])
                            /\ frame \notin forwarding[t]
    <3> TAKE t \in Sessions
    <3>1. CASE t = s
      BY <1>p, <2>4, <3>1, Zenon DEF Placed
    <3>2. CASE t # s
      BY <1>p, <2>6, <2>7, <3>2, Zenon DEF Placed
    <3> QED
      BY <3>1, <3>2, Zenon
  <2>9. CASE channel' = channel
    <3>1. \A t \in Sessions, c \in Calls : Placed(t, c)'
      BY <1>p, <2>1, <2>7, <2>9, Zenon DEF Placed, Uncredited, Unsent
    <3>2. Credits'
      BY <1>p, <2>1, <2>9, Zenon DEF Credits, Unsent
    <3> QED
      BY <2>5, <3>1, <3>2, Zenon DEF FrameOnce
  <2>10. ASSUME NEW c \in Calls, channel[c] = NoCall,
                channel' = [channel EXCEPT ![c] = frame]
         PROVE  FrameOnce'
    <3>1. channel'[c] = frame /\ \A k \in Calls \ {c} : channel'[k] = channel[k]
      BY <1>t, <2>10, Zenon DEF FramesOK
    <3>2. \A k \in Calls \ {frame} : Uncredited(k) => Uncredited(k)'
      BY <3>1, Zenon DEF Uncredited
    <3>3. \A t \in Sessions, k \in Calls : Placed(t, k)'
      <4> TAKE t \in Sessions, k \in Calls
      <4>1. Placed(t, k) /\ (Unsent(k)' => Unsent(k))
        BY <1>p, <2>1, Zenon DEF Unsent
      <4>2. CASE k = frame
        BY <2>1, <2>8, <4>2, Zenon DEF Placed
      <4>3. CASE k # frame
        BY <2>1, <2>7, <3>2, <4>1, <4>3, Zenon DEF Placed
      <4> QED
        BY <4>2, <4>3, Zenon
    <3>4. Credits'
      <4>1. \A k, l \in Calls : channel'[l] = k => ~Unsent(k)'
        BY <1>p, <2>1, <2>6, <3>1, Zenon DEF Credits, Unsent
      <4>2. \A k, l \in Calls :
               channel'[k] = channel'[l] /\ channel'[k] # NoCall => k = l
        BY <1>p, <2>6, <3>1, Zenon DEF Credits, Uncredited
      <4>3. \A k \in Calls : acked'[k] \in {NoCall, channel'[k]}
        BY <1>p, <2>1, <2>10, <3>1, Zenon DEF Credits
      <4> QED
        BY <4>1, <4>2, <4>3, Zenon DEF Credits
    <3> QED
      BY <2>5, <3>3, <3>4, Zenon DEF FrameOnce
  <2>11. \/ channel' = channel
         \/ \E c \in Calls : /\ channel[c] = NoCall
                             /\ channel' = [channel EXCEPT ![c] = frame]
    <3>1. pending[DeliveryOf[frame]] \in Calls \cup {NoCall}
      BY <1>t, Zenon DEF FramesOK
    <3> QED
      BY <1>3, <2>3, <3>1, Zenon DEF ReadAck
  <2> QED
    BY <2>9, <2>10, <2>11, Zenon
<1>4. ASSUME NEW s \in Sessions, ClientReceive(s)
      PROVE  FrameOnce'
  <2>1. /\ UNCHANGED <<call, channel, acked, to_server>>
        /\ to_client' = [to_client EXCEPT ![s] = Tail(@)]
        /\ to_client[s] # <<>> /\ to_client[s] \in Seq(Frames)
    BY <1>4, <1>t, Zenon DEF ClientReceive, FramesOK
  <2>2. /\ to_client'[s] = Tail(to_client[s])
        /\ \A t \in Sessions \ {s} : to_client'[t] = to_client[t]
    BY <1>t, <2>1, Zenon DEF FramesOK
  <2>3. PICK frame \in Frames : frame = Head(to_client[s])
    BY <1>t, <2>1, FrameRead, Zenon DEF FramesOK
  <2>4. /\ Once(to_client'[s]) /\ In(frame, to_client[s])
        /\ \A c \in Calls : In(c, to_client'[s]) => In(c, to_client[s]) /\ c # frame
    <3>1. Once(to_client[s])
      BY <1>p, Zenon
    <3>2. /\ Once(Tail(to_client[s])) /\ In(Head(to_client[s]), to_client[s])
          /\ \A y : In(y, Tail(to_client[s])) =>
                In(y, to_client[s]) /\ (y # Ready => y # Head(to_client[s]))
      BY <2>1, <3>1, OnceRead, Zenon
    <3> QED
      BY <1>r, <2>2, <2>3, <3>2, Zenon
  <2>5. \A t \in Sessions : Once(to_client'[t]) /\ Once(to_server'[t])
    BY <1>p, <2>1, <2>2, <2>4, Zenon
  <2>6. \A t \in Sessions, c \in Calls : In(c, to_client'[t]) => In(c, to_client[t])
    BY <2>2, <2>4, Zenon
  <2>7. Credits'
    BY <1>p, <2>1, Zenon DEF Credits, Unsent
  <2>8. CASE forwarding' = forwarding
    <3>1. \A t \in Sessions, c \in Calls : Placed(t, c)'
      BY <1>p, <2>1, <2>6, <2>8, Zenon DEF Placed, Uncredited, Unsent
    <3> QED
      BY <2>5, <2>7, <3>1, Zenon DEF FrameOnce
  <2>9. CASE frame \in Calls /\ forwarding' = [forwarding EXCEPT ![s] = @ \cup {frame}]
    <3>1. /\ s = Conn(frame) /\ ~Unsent(frame) /\ Uncredited(frame)
          /\ ~In(frame, to_server[s])
      BY <1>p, <2>4, <2>9, Zenon DEF Placed
    <3>2. /\ forwarding'[s] = forwarding[s] \cup {frame}
          /\ \A t \in Sessions \ {s} : forwarding'[t] = forwarding[t]
      BY <1>t, <2>9, Zenon DEF FramesOK
    <3>3. \A t \in Sessions, c \in Calls :
             c \in forwarding'[t] => c \in forwarding[t] \/ (c = frame /\ t = s)
      BY <3>2, Zenon
    <3>4. \A t \in Sessions : ~In(frame, to_client'[t])
      BY <1>p, <2>4, <2>6, <2>9, <3>1, Zenon DEF Placed
    <3>5. \A t \in Sessions, c \in Calls : Placed(t, c)'
      <4> TAKE t \in Sessions, c \in Calls
      <4>1. /\ Placed(t, c)
            /\ Unsent(c)' => Unsent(c)
            /\ Uncredited(c) => Uncredited(c)'
        BY <1>p, <2>1, Zenon DEF Unsent, Uncredited
      <4>2. CASE c = frame
        BY <2>1, <3>1, <3>3, <3>4, <4>1, <4>2, Zenon DEF Placed
      <4>3. CASE c # frame
        BY <2>1, <2>6, <3>3, <4>1, <4>3, Zenon DEF Placed
      <4> QED
        BY <4>2, <4>3, Zenon
    <3> QED
      BY <2>5, <2>7, <3>5, Zenon DEF FrameOnce
  <2> QED
    BY <1>4, <2>3, <2>8, <2>9, Zenon DEF ClientReceive, Frames
<1>5. ASSUME NEW s \in Sessions, NEW c \in Calls, ClientAck(s, c)
      PROVE  FrameOnce'
  <2>1. /\ UNCHANGED <<call, channel, acked, to_client>>
        /\ c \in forwarding[s]
        /\ forwarding' = [forwarding EXCEPT ![s] = @ \ {c}]
    BY <1>5, Zenon DEF ClientAck
  <2>2. /\ forwarding'[s] = forwarding[s] \ {c}
        /\ \A t \in Sessions \ {s} : forwarding'[t] = forwarding[t]
    BY <1>t, <2>1, Zenon DEF FramesOK
  <2>3. \A t \in Sessions, k \in Calls :
           k \in forwarding'[t] => k \in forwarding[t] /\ ~(k = c /\ t = s)
    BY <2>2, Zenon
  <2>4. /\ s = Conn(c) /\ ~Unsent(c) /\ Uncredited(c)
        /\ ~In(c, to_client[s]) /\ ~In(c, to_server[s])
    BY <1>p, <2>1, Zenon DEF Placed
  <2>5. Credits'
    BY <1>p, <2>1, Zenon DEF Credits, Unsent
  <2>6. CASE to_server' = to_server
    <3>1. \A t \in Sessions, k \in Calls : Placed(t, k)'
      BY <1>p, <2>1, <2>3, <2>6, Zenon DEF Placed, Uncredited, Unsent
    <3> QED
      BY <1>p, <2>1, <2>5, <2>6, <3>1, Zenon DEF FrameOnce
  <2>7. CASE to_server' = [to_server EXCEPT ![s] = Append(@, c)]
    <3>1. to_server[s] \in Seq(Calls)
      BY <1>t, Zenon DEF FramesOK
    <3>2. /\ to_server'[s] = Append(to_server[s], c)
          /\ \A t \in Sessions \ {s} : to_server'[t] = to_server[t]
      BY <1>t, <2>7, Zenon DEF FramesOK
    <3>3. /\ Once(to_server'[s])
          /\ \A k \in Calls : In(k, to_server'[s]) => In(k, to_server[s]) \/ k = c
      <4>1. /\ Once(Append(to_server[s], c))
            /\ \A y : In(y, Append(to_server[s], c)) => In(y, to_server[s]) \/ y = c
        <5>1. Once(to_server[s])
          BY <1>p, Zenon
        <5> QED
          BY <2>4, <3>1, <5>1, OnceWritten, Zenon
      <4> QED
        BY <3>2, <4>1, Zenon
    <3>4. \A t \in Sessions : Once(to_client'[t]) /\ Once(to_server'[t])
      BY <1>p, <2>1, <3>2, <3>3, Zenon
    <3>5. \A t \in Sessions, k \in Calls :
             In(k, to_server'[t]) => In(k, to_server[t]) \/ (k = c /\ t = s)
      BY <3>2, <3>3, Zenon
    <3>6. \A t \in Sessions, k \in Calls : Placed(t, k)'
      <4> TAKE t \in Sessions, k \in Calls
      <4>1. /\ Placed(t, k)
            /\ Unsent(k)' => Unsent(k)
            /\ Uncredited(k) => Uncredited(k)'
        BY <1>p, <2>1, Zenon DEF Unsent, Uncredited
      <4>2. CASE k = c
        BY <2>1, <2>3, <2>4, <3>5, <4>1, <4>2, Zenon DEF Placed
      <4>3. CASE k # c
        BY <2>1, <2>3, <3>5, <4>1, <4>3, Zenon DEF Placed
      <4> QED
        BY <4>2, <4>3, Zenon
    <3> QED
      BY <2>5, <3>4, <3>6, Zenon DEF FrameOnce
  <2> QED
    BY <1>5, <2>6, <2>7, Zenon DEF ClientAck
<1>6. ASSUME NEW c \in Calls, Return(c)
      PROVE  FrameOnce'
  <2>1. /\ UNCHANGED <<channel, to_client, to_server, forwarding>>
        /\ call' = [call EXCEPT ![c] = "returning"]
        /\ \/ acked' = [acked EXCEPT ![c] = channel[c]]
           \/ UNCHANGED acked
    BY <1>6, Zenon DEF Return
  <2>2. \A k \in Calls : Unsent(k)' => Unsent(k)
    BY <1>t, <2>1, Zenon DEF FramesOK, Unsent
  <2>3. \A s \in Sessions, k \in Calls : Placed(s, k)'
    BY <1>p, <2>1, <2>2, Zenon DEF Placed, Uncredited
  <2>4. \A k \in Calls : acked'[k] \in {NoCall, channel'[k]}
    <3>1. \A k \in Calls : acked'[k] = acked[k] \/ acked'[k] = channel[k]
      BY <1>t, <2>1, Zenon DEF FramesOK
    <3>2. \A k \in Calls : acked[k] \in {NoCall, channel[k]}
      BY <1>p, Zenon DEF Credits
    <3> QED
      BY <2>1, <3>1, <3>2
  <2>5. Credits'
    BY <1>p, <2>1, <2>2, <2>4, Zenon DEF Credits
  <2> QED
    BY <1>p, <2>1, <2>3, <2>5, Zenon DEF FrameOnce
<1>7. ASSUME NEW c \in Calls, Lookup(c) \/ AddPending(c) \/ Timeout(c) \/ RemovePending(c)
      PROVE  FrameOnce'
  <2>1. UNCHANGED <<channel, acked, to_client, to_server, forwarding>>
    BY <1>7, Zenon DEF Lookup, AddPending, Timeout, RemovePending
  <2>2. CASE Lookup(c) \/ AddPending(c)
    <3>1. /\ call[c] \in {"idle", "found"}
          /\ \E to : call' = [call EXCEPT ![c] = to]
      BY <2>2, Zenon DEF Lookup, AddPending
    <3>2. \A k \in Calls : Unsent(k)' => Unsent(k)
      BY <1>t, <3>1, Zenon DEF FramesOK, Unsent
    <3> QED
      BY <1>a, <2>1, <3>2, Zenon
  <2>3. CASE Timeout(c) \/ RemovePending(c)
    <3>1. \E to \in {"returning", "done"} : call' = [call EXCEPT ![c] = to]
      BY <2>3, Zenon DEF Timeout, RemovePending
    <3>2. \A k \in Calls : Unsent(k)' => Unsent(k)
      BY <1>t, <3>1, Zenon DEF FramesOK, Unsent
    <3> QED
      BY <1>a, <2>1, <3>2, Zenon
  <2> QED
    BY <1>7, <2>2, <2>3, Zenon
<1>8. ASSUME NEW s \in Sessions, ReadError(s)
      PROVE  FrameOnce'
  BY <1>8, <1>a, Zenon DEF ReadError, Unsent
<1>9. ASSUME Restart
      PROVE  FrameOnce'
  <2>1. \A c \in Calls : Unsent(c)' => Unsent(c)
    BY <1>9, Zenon DEF Restart, Unsent
  <2> QED
    BY <1>9, <1>a, <2>1, Zenon DEF Restart
<1>b. ASSUME UNCHANGED <<callVars, clientVars>>
      PROVE  FrameOnce'
  BY <1>a, <1>b, Zenon DEF Unsent
<1>10. ASSUME NEW s \in Sessions,
              \/ Attach(s) \/ Register(s) \/ Unregister(s) \/ Detach(s)
              \/ \E src \in Sources : RouteSource(s, src)
       PROVE  UNCHANGED <<callVars, clientVars>>
  BY <1>10, Zenon DEF Attach, Register, RouteSource, Unregister, Detach
<1>11. ASSUME NEW s \in Sessions, Disconnect(s) \/ ApiDelete(s)
       PROVE  UNCHANGED <<callVars, clientVars>>
  BY <1>11, Zenon DEF Disconnect, ApiDelete
<1>12. ASSUME (\E d \in Deliveries : FanOut(d)) \/ OverlappingBoot
       PROVE  UNCHANGED <<callVars, clientVars>>
  BY <1>12, Zenon DEF FanOut, OverlappingBoot
<1>13. CASE UNCHANGED vars
  BY <1>b, <1>13, Zenon DEF vars
<1> QED
  BY <1>1, <1>2, <1>3, <1>4, <1>5, <1>6, <1>7, <1>8, <1>9, <1>b, <1>10, <1>11,
     <1>12, <1>13, Zenon DEF Next, HandlerStep, CallStep

\* With any number of sessions, deliveries, calls for each of them and frames
\* under way, readLoop and Deliver credit an ack to a call for the delivery it
\* names and to no second one; and only calls under way are pending, for their
\* own delivery.
THEOREM AcksAreCreditedOnce == Spec => []AckCreditedOnce
<1>1. AckInv /\ FrameOnce => AckCreditedOnce
  <2> SUFFICES ASSUME AckInv, FrameOnce
               PROVE  AckCreditedOnce
    BY Zenon
  <2>1. \A c \in Calls : acked[c] # NoCall => DeliveryOf[acked[c]] = DeliveryOf[c]
    BY Zenon DEF AckInv, AckOfDelivery
  <2>2. ASSUME NEW c \in Calls, NEW k \in Calls, acked[c] = acked[k], acked[c] # NoCall
        PROVE  c = k
    <3>1. acked[c] = channel[c] /\ acked[k] = channel[k]
      BY <2>2, Zenon DEF FrameOnce, Credits
    <3> QED
      BY <2>2, <3>1, Zenon DEF FrameOnce, Credits
  <2>3. \A d \in Deliveries : pending[d] # NoCall =>
           /\ DeliveryOf[pending[d]] = d
           /\ call[pending[d]] \in {"registered", "waiting", "returning"}
    BY Zenon DEF AckInv, PendingOwn, InDeliver
  <2> QED
    BY <2>1, <2>2, <2>3, Zenon DEF AckCreditedOnce
<1> QED
  BY <1>1, AckInit, AckStep, FrameInit, FrameStep, PTL DEF Spec
-----------------------------------------------------------------------------
(* The reconnect loop *)

\* The backoff is what the doublings since the last ready session give, within
\* its bounds, and a sleep was drawn from its jitter.
PaceInv ==
    /\ backoff \in MinBackoff..MaxBackoff
    /\ expected = backoff
    /\ session = "sleeping" => slept \in JitterOf(backoff)

\* jitter returns 50-100% of the duration, rounded down to an even number of
\* halves, and never zero.
LEMMA JitterWithin ==
    ASSUME NEW d \in Nat \ {0}, NEW t \in JitterOf(d)
    PROVE  t \in Nat /\ t <= d /\ 2 * t >= d - 1 /\ t > 0
<1>1. PICK h \in Nat : h = d \div 2 /\ 2 * h <= d /\ d <= 2 * h + 1
  OBVIOUS
<1>2. CASE h = 0
  BY <1>1, <1>2 DEF JitterOf
<1>3. CASE h # 0
  <2>1. t \in h..(2 * h)
    BY <1>1, <1>3 DEF JitterOf
  <2> QED
    BY <1>1, <1>3, <2>1
<1> QED
  BY <1>2, <1>3, Zenon

\* Listen starts at the short backoff, with a dial or not at all.
LEMMA PaceInit ==
    ASSUME NEW start \in {"dialing", "stopped"}, ReconnectInit(start)
    PROVE  PaceInv
BY ReconnectAssumption DEF ReconnectInit, PaceInv

\* Every step of Listen, runSession and the gateway preserves PaceInv: Sleep
\* resets the backoff only after a ready session and draws the jitter from it,
\* and Wake doubles it up to the cap.
LEMMA PaceStep == PaceInv /\ [ReconnectNext]_reconnectVars => PaceInv'
<1> SUFFICES ASSUME PaceInv, [ReconnectNext]_reconnectVars
             PROVE  PaceInv'
  BY Zenon
<1> USE DEF PaceInv
<1>1. ASSUME Sleep
      PROVE  PaceInv'
  BY <1>1, ReconnectAssumption DEF Sleep
<1>2. ASSUME UNCHANGED <<backoff, slept, expected>>,
             session' = session \/ session' # "sleeping"
      PROVE  PaceInv'
  BY <1>2, Zenon
<1>3. CASE Dial
  BY <1>1, <1>2, <1>3, Zenon DEF Dial, Stop
<1>4. CASE SessionOver
  BY <1>1, <1>2, <1>4, Zenon DEF SessionOver, Stop
<1>5. CASE Wake
  <2>1. CASE Stop
    BY <1>2, <2>1, Zenon DEF Stop
  <2>2. CASE /\ session' = "dialing"
             /\ backoff' = IF backoff < MaxBackoff
                           THEN Smaller(2 * backoff, MaxBackoff) ELSE backoff
             /\ expected' = Smaller(2 * expected, MaxBackoff)
    <3>1. /\ MinBackoff \in Nat \ {0} /\ MaxBackoff \in Nat
          /\ MinBackoff <= MaxBackoff
      BY ReconnectAssumption, Zenon
    <3>2. /\ backoff \in Nat /\ MinBackoff <= backoff /\ backoff <= MaxBackoff
          /\ expected = backoff
      BY <3>1
    <3>3. CASE backoff < MaxBackoff
      BY <2>2, <3>1, <3>2, <3>3 DEF Smaller
    <3>4. CASE ~(backoff < MaxBackoff)
      BY <2>2, <3>1, <3>2, <3>4 DEF Smaller
    <3> QED
      BY <3>3, <3>4, Zenon
  <2> QED
    BY <1>5, <2>1, <2>2, Zenon DEF Wake
<1>6. CASE ReadReady \/ Handled \/ SleepOn \/ ReadEvent \/ ReadFails \/ Interrupt
  BY <1>2, <1>6, Zenon
  DEF ReadReady, Handled, SleepOn, ReadEvent, ReadFails, Interrupt
<1>7. ASSUME NEW answer, GatewayChanges(answer)
      PROVE  PaceInv'
  BY <1>2, <1>7, Zenon DEF GatewayChanges
<1>8. CASE UNCHANGED reconnectVars
  BY <1>2, <1>8, Zenon DEF reconnectVars
<1> QED
  BY <1>3, <1>4, <1>5, <1>6, <1>7, <1>8, Zenon DEF ReconnectNext, Client

\* Whatever the two backoffs, however sessions and dials fail: each sleep of
\* Listen lasts between half and all of the capped, doubled backoff, and is
\* never zero.
THEOREM ReconnectsArePaced ==
    ASSUME NEW start \in {"dialing", "stopped"}
    PROVE  ReconnectInit(start) /\ [][ReconnectNext]_reconnectVars
              => []ReconnectPaced
<1>1. PaceInv => ReconnectPaced
  <2> SUFFICES ASSUME PaceInv, session = "sleeping"
               PROVE  slept <= expected /\ 2 * slept >= expected - 1 /\ slept > 0
    BY Zenon DEF ReconnectPaced
  <2>1. backoff \in Nat \ {0} /\ expected = backoff /\ slept \in JitterOf(backoff)
    BY ReconnectAssumption DEF PaceInv
  <2> QED
    BY <2>1, JitterWithin, Zenon
<1>2. ReconnectInit(start) => PaceInv
  BY PaceInit, Zenon
<1> QED
  BY <1>1, <1>2, PaceStep, PTL
=============================================================================
