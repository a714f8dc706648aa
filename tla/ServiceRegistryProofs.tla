------------------------ MODULE ServiceRegistryProofs ------------------------
(***************************************************************************)
(* Proofs about ServiceRegistry, for any number of services, connections   *)
(* and cancel signals.                                                     *)
(***************************************************************************)
EXTENDS ServiceRegistry, TLAPS

-----------------------------------------------------------------------------
(* Type correctness                                                         *)

\* A step keeps the types: connect_inference_service looks its service up in the
\* map, which is right because a route that runs knows its service.
LEMMA TypeStep ==
    ASSUME TypeOK, RoutesOfHandlers, [Next]_vars
    PROVE  TypeOK'
<1> USE RegistryAssumption DEF TypeOK, HandlerStates, RequestStates, NoRequest
<1>1. ASSUME NEW s \in Sockets, NEW x \in Services, Accept(s, x)
      PROVE  TypeOK'
  BY <1>1 DEF Accept, maps, rows
<1>2. ASSUME NEW s \in Sockets, ConnectNew(s) \/ Replace(s)
      PROVE  TypeOK'
  <2>1. Register(s, target[s]) /\ target[s] \in Services \cup {None}
    BY <1>2 DEF ConnectNew, Replace
  <2>2. connections' \in [Services -> Sockets \cup {None}]
    BY <2>1 DEF Register
  <2>3. services' \in [Sockets -> Services \cup {None}]
    <3>1. \A r \in Sockets : services'[r] \in Services \cup {None}
      BY <2>1 DEF Register
    <3>2. QED
      BY <2>1, <3>1 DEF Register
  <2>4. /\ lock' \in Sockets \cup Requests \cup {None}
        /\ handler' \in [Sockets -> HandlerStates]
        /\ old' \in [Sockets -> Sockets \cup {None}]
        /\ UNCHANGED <<target, link, request, row, announced>>
    BY <1>2 DEF ConnectNew, Replace, rows
  <2>5. QED
    BY <2>2, <2>3, <2>4
<1>3. ASSUME NEW s \in Sockets, ConnectOver(s)
      PROVE  TypeOK'
  <2>1. target[s] \in Services
    BY <1>3 DEF ConnectOver, RoutesOfHandlers
  <2>2. connections[target[s]] \in Sockets
    BY <1>3, <2>1 DEF ConnectOver
  <2>3. QED
    BY <1>3, <2>2 DEF ConnectOver, maps, rows
<1>4. ASSUME NEW s \in Sockets, Serve(s) \/ LinkDown(s) \/ Leave(s)
      PROVE  TypeOK'
  BY <1>4 DEF Serve, LinkDown, Leave, maps, rows
<1>5. ASSUME NEW s \in Sockets, ServiceRegister(s) \/ Heartbeat(s)
      PROVE  TypeOK'
  BY <1>5 DEF ServiceRegister, Heartbeat, MarkRunning, maps, conn
<1>6. ASSUME NEW s \in Sockets, Disconnect(s)
      PROVE  TypeOK'
  BY <1>6 DEF Disconnect, Unregister, MarkStopped, HandlerEnds, maps, rows
<1>7. ASSUME NEW s \in Sockets, Stop(s)
      PROVE  TypeOK'
  BY <1>7 DEF Stop, MarkStopped, HandlerEnds, maps
<1>8. ASSUME NEW s \in Sockets, Evict(s)
      PROVE  TypeOK'
  BY <1>8 DEF Evict, Unregister, conn, rows
<1>9. ASSUME NEW c \in Requests, NEW targets \in SUBSET Services, LookUp(c, targets)
      PROVE  TypeOK'
  BY <1>9 DEF LookUp, maps, conn, rows
<1>10. ASSUME NEW c \in Requests, NEW x \in Services, Signal(c, x)
       PROVE  TypeOK'
  BY <1>10 DEF Signal, maps, conn, rows
<1>11. ASSUME NEW c \in Requests, Acquire(c) \/ Release(c)
       PROVE  TypeOK'
  BY <1>11 DEF Acquire, Release, maps, conn, rows
<1>12. ASSUME NEW x \in Services, ServiceCall(x)
       PROVE  TypeOK'
  BY <1>12 DEF ServiceCall, CreateService, DeleteService, HttpStart, HttpStop, MarkStopped,
               maps, conn
<1>13. CASE Restart
  BY <1>13 DEF Restart
<1>14. CASE UNCHANGED vars
  BY <1>14 DEF vars, maps, conn, rows
<1>15. QED
  BY <1>1, <1>2, <1>3, <1>4, <1>5, <1>6, <1>7, <1>8, <1>9, <1>10, <1>11, <1>12, <1>13, <1>14
     DEF Next, HandlerStep, RequestStep

\* A route that runs goes on knowing its service.
LEMMA RoutesStep ==
    ASSUME TypeOK, RoutesOfHandlers, [Next]_vars
    PROVE  RoutesOfHandlers'
<1> USE RegistryAssumption DEF TypeOK, HandlerStates, RoutesOfHandlers
<1>1. ASSUME NEW s \in Sockets, NEW x \in Services, Accept(s, x)
      PROVE  RoutesOfHandlers'
  BY <1>1 DEF Accept
<1>2. ASSUME NEW s \in Sockets, HandlerStep(s)
      PROVE  RoutesOfHandlers'
  BY <1>2 DEF HandlerStep, ConnectNew, ConnectOver, Replace, Serve, Disconnect, Stop, HandlerEnds
<1>3. ASSUME NEW s \in Sockets, LinkDown(s) \/ ServiceRegister(s) \/ Heartbeat(s) \/ Leave(s) \/ Evict(s)
      PROVE  RoutesOfHandlers'
  BY <1>3 DEF LinkDown, ServiceRegister, Heartbeat, Leave, Evict, conn
<1>4. ASSUME UNCHANGED conn
      PROVE  RoutesOfHandlers'
  BY <1>4 DEF conn
<1>5. ASSUME NEW c \in Requests, NEW targets \in SUBSET Services, LookUp(c, targets)
      PROVE  UNCHANGED conn
  BY <1>5 DEF LookUp
<1>6. ASSUME NEW c \in Requests, RequestStep(c)
      PROVE  UNCHANGED conn
  BY <1>6 DEF RequestStep, Acquire, Signal, Release
<1>7. ASSUME NEW x \in Services, ServiceCall(x)
      PROVE  UNCHANGED conn
  BY <1>7 DEF ServiceCall, CreateService, DeleteService, HttpStart, HttpStop
<1>8. CASE Restart
  BY <1>8 DEF Restart
<1>9. CASE UNCHANGED vars
  BY <1>4, <1>9 DEF vars
<1>10. QED
  BY <1>1, <1>2, <1>3, <1>4, <1>5, <1>6, <1>7, <1>8, <1>9 DEF Next

\* Every reachable state of the registry has the types of TypeOK, and every
\* route that runs knows its service.
LEMMA TypesAndRoutes == Spec => [](TypeOK /\ RoutesOfHandlers)
<1>1. Init => TypeOK /\ RoutesOfHandlers
  BY RegistryAssumption DEF Init, TypeOK, HandlerStates, RequestStates, NoRequest, RoutesOfHandlers
<1>2. TypeOK /\ RoutesOfHandlers /\ [Next]_vars => (TypeOK /\ RoutesOfHandlers)'
  BY TypeStep, RoutesStep
<1>3. QED
  BY <1>1, <1>2, PTL DEF Spec

\* Every reachable state of the registry has the types of TypeOK.
THEOREM TypeCorrect == Spec => []TypeOK
  BY TypesAndRoutes, PTL

-----------------------------------------------------------------------------
(* The inductive invariant                                                  *)

\* A step keeps the inductive invariant.
LEMMA InductiveStep ==
    ASSUME TypeOK, IInv, [Next]_vars
    PROVE  IInv'
<1> USE RegistryAssumption DEF TypeOK, HandlerStates, RequestStates, NoRequest, IInv, LockOwners,
        RoutesOfHandlers, MapsAreInverse, RegisteredIsHandled, RunningRowIsServed
<1>1. ASSUME NEW s \in Sockets, NEW x \in Services, Accept(s, x)
      PROVE  IInv'
  BY <1>1 DEF Accept, Forgotten, maps, rows
<1>2. ASSUME NEW s \in Sockets, ConnectNew(s)
      PROVE  IInv'
  BY <1>2 DEF ConnectNew, Register, Free, rows
<1>3. ASSUME NEW s \in Sockets, ConnectOver(s)
      PROVE  IInv'
  BY <1>3 DEF ConnectOver, Free, maps, rows
<1>4. ASSUME NEW s \in Sockets, Replace(s)
      PROVE  IInv'
  BY <1>4 DEF Replace, Register, rows
<1>5. ASSUME NEW s \in Sockets, Serve(s) \/ LinkDown(s) \/ Leave(s)
      PROVE  IInv'
  BY <1>5 DEF Serve, LinkDown, Leave, maps, rows
<1>6. ASSUME NEW s \in Sockets, ServiceRegister(s) \/ Heartbeat(s)
      PROVE  IInv'
  BY <1>6 DEF ServiceRegister, Heartbeat, MarkRunning, maps, conn
<1>7. ASSUME NEW s \in Sockets, Disconnect(s)
      PROVE  IInv'
  BY <1>7 DEF Disconnect, Unregister, MarkStopped, HandlerEnds, Free, maps, rows
<1>8. ASSUME NEW s \in Sockets, Stop(s)
      PROVE  IInv'
  BY <1>8 DEF Stop, MarkStopped, HandlerEnds, maps
<1>9. ASSUME NEW s \in Sockets, Evict(s)
      PROVE  IInv'
  BY <1>9 DEF Evict, Unregister, Free, conn, rows
<1>10. ASSUME NEW c \in Requests, NEW targets \in SUBSET Services, LookUp(c, targets)
       PROVE  IInv'
  BY <1>10 DEF LookUp, maps, conn, rows
<1>11. ASSUME NEW c \in Requests, NEW x \in Services, Signal(c, x)
       PROVE  IInv'
  BY <1>11 DEF Signal, maps, conn, rows
<1>12. ASSUME NEW c \in Requests, Acquire(c) \/ Release(c)
       PROVE  IInv'
  BY <1>12 DEF Acquire, Release, Free, maps, conn, rows
<1>13. ASSUME NEW x \in Services, ServiceCall(x)
       PROVE  IInv'
  BY <1>13 DEF ServiceCall, CreateService, DeleteService, HttpStart, HttpStop, MarkStopped,
               maps, conn
<1>14. CASE Restart
  BY <1>14 DEF Restart
<1>15. CASE UNCHANGED vars
  BY <1>15 DEF vars, maps, conn, rows
<1>16. QED
  BY <1>1, <1>2, <1>3, <1>4, <1>5, <1>6, <1>7, <1>8, <1>9, <1>10, <1>11, <1>12, <1>13, <1>14,
     <1>15 DEF Next, HandlerStep, RequestStep

\* Every reachable state satisfies the inductive invariant.
THEOREM InductiveInvariant == Spec => []IInv
<1>1. Init => IInv
  BY RegistryAssumption DEF Init, NoRequest, IInv, LockOwners, RoutesOfHandlers, MapsAreInverse,
     RegisteredIsHandled, RunningRowIsServed
<1>2. TypeOK /\ IInv /\ [Next]_vars => IInv'
  BY InductiveStep
<1>3. QED
  BY <1>1, <1>2, TypeCorrect, PTL DEF Spec

-----------------------------------------------------------------------------
(* The safety properties                                                    *)

\* The two maps of WebSocketManager are inverse to each other at all times.
THEOREM MapsAreInverseHolds == Spec => []MapsAreInverse
  BY InductiveInvariant, PTL DEF IInv

\* No connection is registered without a handler that will unregister it.
THEOREM RegisteredIsHandledHolds == Spec => []RegisteredIsHandled
  BY InductiveInvariant, PTL DEF IInv

\* No row is left running by a connection whose handler has ended.
THEOREM RunningRowIsServedHolds == Spec => []RunningRowIsServed
  BY InductiveInvariant, PTL DEF IInv

\* A step that empties the entry of a service ends the connection registered there,
\* or follows the end of its link, or is the end of the process.
LEMMA UnregisteringStep ==
    ASSUME TypeOK, IInv, [Next]_vars,
           NEW x \in Services, connections[x] # None, connections'[x] = None
    PROVE  \/ handler[connections[x]] = "leaving"
           \/ link[connections[x]] = "closed"
           \/ \A s \in Sockets : handler'[s] = "none"
<1> USE RegistryAssumption DEF TypeOK
<1>1. \A s \in Sockets : services[s] = x => connections[x] = s
  BY DEF IInv, MapsAreInverse
<1>2. ASSUME NEW s \in Sockets, Unregister(s), services[s] # None
      PROVE  connections[x] = s
  BY <1>1, <1>2 DEF Unregister
<1>3. ASSUME NEW s \in Sockets, Disconnect(s)
      PROVE  handler[connections[x]] = "leaving"
  BY <1>2, <1>3 DEF Disconnect, maps
<1>4. ASSUME NEW s \in Sockets, Evict(s)
      PROVE  link[connections[x]] = "closed"
  BY <1>2, <1>4 DEF Evict
<1>5. ASSUME NEW s \in Sockets, ConnectNew(s) \/ Replace(s)
      PROVE  FALSE
  BY <1>5 DEF ConnectNew, Replace, Register
<1>6. CASE Restart
  BY <1>6 DEF Restart
<1>7. ~UNCHANGED connections
  OBVIOUS
<1>8. QED
  BY <1>3, <1>4, <1>5, <1>6, <1>7 DEF Next, HandlerStep, RequestStep, ServiceCall, vars, maps,
     Accept, LinkDown, ConnectOver, Serve, ServiceRegister, Heartbeat, Leave, Stop, LookUp, Acquire,
     Signal, Release, CreateService, DeleteService, HttpStart, HttpStop

\* A connection is unregistered by its own end, after the end of its link or with the
\* process: the late end of a connection that was replaced does not reach its successor.
THEOREM OnlyOwnEndUnregistersHolds == Spec => OnlyOwnEndUnregisters
<1>1. TypeOK /\ IInv /\ [Next]_vars =>
        \A x \in Services : connections[x] # None /\ connections'[x] = None =>
          \/ handler[connections[x]] = "leaving"
          \/ link[connections[x]] = "closed"
          \/ \A s \in Sockets : handler'[s] = "none"
  BY UnregisteringStep
<1>2. QED
  BY <1>1, TypeCorrect, InductiveInvariant, PTL DEF Spec, OnlyOwnEndUnregisters
=============================================================================
