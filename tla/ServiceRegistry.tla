--------------------------- MODULE ServiceRegistry ---------------------------
(***************************************************************************)
(* Which inference service is reachable, and through which connection:     *)
(* WebSocketManager (backend/websocket/manager.py), the handler of         *)
(* /ws/inference/{service_id} (backend/websocket/routes.py) and the status *)
(* column InferenceServiceManager keeps (backend/services/inference).      *)
(*                                                                         *)
(* WebSocketManager._lock is an asyncio.Lock that two methods hold across  *)
(* an await (connect_inference_service and the cancel signal), so here it  *)
(* has an owner and the other coroutines wait for it.  A piece of code     *)
(* from one such wait, send or receive to the next is one action.          *)
(***************************************************************************)
EXTENDS FiniteSets

CONSTANTS Services,  \* service ids
          Sockets,   \* websockets of /ws/inference, reused once forgotten
          Requests,  \* coroutines that signal a cancelled task
          None

ASSUME RegistryAssumption ==
    /\ Sockets \cap Requests = {}
    /\ None \notin Services \cup Sockets \cup Requests

VARIABLES connections,  \* _inference_connections
          services,     \* _connection_services
          lock,         \* the coroutine that holds _lock: a handler's socket or a request
          handler,      \* where the coroutine of a socket's route stands
          target,       \* the service_id of that route
          link,         \* whether the websocket can still carry a frame
          old,          \* old_ws while its replacement awaits old_ws.close()
          request,      \* send_cancel_signal: stage, services to signal, failed sends
          row,          \* inference_services.status
          announced     \* history: rows set running over HTTP, not by a connection

maps == <<connections, services>>
conn == <<handler, target, link, old>>
rows == <<row, announced>>
vars == <<maps, lock, conn, request, rows>>

\* "accepted": accept() done, _lock wanted; "closingOld": holds _lock over
\* old_ws.close(); "connected": about to notify the chat sessions; "serving": in
\* the receive loop; "leaving": in `finally`; "stopping": disconnect() is done.
HandlerStates == {"none", "accepted", "closingOld", "connected", "serving",
                  "leaving", "stopping"}
RequestStates == {"none", "looked", "sending", "stuck"}
NoRequest == [stage |-> "none", targets |-> {}, failed |-> {}]

-----------------------------------------------------------------------------
Free == lock = None

Connected == {x \in Services : connections[x] # None}

\* What DispatchRouter.list_services leaves of the running services: an empty
\* set of connected ids does not filter.
Candidates == {x \in Services : row[x] = "running" /\ (Connected # {} => x \in Connected)}

Init ==
    /\ connections = [x \in Services |-> None]
    /\ services = [s \in Sockets |-> None]
    /\ lock = None
    /\ handler = [s \in Sockets |-> "none"]
    /\ target = [s \in Sockets |-> None]
    /\ link = [s \in Sockets |-> "closed"]
    /\ old = [s \in Sockets |-> None]
    /\ request = [c \in Requests |-> NoRequest]
    /\ row = [x \in Services |-> "absent"]
    /\ announced = {}

\* Only what a live coroutine still refers to keeps a closed websocket apart.
Forgotten(s) ==
    /\ handler[s] = "none"
    /\ \A r \in Sockets : old[r] # s
    /\ \A c \in Requests : s \notin request[c].failed

-----------------------------------------------------------------------------
(* The row of a service                                                     *)

\* sync_service_registration and sync_service_heartbeat: refused without a row.
MarkRunning(x) ==
    /\ row' = [row EXCEPT ![x] = IF @ = "absent" THEN @ ELSE "running"]
    /\ announced' = announced \ {x}

\* sync_service_stop: refused without a row.
MarkStopped(x) ==
    /\ row' = [row EXCEPT ![x] = IF @ = "absent" THEN @ ELSE "stopped"]
    /\ announced' = announced \ {x}

CreateService(x) ==
    /\ row[x] = "absent"
    /\ row' = [row EXCEPT ![x] = "stopped"]
    /\ UNCHANGED <<maps, lock, conn, request, announced>>

\* delete_service does not look for a connection.
DeleteService(x) ==
    /\ row[x] # "absent"
    /\ row' = [row EXCEPT ![x] = "absent"]
    /\ announced' = announced \ {x}
    /\ UNCHANGED <<maps, lock, conn, request>>

\* POST /{service_id}/start creates the row when it is absent.
HttpStart(x) ==
    /\ row' = [row EXCEPT ![x] = "running"]
    /\ announced' = announced \cup {x}
    /\ UNCHANGED <<maps, lock, conn, request>>

HttpStop(x) ==
    /\ MarkStopped(x)
    /\ UNCHANGED <<maps, lock, conn, request>>

-----------------------------------------------------------------------------
(* The life of a connection                                                 *)

\* The route accepts a worker whose service has a row.
Accept(s, x) ==
    /\ Forgotten(s)
    /\ row[x] # "absent"
    /\ handler' = [handler EXCEPT ![s] = "accepted"]
    /\ target' = [target EXCEPT ![s] = x]
    /\ link' = [link EXCEPT ![s] = "open"]
    /\ UNCHANGED <<maps, lock, old, request, rows>>

\* The peer goes away, or watch_timeout closes a silent connection.
LinkDown(s) ==
    /\ link[s] = "open"
    /\ link' = [link EXCEPT ![s] = "closed"]
    /\ UNCHANGED <<maps, lock, handler, target, old, request, rows>>

\* Seeded fault: the service id is stored where the websocket belongs.
RegisterSwapped(s, x) ==
    /\ connections' = [connections EXCEPT ![x] = x]
    /\ services' = [r \in Sockets |-> CASE r = s -> x
                                        [] r = old[s] -> None
                                        [] OTHER -> services[r]]

\* Both maps get the new connection and its service.
Register(s, x) ==
    /\ connections' = [connections EXCEPT ![x] = s]
    /\ services' = [r \in Sockets |-> CASE r = s -> x
                                        [] r = old[s] -> None
                                        [] OTHER -> services[r]]

\* connect_inference_service: the first connection of a service.
ConnectNew(s) ==
    /\ handler[s] = "accepted"
    /\ Free
    /\ connections[target[s]] = None
    /\ Register(s, target[s])
    /\ handler' = [handler EXCEPT ![s] = "connected"]
    /\ UNCHANGED <<lock, target, link, old, request, rows>>

\* connect_inference_service: the service is connected already; _lock is held
\* while the old websocket is closed.
ConnectOver(s) ==
    /\ handler[s] = "accepted"
    /\ Free
    /\ connections[target[s]] # None
    /\ lock' = s
    /\ old' = [old EXCEPT ![s] = connections[target[s]]]
    /\ link' = [link EXCEPT ![connections[target[s]]] = "closed"]
    /\ handler' = [handler EXCEPT ![s] = "closingOld"]
    /\ UNCHANGED <<maps, target, request, rows>>

\* Seeded fault: the old websocket keeps its entry in _connection_services.
ReplaceKeepingOld(s) ==
    /\ handler[s] = "closingOld"
    /\ connections' = [connections EXCEPT ![target[s]] = s]
    /\ services' = [services EXCEPT ![s] = target[s]]
    /\ lock' = None
    /\ old' = [old EXCEPT ![s] = None]
    /\ handler' = [handler EXCEPT ![s] = "connected"]
    /\ UNCHANGED <<target, link, request, rows>>

\* old_ws.close() returned or raised.
Replace(s) ==
    /\ handler[s] = "closingOld"
    /\ Register(s, target[s])
    /\ lock' = None
    /\ old' = [old EXCEPT ![s] = None]
    /\ handler' = [handler EXCEPT ![s] = "connected"]
    /\ UNCHANGED <<target, link, request, rows>>

\* notify_inference_services_changed takes _lock and puts without waiting.
Serve(s) ==
    /\ handler[s] = "connected"
    /\ Free
    /\ handler' = [handler EXCEPT ![s] = "serving"]
    /\ UNCHANGED <<maps, lock, target, link, old, request, rows>>

\* A frame received before the end of the link is still handled after it.
\* service_register: the answer is sent and the chat sessions are notified; when
\* neither the answer nor the error can be sent, the receive loop ends.
ServiceRegister(s) ==
    /\ handler[s] = "serving"
    /\ MarkRunning(target[s])
    /\ \/ handler' = [handler EXCEPT ![s] = "connected"]
       \/ link[s] = "closed" /\ handler' = [handler EXCEPT ![s] = "leaving"]
    /\ UNCHANGED <<maps, lock, target, link, old, request>>

Heartbeat(s) ==
    /\ handler[s] = "serving"
    /\ MarkRunning(target[s])
    /\ UNCHANGED <<maps, lock, conn, request>>

\* The receive loop ends: the link is down or a frame raised.
Leave(s) ==
    /\ handler[s] = "serving"
    /\ handler' = [handler EXCEPT ![s] = "leaving"]
    /\ UNCHANGED <<maps, lock, target, link, old, request, rows>>

\* disconnect(): the service of a websocket that is still registered.
Unregister(s) ==
    /\ services' = [services EXCEPT ![s] = None]
    /\ connections' = [connections EXCEPT ![services[s]] = None]

HandlerEnds(s) ==
    /\ handler' = [handler EXCEPT ![s] = "none"]
    /\ target' = [target EXCEPT ![s] = None]
    /\ link' = [link EXCEPT ![s] = "closed"]
    /\ UNCHANGED old

\* Seeded faults: the service of the route is unregistered, not the websocket's;
\* the status is not written; the websocket stays registered.
DisconnectByService(s) ==
    /\ handler[s] = "leaving"
    /\ Free
    /\ services' = [services EXCEPT ![s] = None]
    /\ connections' = [connections EXCEPT ![target[s]] = None]
    /\ handler' = [handler EXCEPT ![s] = "stopping"]
    /\ UNCHANGED <<lock, target, link, old, request, rows>>

DisconnectWithoutStop(s) ==
    /\ handler[s] = "leaving"
    /\ Free
    /\ IF services[s] = None THEN UNCHANGED maps ELSE Unregister(s)
    /\ HandlerEnds(s)
    /\ UNCHANGED <<lock, request, rows>>

DisconnectKeepingMaps(s) ==
    /\ handler[s] = "leaving"
    /\ Free
    /\ MarkStopped(target[s])
    /\ HandlerEnds(s)
    /\ UNCHANGED <<maps, lock, request>>

\* `finally`: disconnect(), and for a websocket that was no longer registered
\* sync_service_stop at once.
Disconnect(s) ==
    /\ handler[s] = "leaving"
    /\ Free
    /\ \/ /\ services[s] # None
          /\ Unregister(s)
          /\ handler' = [handler EXCEPT ![s] = "stopping"]
          /\ UNCHANGED <<target, link, old, rows>>
       \/ /\ services[s] = None
          /\ MarkStopped(target[s])
          /\ HandlerEnds(s)
          /\ UNCHANGED maps
    /\ UNCHANGED <<lock, request>>

\* The sessions are notified of the disconnection; then sync_service_stop,
\* whichever connection the service has by now.
Stop(s) ==
    /\ handler[s] = "stopping"
    /\ Free
    /\ MarkStopped(target[s])
    /\ HandlerEnds(s)
    /\ UNCHANGED <<maps, lock, request>>

\* A coroutine that could not send to a websocket it had looked up
\* (send_message_to_inference_service, send_task_to_inference_service,
\* broadcast) disconnects it; the handler goes on.
Evict(s) ==
    /\ link[s] = "closed"
    /\ services[s] # None
    /\ Free
    /\ Unregister(s)
    /\ UNCHANGED <<lock, conn, request, rows>>

-----------------------------------------------------------------------------
(* send_cancel_signal_to_inference_service                                  *)

\* The service the task was dispatched to, when it is connected, or those the
\* router lists for its type; nothing more happens when there is none.
LookUp(c, targets) ==
    /\ request[c].stage = "none"
    /\ Free
    /\ targets # {}
    /\ targets \subseteq Candidates \/ \E x \in Connected : targets = {x}
    /\ request' = [request EXCEPT ![c] = [stage |-> "looked", targets |-> targets, failed |-> {}]]
    /\ UNCHANGED <<maps, lock, conn, rows>>

Acquire(c) ==
    /\ request[c].stage = "looked"
    /\ Free
    /\ lock' = c
    /\ request' = [request EXCEPT ![c].stage = "sending"]
    /\ UNCHANGED <<maps, conn, rows>>

\* One send_text under _lock: a service without a connection is skipped, and a
\* closed link raises or loses the frame.
Signal(c, x) ==
    /\ request[c].stage = "sending"
    /\ x \in request[c].targets
    /\ \/ request' = [request EXCEPT ![c].targets = @ \ {x}]
       \/ /\ connections[x] # None
          /\ link[connections[x]] = "closed"
          /\ request' = [request EXCEPT ![c].targets = @ \ {x},
                                        ![c].failed = @ \cup {connections[x]}]
    /\ UNCHANGED <<maps, lock, conn, rows>>

\* Seeded fault: a request with failed sends goes away with _lock taken.
ReleaseOnlyIfAllSent(c) ==
    /\ request[c].stage = "sending"
    /\ request[c].targets = {}
    /\ request' = [request EXCEPT ![c] = NoRequest]
    /\ IF request[c].failed = {} THEN lock' = None ELSE UNCHANGED lock
    /\ UNCHANGED <<maps, conn, rows>>

\* All signalled: _lock is released, unless a websocket failed: disconnect()
\* then waits for the _lock this coroutine holds itself.
Release(c) ==
    /\ request[c].stage = "sending"
    /\ request[c].targets = {}
    /\ \/ /\ request[c].failed = {}
          /\ lock' = None
          /\ request' = [request EXCEPT ![c] = NoRequest]
       \/ /\ request[c].failed # {}
          /\ request' = [request EXCEPT ![c].stage = "stuck"]
          /\ UNCHANGED lock
    /\ UNCHANGED <<maps, conn, rows>>

-----------------------------------------------------------------------------
\* The backend process ends and is started again: connections and coroutines
\* are gone, reset_all_status_on_startup stops every running service.
Restart ==
    /\ connections' = [x \in Services |-> None]
    /\ services' = [s \in Sockets |-> None]
    /\ lock' = None
    /\ handler' = [s \in Sockets |-> "none"]
    /\ target' = [s \in Sockets |-> None]
    /\ link' = [s \in Sockets |-> "closed"]
    /\ old' = [s \in Sockets |-> None]
    /\ request' = [c \in Requests |-> NoRequest]
    /\ row' = [x \in Services |-> IF row[x] = "running" THEN "stopped" ELSE row[x]]
    /\ announced' = {}

\* What a handler or a request does as soon as _lock lets it.
HandlerStep(s) ==
    \/ ConnectNew(s)
    \/ ConnectOver(s)
    \/ Replace(s)
    \/ Serve(s)
    \/ Disconnect(s)
    \/ Stop(s)

RequestStep(c) ==
    \/ Acquire(c)
    \/ \E x \in Services : Signal(c, x)
    \/ Release(c)

ServiceCall(x) == CreateService(x) \/ DeleteService(x) \/ HttpStart(x) \/ HttpStop(x)

Next ==
    \/ \E s \in Sockets :
          \/ \E x \in Services : Accept(s, x)
          \/ HandlerStep(s)
          \/ LinkDown(s)
          \/ ServiceRegister(s)
          \/ Heartbeat(s)
          \/ Leave(s)
          \/ Evict(s)
    \/ \E c \in Requests :
          \/ \E targets \in SUBSET Services : LookUp(c, targets)
          \/ RequestStep(c)
    \/ \E x \in Services : ServiceCall(x)
    \/ Restart

Spec == Init /\ [][Next]_vars

\* asyncio.Lock serves its waiters in order, so no waiter is passed over for
\* ever; close() and send_text() return or raise.
Fairness ==
    /\ \A s \in Sockets : SF_vars(HandlerStep(s))
    /\ \A c \in Requests : SF_vars(RequestStep(c))

FairSpec == Spec /\ Fairness

-----------------------------------------------------------------------------
(* Properties                                                               *)

\* Every variable has its type.
TypeOK ==
    /\ connections \in [Services -> Sockets \cup {None}]
    /\ services \in [Sockets -> Services \cup {None}]
    /\ lock \in Sockets \cup Requests \cup {None}
    /\ handler \in [Sockets -> HandlerStates]
    /\ target \in [Sockets -> Services \cup {None}]
    /\ link \in [Sockets -> {"open", "closed"}]
    /\ old \in [Sockets -> Sockets \cup {None}]
    /\ request \in [Requests -> [stage : RequestStates, targets : SUBSET Services,
                                 failed : SUBSET Sockets]]
    /\ row \in [Services -> {"absent", "stopped", "running"}]
    /\ announced \subseteq Services

\* disconnect() removes the entry of a service by the name it finds for the
\* websocket: that is right because the two maps are always inverse, also after
\* replacements, evictions and late ends of old connections.
MapsAreInverse ==
    \A x \in Services, s \in Sockets : connections[x] = s <=> services[s] = x

\* A registered websocket has a handler that will unregister it: no connection
\* stays in the maps when its coroutine is gone.
RegisteredIsHandled ==
    \A x \in Services : connections[x] # None =>
        /\ target[connections[x]] = x
        /\ handler[connections[x]] \in {"connected", "serving", "leaving"}

\* A row a connection set running is set stopped again: as long as it shows
\* running there is a handler left that will write stopped.
RunningRowIsServed ==
    \A x \in Services : row[x] = "running" /\ x \notin announced =>
        \E s \in Sockets :
            target[s] = x /\ handler[s] \in {"connected", "serving", "leaving", "stopping"}

\* The end of a connection, however late, never unregisters the connection that
\* replaced it: a service is unregistered by its own handler or a failed send.
OnlyOwnEndUnregisters ==
    [][\A x \in Services : connections[x] # None /\ connections'[x] = None =>
          \/ handler[connections[x]] = "leaving"
          \/ link[connections[x]] = "closed"
          \/ \A s \in Sockets : handler'[s] = "none"]_vars

Stuck == \E c \in Requests : request[c].stage = "stuck"

\* A worker that was accepted gets to its receive loop, and a handler that
\* leaves ends, unless a cancel signal hangs in its own lock.
HandlersProgress ==
    \A s \in Sockets :
        handler[s] \notin {"none", "serving"} ~> handler[s] \in {"none", "serving"} \/ Stuck

\* manager.py:871 asks never to await disconnect() while _lock is held, to avoid
\* a deadlock: no coroutine waits for the lock it owns.
NoSelfDeadlock == ~Stuck

-----------------------------------------------------------------------------
(* The inductive invariant behind MapsAreInverse, RegisteredIsHandled and   *)
(* RunningRowIsServed                                                       *)

\* _lock has one owner: the handler that replaces a connection, which no other
\* coroutine can have unregistered meanwhile, or the request that signals.
LockOwners ==
    /\ \A s \in Sockets :
          IF handler[s] = "closingOld"
          THEN lock = s /\ old[s] # None /\ old[s] = connections[target[s]]
          ELSE old[s] = None
    /\ \A c \in Requests : request[c].stage \in {"sending", "stuck"} => lock = c

\* The coroutine of a route knows its service until it ends.
RoutesOfHandlers ==
    \A s \in Sockets : handler[s] # "none" => target[s] \in Services

IInv ==
    /\ LockOwners
    /\ RoutesOfHandlers
    /\ MapsAreInverse
    /\ RegisteredIsHandled
    /\ RunningRowIsServed
=============================================================================
