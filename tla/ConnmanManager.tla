--------------------------- MODULE ConnmanManager ---------------------------
(***************************************************************************)
(* src/libgupnp/gupnp-connman-manager.c: contexts from the services that   *)
(* ConnMan reports over D-Bus, and one for the loopback interface.         *)
(*                                                                         *)
(* os is the state and the interface of each service at ConnMan, queue     *)
(* what the bus has for the client in the order sent, manager the          *)
(* CMServices, the calls without an answer and the idle source; told       *)
(* counts context-available less context-unavailable.                      *)
(***************************************************************************)
EXTENDS Integers, Sequences, FiniteSets, Lists

CONSTANTS
    Services,
    Interfaces,  \* that a service may be on
    MaxQueue,    \* bound: messages on the bus
    MaxContexts  \* bound: contexts of a service that were not withdrawn

VARIABLES os, queue, manager, told, disposed

vars == <<os, queue, manager, told, disposed>>

\* "online" and "ready" are active.
States == {"inactive", "active"}

Absent == [current |-> "absent"]

\* A CMService.  The context it had may have been overwritten by another.
CMService ==
    [current : States, iface : Interfaces, proxy : BOOLEAN, context : BOOLEAN, timeout : BOOLEAN]

\* Calls that are due an answer
Calls == [call : {"GetServices"}] \cup [call : {"proxy", "GetProperties"}, service : Services]

TypeOK ==
    /\ os \in [Services -> [state : States \cup {"none"}, iface : Interfaces]]
    /\ manager.services \in [Services -> CMService \cup {Absent}]
    /\ manager.calls \subseteq Calls
    /\ manager.idle \in BOOLEAN
    /\ told \in [Services \cup {"lo"} -> Int]
    /\ disposed \in BOOLEAN

Init ==
    /\ os \in [Services -> [state : States \cup {"none"}, iface : Interfaces]]
    /\ queue = <<>>
    /\ manager = [services |-> [s \in Services |-> Absent],
                  calls |-> {[call |-> "GetServices"]}, idle |-> TRUE]
    /\ told = [s \in Services \cup {"lo"} |-> 0]
    /\ disposed = FALSE

-----------------------------------------------------------------------------
(* Helpers: each maps m, the manager with told, to the next; ok says       *)
(* whether a context can be created.                                       *)

Tell(m, s, n) == [m EXCEPT !.told[s] = @ + n]

\* service_context_create(): what the service had is overwritten.
ContextCreate(m, s, ok) ==
    Tell([m EXCEPT !.services[s].context = ok], s, IF ok THEN 1 ELSE 0)

\* ... in the places where a failure makes the service inactive
ContextCreateOrInactive(m, s, ok) ==
    LET created == ContextCreate(m, s, ok) IN
    IF ok THEN created ELSE [created EXCEPT !.services[s].current = "inactive"]

\* service_context_delete()
ContextDelete(m, s) == Tell([m EXCEPT !.services[s].context = FALSE], s, -1)

\* faulty: the context stays
ContextUpdateKeeps(m, s, state) ==
    [m EXCEPT !.services[s].current = state, !.services[s].timeout = state = "active"]

\* service_context_update()
ContextUpdate(m, s, state) ==
    LET now == [m EXCEPT !.services[s].current = state,
                         !.services[s].timeout = state = "active"] IN
    IF m.services[s].current = state THEN m
    ELSE IF state = "inactive" /\ m.services[s].context THEN ContextDelete(now, s)
    ELSE now

\* The interface has changed, of on_service_property_changed() and cm_service_update()
InterfaceChange(m, s, iface, ok) ==
    LET now == [m EXCEPT !.services[s].iface = iface] IN
    IF m.services[s].iface # iface /\ m.services[s].context
    THEN ContextCreate(ContextDelete(now, s), s, ok)
    ELSE now

\* cm_service_add()
ServiceAdd(m, s, info) ==
    [m EXCEPT !.services[s] = [current |-> info.state, iface |-> info.iface, proxy |-> FALSE,
                               context |-> FALSE, timeout |-> FALSE],
              !.calls = @ \cup {[call |-> "proxy", service |-> s]}]

\* services_array_add() for one service; cm_service_update() is the second case
ServiceUpdate(m, s, info, ok) ==
    IF m.services[s] = Absent THEN ServiceAdd(m, s, info)
    ELSE ContextUpdate(InterfaceChange(m, s, info.iface, ok), s, info.state)

\* cm_service_free(), which also cancels the calls
ServiceFree(m, s) ==
    LET freed == [m EXCEPT !.services[s] = Absent,
                           !.calls = {c \in @ : c.call = "GetServices" \/ c.service # s}]
    IN
    IF m.services[s] # Absent /\ m.services[s].context THEN Tell(freed, s, -1) ELSE freed

\* services_array_add() for the whole array, and what is left when each service is freed
Updated(m, infos, services, ok) ==
    LET after[n \in 0 .. Len(services)] ==
            IF n = 0 THEN m
            ELSE ServiceUpdate(after[n - 1], services[n], infos[services[n]], ok)
    IN  after[Len(services)]
Freed(m, services) ==
    LET after[n \in 0 .. Len(services)] ==
            IF n = 0 THEN m ELSE ServiceFree(after[n - 1], services[n])
    IN  after[Len(services)]

\* service_proxy_new_cb() and cm_service_use()
ServiceUse(m, s, ok) ==
    LET used == [m EXCEPT !.services[s].proxy = TRUE,
                          !.calls = @ \cup {[call |-> "GetProperties", service |-> s]}]
    IN
    IF m.services[s].current = "active" THEN ContextCreateOrInactive(used, s, ok) ELSE used

-----------------------------------------------------------------------------
(* Steps of the manager.                                                   *)

Known == [services |-> manager.services, calls |-> manager.calls, told |-> told]

Know(m) ==
    /\ manager' = [manager EXCEPT !.services = m.services, !.calls = m.calls]
    /\ told' = m.told

\* on_service_property_changed(), and get_properties_cb() for the whole set; the
\* signal is subscribed to when the service is in use.
PropertiesChanged(m, msg, ok) ==
    LET s == msg.service IN
    IF m.services[s] = Absent \/ ~m.services[s].proxy THEN m
    ELSE ContextUpdate(InterfaceChange(m, s, msg.info.iface, ok), s, msg.info.state)

Handle(m, msg, ok) ==
    CASE msg.type = "services" ->
            Updated(m, msg.infos, SetToSeq({s \in Services : msg.infos[s].state # "none"}), ok)
      [] msg.type = "added"   -> ServiceUpdate(m, msg.service, msg.info, ok)
      [] msg.type = "removed" -> ServiceFree(m, msg.service)
      [] msg.type = "proxy"   -> ServiceUse(m, msg.service, ok)
      [] msg.type \in {"reply", "properties"} -> PropertiesChanged(m, msg, ok)

\* Answers to the calls of a CMService that was freed are not delivered.
Cancelled(q, s) ==
    LET after[n \in 0 .. Len(q)] ==
            IF n = 0 THEN <<>>
            ELSE IF q[n].type \in {"proxy", "reply"} /\ q[n].service = s THEN after[n - 1]
            ELSE Append(after[n - 1], q[n])
    IN  after[Len(q)]

Dispatch ==
    /\ ~disposed /\ queue # <<>>
    /\ \E ok \in BOOLEAN : Know(Handle(Known, Head(queue), ok))
    /\ \A s \in Services : told'[s] <= MaxContexts
    /\ queue' = IF Head(queue).type = "removed"
                THEN Cancelled(Tail(queue), Head(queue).service) ELSE Tail(queue)
    /\ UNCHANGED <<os, disposed>>

\* service_context_create_timeout(), with its check that the service is active
CreateTimeout(s) ==
    /\ ~disposed /\ manager.services[s] # Absent /\ manager.services[s].timeout
    /\ LET fired == [Known EXCEPT !.services[s].timeout = FALSE] IN
       \E ok \in BOOLEAN :
          Know(IF manager.services[s].current = "active"
               THEN ContextCreateOrInactive(fired, s, ok) ELSE fired)
    /\ told'[s] <= MaxContexts
    /\ UNCHANGED <<os, queue, disposed>>

\* loopback_context_create()
Loopback ==
    /\ ~disposed /\ manager.idle
    /\ manager' = [manager EXCEPT !.idle = FALSE]
    /\ \E n \in 0 .. 1 : told' = [told EXCEPT !["lo"] = n]
    /\ UNCHANGED <<os, queue, disposed>>

\* gupnp_connman_manager_dispose()
Dispose ==
    /\ ~disposed
    /\ disposed' = TRUE
    /\ queue' = <<>>
    /\ Know(Freed([Known EXCEPT !.calls = {}], SetToSeq(Services)))
    /\ UNCHANGED os

-----------------------------------------------------------------------------
(* ConnMan and the bus.                                                    *)

Send(msg) ==
    /\ ~disposed
    /\ Len(queue) < MaxQueue
    /\ queue' = Append(queue, msg)
    /\ UNCHANGED <<told, disposed>>

Answer(call) ==
    /\ Send(CASE call.call = "GetServices"   -> [type |-> "services", infos |-> os]
              [] call.call = "proxy"         -> [type |-> "proxy", service |-> call.service]
              [] call.call = "GetProperties" -> [type |-> "reply", service |-> call.service,
                                                 info |-> os[call.service]])
    /\ call.call = "GetProperties" => os[call.service].state # "none"
    /\ manager' = [manager EXCEPT !.calls = @ \ {call}]
    /\ UNCHANGED os

\* A service comes, goes, or changes; ConnMan reports the change of a service
\* with ServicesChanged or with PropertyChanged.
ServiceChange(s, state, iface) ==
    /\ os[s] # [state |-> state, iface |-> iface]
    /\ os[s].state = "none" \/ state = "none" => iface = os[s].iface
    /\ os' = [os EXCEPT ![s] = [state |-> state, iface |-> iface]]
    /\ \E type \in IF state = "none" THEN {"removed"}
                   ELSE IF os[s].state = "none" THEN {"added"} ELSE {"added", "properties"} :
          Send([type |-> type, service |-> s, info |-> os'[s]])
    /\ UNCHANGED manager

Next ==
    \/ Dispatch \/ Loopback \/ Dispose
    \/ \E s \in Services : CreateTimeout(s)
    \/ \E call \in manager.calls : Answer(call)
    \/ \E s \in Services, state \in States \cup {"none"}, iface \in Interfaces :
          ServiceChange(s, state, iface)

Spec == Init /\ [][Next]_vars

-----------------------------------------------------------------------------
(* Correctness.                                                            *)

\* Only an active service holds a context, and no context is withdrawn that was
\* not announced.
HeldOnlyWhenActive ==
    \A s \in Services :
        /\ manager.services[s] # Absent /\ manager.services[s].context
              => manager.services[s].current = "active" /\ told[s] >= 1
        /\ told[s] >= 0

\* The check in service_context_create_timeout() (line 208) never fails: a
\* creation is scheduled only for a service that is active.
TimeoutOnlyWhenActive ==
    \A s \in Services :
        manager.services[s] # Absent /\ manager.services[s].timeout
            => manager.services[s].current = "active"
=============================================================================
