--------------------------- MODULE NetworkManager ---------------------------
(***************************************************************************)
(* src/libgupnp/gupnp-network-manager.c: contexts from the devices that    *)
(* NetworkManager reports over D-Bus.                                      *)
(*                                                                         *)
(* os is the state of each device in the service, queue what the bus has   *)
(* for the client (signals and answers, in the order they were sent),      *)
(* manager has the NMDevices and the calls without an answer.  A device    *)
(* has one context for each of Families, counted together; told counts     *)
(* context-available less context-unavailable.                             *)
(***************************************************************************)
EXTENDS Integers, Sequences, FiniteSets, Lists

CONSTANTS
    Devices,
    Wifi,        \* those of NM_DEVICE_TYPE_WIFI
    Families,    \* address families of the context manager
    MaxQueue,    \* bound: messages on the bus
    MaxCalls,    \* bound: calls without an answer
    MaxNMDevices \* bound: NMDevices ever created

VARIABLES os, queue, manager, told, disposed

vars == <<os, queue, manager, told, disposed>>

DeviceStates == {"none", "disconnected", "activated"}

\* Calls for which a reply is due: "GetDevices", and the creation of proxies
\* for a device, for the wireless part of an NMDevice and for its access point
Calls ==
    [call : {"GetDevices"}]
    \cup [call : {"device"}, device : Devices]
    \cup [call : {"wifi", "ap"}, node : Nat]

\* An NMDevice: listed in nm_devices, with its handler connected, the cached
\* State, its calls and contexts.
NMDevice ==
    [device : Devices, listed : BOOLEAN, connected : BOOLEAN, state : DeviceStates,
     ap_calls : Nat, contexts : Nat]

TypeOK ==
    /\ os \in [Devices -> DeviceStates]
    /\ manager.nodes \in Seq(NMDevice)
    /\ \A i \in DOMAIN manager.calls : manager.calls[i] \in Calls
    /\ told \in [Devices -> Int]
    /\ disposed \in BOOLEAN

Init ==
    /\ os \in [Devices -> DeviceStates]
    /\ queue = <<>>
    /\ manager = [nodes |-> <<>>, calls |-> <<[call |-> "GetDevices"]>>]
    /\ told = [d \in Devices |-> 0]
    /\ disposed = FALSE

-----------------------------------------------------------------------------
(* Helpers: each maps the manager m, which carries told, to the next.      *)

Tell(m, d, n) == [m EXCEPT !.told[d] = @ + n]

\* create_context_for_device(), where one context may fail to be created
CreateContext(m, i, n) ==
    Tell([m EXCEPT !.nodes[i].contexts = @ + n], m.nodes[i].device, n)

\* ... of the loops in on_device_signal() and nm_device_unref()
DestroyContexts(m, i) ==
    Tell([m EXCEPT !.nodes[i].contexts = 0], m.nodes[i].device, -m.nodes[i].contexts)

\* nm_device_unref() when the list, and then the call, let go of an NMDevice
Unref(m, i) ==
    IF m.nodes[i].listed \/ m.nodes[i].ap_calls > 0 THEN m
    ELSE DestroyContexts([m EXCEPT !.nodes[i].connected = FALSE], i)

\* on_device_activated()
Activated(m, i, n) ==
    IF m.nodes[i].device \in Wifi
    THEN [m EXCEPT !.nodes[i].ap_calls = @ + 1,
                   !.calls = Append(@, [call |-> "ap", node |-> i])]
    ELSE CreateContext(m, i, n)

\* use_new_device()
UseNewDevice(m, i, n) ==
    LET listed == [m EXCEPT !.nodes[i].listed = TRUE, !.nodes[i].connected = TRUE] IN
    IF m.nodes[i].state = "activated" THEN Activated(listed, i, n) ELSE listed

-----------------------------------------------------------------------------
(* Handlers of replies and signals.  n is how many contexts are created.   *)

DeviceProxy(m, d) == [m EXCEPT !.calls = Append(@, [call |-> "device", device |-> d])]

\* get_devices_cb()
GetDevicesDone(m, msg) ==
    LET found == SetToSeq(msg.devices)
        after[n \in 0 .. Len(found)] ==
            IF n = 0 THEN m ELSE DeviceProxy(after[n - 1], found[n])
    IN  after[Len(found)]

\* device_proxy_new_cb(): a proxy for a device that is gone has no properties.
DeviceProxyNew(m, msg, n) ==
    LET i == Len(m.nodes) + 1
        known == [m EXCEPT !.nodes = Append(@,
                    [device |-> msg.device, listed |-> FALSE, connected |-> FALSE,
                     state |-> msg.state, ap_calls |-> 0, contexts |-> 0])]
    IN
    IF msg.state = "none" THEN m
    ELSE IF msg.device \in Wifi
    THEN [known EXCEPT !.calls = Append(@, [call |-> "wifi", node |-> i])]
    ELSE UseNewDevice(known, i, n)

\* ap_proxy_new_cb()
ApProxyNew(m, msg, n) ==
    Unref(CreateContext([m EXCEPT !.nodes[msg.node].ap_calls = @ - 1], msg.node, n), msg.node)

\* on_device_signal() of one NMDevice, whose proxy has cached the state before
DeviceSignal(m, i, state, n) ==
    LET cached == [m EXCEPT !.nodes[i].state = state] IN
    IF ~m.nodes[i].connected THEN cached
    ELSE IF state = "activated" THEN Activated(cached, i, n)
    ELSE DestroyContexts(cached, i)

StateChanged(m, msg, n) ==
    LET after[i \in 0 .. Len(m.nodes)] ==
            IF i = 0 THEN m
            ELSE IF m.nodes[i].device # msg.device THEN after[i - 1]
            ELSE DeviceSignal(after[i - 1], i, msg.state, n)
    IN  after[Len(m.nodes)]

\* nm_device_unref() for one of the list, and for the whole list when the manager goes
Unlisted(m, i) == Unref([m EXCEPT !.nodes[i].listed = FALSE], i)
Freed(m) ==
    LET after[i \in 0 .. Len(m.nodes)] ==
            IF i = 0 THEN m ELSE Unlisted(after[i - 1], i)
    IN  after[Len(m.nodes)]

\* on_manager_signal() for DeviceRemoved: the first of the list that has the path
DeviceRemoved(m, msg) ==
    LET found == {i \in DOMAIN m.nodes : m.nodes[i].listed /\ m.nodes[i].device = msg.device} IN
    IF found = {} THEN m
    ELSE Unlisted(m, CHOOSE i \in found : \A j \in found : i <= j)

Handle(m, msg, n) ==
    CASE msg.type = "GetDevices"    -> GetDevicesDone(m, msg)
      [] msg.type = "device"        -> DeviceProxyNew(m, msg, n)
      [] msg.type = "wifi"          -> UseNewDevice(m, msg.node, n)
      [] msg.type = "ap"            -> ApProxyNew(m, msg, n)
      [] msg.type = "StateChanged"  -> StateChanged(m, msg, n)
      [] msg.type = "DeviceAdded"   -> DeviceProxy(m, msg.device)
      [] msg.type = "DeviceRemoved" -> DeviceRemoved(m, msg)

-----------------------------------------------------------------------------
(* Steps.                                                                  *)

Known == [nodes |-> manager.nodes, calls |-> manager.calls, told |-> told]

Know(m) ==
    /\ manager' = [nodes |-> m.nodes, calls |-> m.calls]
    /\ told' = m.told

\* The client reads what comes next on the bus.
Dispatch ==
    /\ ~disposed /\ queue # <<>>
    /\ \E n \in 0 .. Cardinality(Families) : Know(Handle(Known, Head(queue), n))
    /\ Len(manager'.nodes) <= MaxNMDevices
    /\ Len(manager'.calls) <= MaxCalls
    /\ queue' = Tail(queue)
    /\ UNCHANGED <<os, disposed>>

\* A call that cannot be answered: wifi_proxy_new_cb() and ap_proxy_new_cb()
\* let go of the device.
CallFails(k) ==
    LET call == manager.calls[k]
        m == [Known EXCEPT !.calls = RemoveAt(@, k)]
    IN
    /\ ~disposed
    /\ Know(IF call.call = "ap"
            THEN Unref([m EXCEPT !.nodes[call.node].ap_calls = @ - 1], call.node) ELSE m)
    /\ UNCHANGED <<os, queue, disposed>>

\* gupnp_network_manager_dispose(): NMDevices that a call holds lose the manager
\* when the cancelled call returns, so their contexts go in silence.
Dispose ==
    /\ ~disposed
    /\ disposed' = TRUE
    /\ queue' = <<>>
    /\ Know(Freed([Known EXCEPT !.calls = <<>>]))
    /\ UNCHANGED os

Send(msg) ==
    /\ ~disposed
    /\ Len(queue) < MaxQueue
    /\ queue' = Append(queue, msg)
    /\ UNCHANGED <<told, disposed>>

\* The service answers a call with what is so now.
Answer(k) ==
    LET call == manager.calls[k] IN
    /\ Send(CASE call.call = "GetDevices" ->
                   [type |-> "GetDevices", devices |-> {d \in Devices : os[d] # "none"}]
              [] call.call = "device" ->
                   [type |-> "device", device |-> call.device, state |-> os[call.device]]
              [] OTHER -> [type |-> call.call, node |-> call.node])
    /\ manager' = [manager EXCEPT !.calls = RemoveAt(@, k)]
    /\ UNCHANGED os

\* A device is plugged in, changes its state, or is removed.
DeviceChange(d, state) ==
    /\ <<os[d], state>> \in {<<"none", "disconnected">>, <<"disconnected", "activated">>,
                             <<"activated", "disconnected">>, <<"disconnected", "none">>}
    /\ os' = [os EXCEPT ![d] = state]
    /\ Send(IF os[d] = "none" THEN [type |-> "DeviceAdded", device |-> d]
            ELSE IF state = "none" THEN [type |-> "DeviceRemoved", device |-> d]
            ELSE [type |-> "StateChanged", device |-> d, state |-> state])
    /\ UNCHANGED manager

Next ==
    \/ Dispatch \/ Dispose
    \/ \E k \in DOMAIN manager.calls : Answer(k) \/ CallFails(k)
    \/ \E d \in Devices, state \in DeviceStates : DeviceChange(d, state)

Spec == Init /\ [][Next]_vars

-----------------------------------------------------------------------------
(* Correctness.                                                            *)

\* The application has been told of exactly the contexts the NMDevices hold,
\* whatever was removed, answered late or found twice.
Held(nodes, d) ==
    LET sum[i \in 0 .. Len(nodes)] ==
            IF i = 0 THEN 0
            ELSE IF nodes[i].device = d THEN sum[i - 1] + nodes[i].contexts ELSE sum[i - 1]
    IN  sum[Len(nodes)]
ToldIsHeld == ~disposed => \A d \in Devices : told[d] = Held(manager.nodes, d)

\* When all messages are read, a wired device has contexts only if it is activated,
\* even if it was found twice or other calls are open.  It may have none, if they
\* could not be created.
WiredFollowsState ==
    queue = <<>> => \A d \in Devices \ Wifi : told[d] # 0 => os[d] = "activated"

\* "For all other states we just destroy the context" (line 379): a device that
\* is not activated has no context.
NotActivatedHasNone ==
    queue = <<>> /\ manager.calls = <<>> =>
        \A d \in Devices : told[d] # 0 => os[d] = "activated"
=============================================================================
