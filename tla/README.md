# GUPnP: models, checks and proofs

This directory holds TLA+ models of libgupnp, the TLC configurations that
check them on small instances, and TLAPS proofs about them. It is kept beside
the code under `src/libgupnp/` and read with it: every definition that stands
for code is listed, with its file and lines, under `map` in `PROJECT.json`.

libgupnp is single-threaded. What makes it hard is that nearly everything it
does ends in a callback of the GLib main loop: a request is sent now and
answered in some later iteration, timers fire in between, and the application
is called from the middle of handlers and may call back in. The models keep
exactly that: one action is one uninterrupted piece of code between two returns
to the main loop (or between two calls of the application), and everything
that may happen before the next piece may happen in the model.

## 1. The system

| Component | Source | State | Operations | Talks to |
|---|---|---|---|---|
| Service, eventing | `gupnp-service.c` | table of subscriptions (`SubscriptionData`: callbacks, SID, key, timer, messages in flight, `initial_state_sent`, `to_delete`, cancellable), queue of changed variables, frozen flag, state variable list | SUBSCRIBE, renewal, UNSUBSCRIBE, expiry, notify, freeze, thaw, answers to NOTIFY, introspection result, root device gone, disposal | proxies over HTTP (GENA), root device, service info |
| Service, control | `gupnp-service.c`, `gupnp-service-action.c` | paused message and response of each action | control handler, `return_success`, `return_error`, `query-variable`, autoconnect | proxies over HTTP (SOAP), context |
| Service proxy, eventing | `gupnp-service-proxy.c` | `subscribed`, SID, renewal timer, next key, queue of events, idle source, requests in flight, notify callbacks | (un)subscribe, NOTIFY handler, emission, renewal, answers, disposal | services (GENA), application callbacks |
| Action calls | `gupnp-service-proxy.c`, `gupnp-service-proxy-action.c` | action, message, `pending`, error, response | call, M-POST retry, cancellation, iterating the answer | services (SOAP) |
| Control point | `gupnp-control-point.c` | devices and services reported, document cache, pending downloads with their retry timers | resource available / unavailable, description loaded, retry, disposal | GSSDP, resource factory, proxies |
| Context manager | `gupnp-context-manager.c`, `gupnp-context-filter.c` | contexts and the objects managed on each, filtered contexts, the filter, boot id | context up / down, filter changed / enabled, manage control point / root device | platform managers, control points, root devices |
| Platform managers | `gupnp-linux-`, `gupnp-network-manager.c`, `gupnp-connman-`, unix, simple, windows | interfaces or devices, their contexts | netlink messages, D-Bus signals | context manager |
| Context | `gupnp-context.c`, `gupnp-acl.c` | HTTP server, session, hosted paths, ACL | host / unhost, request handlers, asynchronous ACL decisions, Host header check | everything that serves or sends HTTP |
| Device and service information | `gupnp-device-info.c`, `gupnp-service-info.c` | description document, cached introspection, download in flight | introspect, getters | service, proxies |
| Root device | `gupnp-root-device.c` | availability, resource group | set available, fill the group | GSSDP, services (`notify::available`) |
| Resource factory | `gupnp-resource-factory.c` | two tables of types | register, create proxies | control point |
| Introspection parser, HTTP header helpers, XML and GValue helpers | `gupnp-service-introspection.c`, `http-headers.c`, `xml-util.c`, `gvalue-util.c` | none that lives on | conversions | all |

What interacts, and what that exposes:

* **Service and its SoupSession.** A subscription may be freed while its
  messages are in flight; every one of them comes back later with a pointer to
  it. Failures make the service send an old property set again, with a new key.
* **Service and introspection.** SUBSCRIBE may come before the introspection;
  the initial event is then empty and sent again later.
* **Service and application.** Values change while notifications are frozen,
  while messages are in flight, while subscriptions are marked for deletion.
* **Proxy and its SoupSession.** (Un)subscribing while requests are in flight
  leaves several of them, whose answers come in any order.
* **Proxy and application.** The application is called from the middle of
  `emit_notifications()` and may unsubscribe there.
* **Service and proxy.** NOTIFYs and answers to SUBSCRIBE travel on different
  connections; either side forgets the other on its own clock.
* **Control point and GSSDP.** Announcements and byebyes of many resources
  share one pending download, with retries on a timer.
* **Context manager and platform managers.** Contexts come and go while the
  filter changes and while objects are being managed on them.

What makes each correct, in one line: no callback and no timer works on freed
data (service, control point, context manager); every subscriber learns the
last value or the application is told (service); the proxy's SID, timer,
handler and `subscribed` agree (proxy); events are emitted once, in order, and
missing ones are noticed (both); nothing is reported that has gone, and
everything is once (control point, context manager).

## 2. Modules

| Module | Models | Code |
|---|---|---|
| `EventedValue` | what eventing promises of one state variable | abstract |
| `Service` | the publisher | `gupnp-service.c` |
| `ServiceProxy` | the subscriber | `gupnp-service-proxy.c` |
| `Gena` | one `Service`, one `ServiceProxy`, HTTP between them | both |
| `NotifyCallbacks` | the lists of notify callbacks and their emission | `gupnp-service-proxy.c` |
| `ActionCalls` | calls of actions, from the proxy to the service's answer and back | `gupnp-service-proxy.c`, `-proxy-action.c`, `gupnp-context.c`, `gupnp-service.c`, `-service-action.c` |
| `ControlPoint` | announcements, downloads, proxies, document cache | `gupnp-control-point.c` |
| `ContextManager` | contexts, filter, managed objects, boot ids | `gupnp-context-manager.c`, `-context-filter.c` |
| `LinuxContextManager`, `NetworkManager`, `ConnmanManager`, `SimpleContextManager` | the four ways to find contexts | the files of these names |
| `Platforms` | one of the four, chosen at start | `gupnp_context_manager_create_full()` |
| `WebServer` | hosted paths, root devices, languages, agents, ranges | `gupnp-context.c`, `gupnp-root-device.c`, `http-headers.c` |
| `HostAddresses` | masks, rewriting of URIs, the Host header | `gupnp-linux-context-manager.c`, `gupnp-context.c` |
| `Descriptions` | devices, services and icons of a description; announcing and finding them; classes | `gupnp-device-info.c`, `-device.c`, `-device-proxy.c`, `-root-device.c`, `-control-point.c`, `-resource-factory.c` |
| `ServiceDescription` | introspection, values, autoconnect | `gupnp-service-introspection.c`, `gvalue-util.c`, `gupnp-types.c`, `gupnp-service.c` |
| `IntrospectionCache` | overlapping introspections of one service | `gupnp-service-info.c` |
| `Parts` | all of the above that share no state, side by side | |
| `ServiceProofs`, `ServiceProxyProofs`, `GenaProofs`, `ActionCallsProofs`, `ControlPointProofs` | theorems about the module of that name | |
| `NetworkManagerProofs` | induction, repeated steps and facts about lists; the inductive invariant of `NetworkManager` | |
| `PlatformsProofs` | theorems about the four platforms | |
| `PartsProofs` | theorems about the other parts, and the types of all | |
| `Lists` | the operators on lists that the parts use | |
| `MC...` | instances for TLC | |

`Service` and `ServiceProxy` are instantiated by `Gena`; `Service` and `Gena`
each implement `EventedValue` through a refinement mapping. `Platforms`
instantiates the four managers over the same variables, and `Parts` instantiates
`NotifyCallbacks`, `IntrospectionCache`, `WebServer`, `Descriptions`,
`ServiceDescription`, `HostAddresses`, `ContextManager` and `Platforms`: a behaviour of
`Parts` is one of one of them. They are together in one run, not because they
interact, but because each is small; every formula it checks is a conjunction of
named formulas of the parts' modules.

`Lists` has the operators of the community modules that the parts need, under their
names, because an INSTANCE carries every definition it reaches into each proof
about it, and because the proofs need recursion in the form of functions.

### Service

`subscriptions` and `data` are `priv->subscriptions`; a SID is never used
twice, as `generate_sid()` makes a UUID. `timeout_src` gives the ticks left on
the timer source whose user data is the `SubscriptionData`, `cancelled` the
SIDs whose `GCancellable` was cancelled by `subscription_data_free()`.
`wire` holds the NOTIFY messages between `soup_session_send_and_read_async()`
and `notify_got_response()`, with the outcome once there is one.

One state variable is followed and its value is the number of its changes, so
"older" and "newer" can be said. The callback list is its length and the
position of `data->callbacks` in it. `NotifySubscribers` is `notify_subscriber()`
for a set of subscribers in one step; the order within the set cannot be
observed. What a SUBSCRIBE header must look like is left out: the requests that
pass the checks are the ones modelled, the others change nothing.

`view` belongs to the environment: the last value each subscriber was sent.
`sent`, `renewals` and `failed` are histories.

`Answer` is the environment: the outcome of an exchange and whether the
subscriber had the message. A lost answer is `"failure"` with delivery. The
session keeps one connection to a host (`gupnp_service_get_session()`), so a
message is sent when those before it *to the same URL* are done with;
different callback URLs are different hosts. The answers to one subscriber are
handed back in the order the messages were sent.

### ServiceProxy

The variables have the names of the fields. `emission` says where
`emit_notifications()` is: not running (`idle`), between two events (`loop`), or
in the application's callback, where the application may (un)subscribe and
where nothing else of the proxy can run. `requests` are the SUBSCRIBE, renewal
(`RENEW`) and UNSUBSCRIBE messages in flight, with their answer once it has
arrived. On its own, `ServiceProxy` meets any service: any answer, any event.
`RenewalTimes` is the computation in `subscribe_got_response()`, integer
division and jitter included.

### Gena

The two modules share requests and NOTIFYs and nothing else. The service serves a
request and the answer arrives in one step; the proxy handles it in a later
one. `Happens` names what may go wrong, so that each run says under which
faults its property holds.

### NotifyCallbacks

`callbacks` are the lists of `NotifyData`, one for each variable and one for
`"*"` (raw); `next_emit` is the field of that name; `emission` is the callback that
runs, and whether its `NotifyData` (`live`) and its list node (`here`) are still
there. The application adds and removes callbacks at any time. The emission over
the variables reads `next_emit` after the callback, the raw one reads `l->next`:
where the code would read freed memory, `undefined` is set.

### ActionCalls

A message is in a slot and goes from `network` to `acl` (an asynchronous ACL has
been asked), to `application` (a paused request with a `GUPnPServiceAction`), to
`answered`. `stage`, `sync` and `told` belong to the call: while a synchronous
one waits the main loop stands still (`Running`). The peer is this service or
another device, which answers in any way; a stranger may send any request of
`MCStrangers`. `executed` is a history. `AclAnswers` leaves open what becomes of
a request that is let through to a handler that was freed.

### ControlPoint

A USN (`KeyOf`) stands for a device or for a service: what `udn` and `service_type`
are in the code. `pending_gets` are the `GetDescriptionURLData`, either `sent` or
`waiting` for their timer, with the tries that are left; `made` orders them as the
list does, newest first. `doc_cache` holds the document of a location through a
weak reference, so it lives as long as a proxy in `proxies` (reported) or `held`
(reported once, kept by the application). Which devices and services a
description has is a constant here (`Provides`) and computed in `Descriptions`
(`ProcessDeviceList`). A USN may be announced at a location whose description does not
have it; `misplaced` is the history of that.

### ContextManager and the platforms

`told` is what the application sees: `context-available` less
`context-unavailable`. `filtered` is the list of that name and `referenced` are the
members it holds a reference to. The boot id is counted from the start. `active` is
the property of that name, which a new context has, and `withdrawn` are the contexts the
platform has withdrawn and still has: Linux announces those of a link that goes down
and up again, the same objects; otherwise they are dropped (`Dropped`), and what comes
in their place is new. A context is made inactive when it goes or is blocked, and
active only when the filter lets it through again, so one that is announced again stays
inactive (`ToldIsActive`, section 5).

In the platform modules `os` is what the kernel, NetworkManager or ConnMan has,
`queue` what it has sent (netlink messages; D-Bus signals and replies, in order),
`manager` what the manager keeps, `told` as above for each address, device, service or
interface. Linux asks for links and for addresses one after the other with dumps,
while changes go on (`QueryLinks`, `QueryAddresses`, `Messages`). With D-Bus each
proxy that is created is an open call whose answer comes later (`Answer`), or fails
(`CallFails`).

### WebServer, HostAddresses

`datas` are the `HostPathData`, `host_path_datas` the list and `handlers` what
libsoup has; a handler is found by the longest path. A request asks for one
path with an agent, accepted languages and a range, `Files` is what is on the
disk, with the outcome of `stat()` and `mmap()`. A root device hosts its
description and its folder (`NewRootDevice`). `HostAddresses` has bytes for
addresses: `LastByte` is the line with `bits_a` of `generate_mask()`.

### Descriptions, ServiceDescription, IntrospectionCache

Elements of XML are records, and types sequences of what is between their
colons. Versions are numbers through `Number`, which is `atoi()`; `Begins` says of two
segments that one begins with the other, for the prefixes `resource_type_match()` compares
where a version is empty. A task of `IntrospectionCache` knows in `scpd` the document it
was answered with: a description, other XML, or no XML. Integers have
`Width` bits where the code has `int`, and `LongWidth` where it has `long`;
the conversions in `gvalue-util.c` cut off as C does. `Room` and `Written` of
`ServiceDescription` are the bytes that `strip_camel_case()` allocates and writes.

## 3. What the runs check

| Run | Instance | Checked |
|---|---|---|
| `service` | two SIDs, one callback URL each, one change | messages and timers match the table, `NothingLostSilently`, refinement of `EventedValue` |
| `service_callbacks` | one SID, two URLs, key wraps at 2, one renewal, fairness | type, consecutive keys, silence after UNSUBSCRIBE, every subscription ends, the session drains |
| `proxy_safety` | two SIDs, 3 requests, key wraps at 2 | type, SID and timer, handler, reason to delay, events scheduled |
| `gena_events` | two SIDs, three changes, NOTIFYs lost, service frozen | refinement of `EventedValue`, the value shown or its loss reported |
| `gena_requests` | two SIDs, requests and answers lost, (un)subscribing, disposal | each emission is of a later event of its subscription than those before |
| `gena_outage` | clock, root device gone, freezing, fairness | renewal in time, orphans notice, the proxy catches up |
| `control_point` | a device with two USNs and a service, two locations, two downloads at a time, three tries, fairness | one proxy for each and one document for each location; what stays announced is reported or given up; downloads end; a byebye is final unless a retry is waiting |
| `actions` | two action objects, two calls, two messages, three kinds of ACL, fairness | the caller is told what happened; nothing is carried out twice; nothing reaches the application without leave; calls end |
| `parts` | see below | ten invariants and an action property |
| `proxy_dispose` | two SIDs, 3 requests | violated: nothing after dispose |
| `notify_remove` | one variable, two callbacks | violated: callbacks may remove callbacks |
| `reannounced` | one context, one filter entry | violated: a context the application is told of is active |

`Service_single.cfg` checks the formulas of `service` with one SID and three changes.

The parts of `parts`, with the formula of `Parts` and its conjuncts:

| Part | Instance | Formula |
|---|---|---|
| notify callbacks | one variable and `"*"`, three callbacks of two types | `NotifyReaches`: `NextEmitIsListed`, `AllAreCalled`, `OnlyListedAreCalled` |
| introspection cache | three overlapping tasks, a description that changes | `StaysIntrospected`, unless a task was answered with XML that is no description |
| HTTP server | three hosted paths, two root devices, two rules for agents, sixteen requests | `FilesServed`: `HandlerIsListed`, `DescriptionServed`, `AgentsGetTheirFiles`; `VariantIsFound` |
| descriptions | three documents, one a tree of depth three; USNs of its own and of older versions | `ResourcesFound`: `GetAgreesWithList`, `MostSpecificClass`, `IconSuits`; `AnnouncementsFound`: `AnnouncedIsFound`, `ReachedIsAnnounced` |
| service description | four documents, 4 and 6 bits, numbers up to 40, names up to four characters | `HandlersConnected`: `ConnectedInOrder`, `LookupAgrees`, `StripFits`; `IntrospectionHolds`: `RoundTrip`, `LimitsAsDescribed` |
| addresses | three bytes of three values, every prefix; five kinds of host | `AddressesUsable`: `MaskIsNetwork`, `RewrittenIsUsable`, `HostIsOurs` |
| contexts | three contexts, two filter entries, two root devices, boot ids up to 2 | `ToldMatches`, `FilteredIsSilent` |
| platforms | two links and addresses; a wired and a wireless device, for two families; a service with two interfaces; two interfaces | `FollowsTheSystem`: `FollowsTheKernel` (`AnnouncedOnce` too) and `ToldIsHeld` (`ToldIsHeld` and `WiredFollowsState`, `HeldOnlyWhenActive`, `WithdrawnAtTheEnd`) |

`TypeOK` of `Parts` is the `TypeOK` of the part. `AnswersHold` is the conjunction of
`VariantIsFound`, `AnnouncementsFound` and `IntrospectionHolds`; a faulty version of a
definition is tried for each of the three, and for both conjuncts of `FollowsTheSystem`.

**Bounds.** `MaxValue`, `MaxRenewals`, `MaxRequests` and `MaxPending` bound what is
unbounded in eventing. One change after the initial event is enough for an old
value to meet a newer one, and three for a change while two are in flight; two callback URLs give every
position of the list (the last one, and one that is not); `G_MAXINT32` and
`G_MAXUINT32` are 2 where the wrap matters, so that it happens twice, and out of
reach where it does not. Two SIDs let one subscription survive another; a SID is
used once, so the number of SIDs also bounds how often a subscriber can subscribe.
The proofs do without the bounds on SIDs, callbacks, keys and values.

`MaxGets` = 2 lets two downloads of one description cross, or a retry and a new
announcement; three tries give a first, a middle and a last one (the code has four). `MaxCalls` = 2 of `actions` has an action object used again, or two in
flight. `MaxHosts` = 3 gives a root device's two paths and one more, or the same
path three times. `MaxRules` = 2 lets a later rule hide an earlier one. In
`Platforms`, `MaxNetlink`, `MaxQueue`, `MaxCalls`, `MaxNMDevices` and `MaxContexts`
limit what is under way at a time: three netlink messages are a link, its address
and a change of one of them; two open D-Bus calls are one of each of two
devices, or an old and a new one of the same. `MaxBootId` = 2 is one change of
all boot ids and a second one. Two contexts of one interface, one of which has an
entry for its address, and one of another tell a filter entry for an interface from
one for an address.

**Fairness.** For the service: the clock and the main loop, that is expiry and
the callbacks of messages that have an outcome (`notify_got_response()` is
dispatched when it is ready). Nothing is assumed of the network, because the
session has no timeout: `SubscriptionsEnd` and `WireDrains` hold
although answers may never come. In `Gena` the runs with fairness also assume
that requests and NOTIFYs that are not lost arrive, and that the application
subscribes whenever the proxy is not subscribed, as it has to after
`subscription-lost`. `Tick` waits while requests are under way: a network that is slow
compared with the subscription timeout makes renewals late, and then
`RenewsInTime` cannot be expected. `ControlPoint` assumes that the main loop
dispatches what is ready and timers, and that a download is answered or fails, and `ActionCalls`
that the peer answers, the ACL decides and the application returns its
actions: the session of the context has no timeout either, so that a call to a
peer that is silent waits until it is cancelled.

**Deadlock** is not checked: a run may stop when its bounds are used up, and a disposed
service or proxy has nothing left to do.

Each property is tried against a faulty version of one definition (the mutants
in `PROJECT.json`; the definitions marked "faulty" in the modules): a
dropped cancellation, a timer left behind, a key that wraps to 0 or overflows,
a thaw that does not flush, several connections to one host, a document kept
from the last call, a retry for every fault, a proxy looked for in the wrong
list, objects of a blocked context kept, a handler that outlives its path, versions
compared the wrong way round, and so on.

## 4. What is proved

Each theorem holds for every value of the constants that satisfies the ASSUME of
its module, so for any number of subscriptions, callbacks, downloads, messages, contexts,
links, D-Bus devices and hosted paths, and for any descriptions. The assumptions are of four
kinds: the numbers are numbers, and at least
1 where the code needs it (`ServiceAssumption`, `ServiceProxyAssumption`,
`GenaAssumption`); a name that stands for "none" is not a name in use
(`NoSid \notin SIDs`, `"none" \notin Callbacks`); links, addresses, interfaces, devices and
services are finitely many (`PartsAssumption`); descriptions, requests, paths, types and names are
made of what they are made of in the code: lists of elements with these fields, of segments,
of characters (`WebAssumption`, `ServiceAssumption` and `DescriptionAssumption` of
`Parts`). Two of them say more than a type: an application does not host the path of a
root device's description, and `atoi()` of an empty segment is 0. The bounds `Max...` stay in the
guards, where any natural number will do. What a theorem needs beyond that is in its statement.

| Theorem | Module | Property | Needs |
|---|---|---|---|
| `TypeCorrect` | `ServiceProofs` | `TypeOK` | |
| `CallbacksFindTheirData` | `ServiceProofs` | `PendingIsWire` | |
| `TimersFindTheirData` | `ServiceProofs` | `TimersMatchTable` | |
| `KeysCountMessages` | `ServiceProofs` | `KeysAreConsecutive` | |
| `GoneIsSilent` | `ServiceProofs` | `SilentAfterUnsubscribe` | |
| `OneCallbackKeepsPromise` | `ServiceProofs` | `KeepsPromise` (refinement) | one callback URL |
| `OneCallbackLosesNothing` | `ServiceProofs` | `NothingLostSilently` | one callback URL |
| `TypeCorrect` | `ServiceProxyProofs` | `TypeOK` | |
| `RenewalHasSid`, `SubscribedIsReachable`, `DelayHasReason`, `QueueIsLookedAt` | `ServiceProxyProofs` | `ExpiryHasSid`, `SubscribedListens`, `DelayedForAnAnswer`, `PendingIsScheduled` | |
| `RenewalBeforeTheEnd` | `ServiceProxyProofs` | of `RenewalTimes` | a period of two seconds |
| `RenewalIsInTime` | `GenaProofs` | `RenewsInTime` | requests and answers are not lost; a timeout of two seconds |
| `EventsStayInOrder` | `GenaProofs` | `EventsInOrder` | keys do not wrap |
| `ProxyKeepsPromise` | `GenaProofs` | `KeepsPromise` (refinement) | no clock, no unsubscribing; a timeout of two seconds |
| `QuietIsUpToDate` | `GenaProofs` | `ShownOrReported` | the same, and no NOTIFY before its SUBSCRIBE is answered |
| `TypeCorrect`, `RefusedStaysOut`, `NeverTwice`, `OutcomeIsTrue` | `ActionCallsProofs` | `TypeOK`, `OnlyAllowed`, `ExecutedOnce`, `OutcomeIsThePeers` | |
| `ProxiesAreOneOfEach`, `ByebyeCancels` | `ControlPointProofs` | `OneOfEach`, `FinalForFirstTries` | |
| `EventsReachTheirCallbacks` | `PartsProofs` | `NotifyReaches` | |
| `IntrospectedStaysSo` | `PartsProofs` | `StaysIntrospected` | no answer is XML without a service description |
| `ContextsAreTold`, `SilenceIsKept` | `PartsProofs` | `ToldMatches`, `FilteredIsSilent` | |
| `FilesAreServed` | `PartsProofs` | `FilesServed` | what an agent gets: a path hosted once |
| `AddressesAreUsable` | `PartsProofs` | `AddressesUsable` | |
| `HandlersAreConnected` | `PartsProofs` | `HandlersConnected` | |
| `ResourcesAreFound` | `PartsProofs` | `ResourcesFound` | types that are compared have five segments and a version |
| `PartsAreTyped` | `PartsProofs` | `TypeOK` | |
| `ContextsFollowTheKernel`, `ContextsAreHeld` | `PlatformsProofs` | `FollowsTheKernel`, `ToldIsHeld` (that all is withdrawn at the end: of Unix and Windows) | |
| `ContextsFollowTheSystem` | `PlatformsProofs` | `FollowsTheSystem`, which is both | |

### The arguments

**Service.** `IInv` is the type, `TimersMatchTable`, `OutsideTable` (a SID outside
the table is unused or cancelled, and its record is blank) and `Consistent`
(pending messages are the messages in flight, keys are counts, and *message
numbers are unique within a SID*). The last part is what makes it
inductive: without it, taking an answered message off `pending_messages` might
take off two. The keys need the arithmetic of the wrap (`NextSeqIsKey`, from
`ModOfNext`). The refinement rests on `InOrder`: bodies in flight to one subscriber
are ordered like their numbers, none is older than what the subscriber knows, and
what waits for a thaw is the present value. `NothingLostSilently` looks at a state
in which nothing is in flight; how such a state is reached is in `Informed`:
while anything is in flight the newest message is, only the oldest may have been
answered, and the newest carries the present value. With two URLs `KeepsPromise` is
false (`Service_order.cfg` shows how), hence "one callback URL".

**Service proxy.** `IInv` is the conjunction of the checked invariants and `Sane` (a
disposed proxy is not subscribed; an answer "ok" has a SID).

**The exchange.** A step of `Gena` is a step of each end or leaves it alone
(`StepOfTheEnds`), so what is proved of the ends is used in the whole, through
instances of their proof modules (`Ends`). Then:

* `RenewsInTime`: `Prompt` compares the two timers. While an answer waits for the
  proxy the clock stands still and the service's timer has all its time left;
  afterwards the proxy's timer is due first, by `RenewalBeforeTheEnd`. An answer that
  is lost leaves the proxy subscribed without a renewal timer, so this is
  for a network that loses no request and no answer.
* `EventsInOrder`: in `Ordered` the keys of one subscription rise from the one that was
  emitted last, through the queue of the proxy, to the messages that the service has not
  sent yet. That needs keys that count (`Few`: one message for the SUBSCRIBE and one for each
  change), which is where `MaxValue <= G_MAXINT32` comes in: a proxy cannot tell a
  wrapped key from an old one.
* `KeepsPromise`: the same with values (`NeverBack`), for the *current*
  subscription, the one the proxy has or is about to get. `OneAtATime` says that
  there is only one and that the queue is empty when it changes. With the clock (and lost
  NOTIFYs) or with unsubscribing the property is false, and TLC finds why: answers to two
  requests cross, and the later one brings back an older SID, whose events still arrive.
* `ShownOrReported`: `Books` relates the tables of both ends (the proxy's
  subscription is one the service made and nobody gave up), and `UpToDate` says
  that what it was told last is shown or in the queue. If the first NOTIFY may
  come before the answer it is dropped, and the property is false; it is also false
  when an old SID comes back.

**Action calls.** `IInv` adds to the checked invariants that a call has one message
at a time (M-POST takes the place of POST), that no message is of a later call, that a
call which waits knows nothing yet, and what each answer says about the execution
of its call (`AnswersTell`). From that a second message is sent only when the first
was answered without having been carried out.

**Control point.** `OneOfEach` is kept by what `Report` adds. `FinalForFirstTries`
needs `OpenGet`: among the downloads for a key that has one USN and was never retried,
only the first in the list is not cancelled, and its USN is known, so a
byebye finds the one that counts.

**Notify callbacks.** `OnTheWay` says how far an emission has come in a list that changes under
it: of what was there from the start and stayed, everything before the pointer has been
called and nothing from there on. Removal cuts the list (`Cut`), and the
facts about positions after a cut are lemmas at the head of `NetworkManagerProofs`.

**Introspection cache.** Whoever will be given an introspection finds one in the cache, as
long as no task was answered with XML that is no description. `IntrospectionInv` needs nothing of
what is at the URL but that a download has one.

**Context manager.** `ContextsInv` gives every variable as a function of the
contexts that are up and the filter: `filtered` are those of them the filter
blocks, `InUse` the others, `told` counts those, and the objects kept on
them and the array of root devices are a `Ledger`: the same objects, once each. Objects are dropped one by one
from an array that moves its last entry into the gap; that the array ends
up with the others is an induction over the drops (`RemovedMembers`). Of the contexts the
platform has, only those in use may be active; that they are is not so.

**Linux context manager.** What the manager knows lags behind the kernel by the
messages in the socket. `LinuxInv` follows them: reading them one by one, from
what the manager knows, ends at what the kernel has (`Course`). A step of the
kernel prolongs the course, one of the manager takes its first step. The two dumps at the start
are the hard case: changes go on between the question and the answer, and the dump of
addresses is asked for only when that of links has come.

**NetworkManager.** An `NMDevice` is freed when it is not listed any more and no call
for it is open, and its contexts go with it. So `NMInv` counts: `Tied` says that what was told of a
device is the sum of the contexts of its `NMDevices`, also if it was found
twice; `Sound`, that the references of each are the calls and the answers on the bus that
name it; `Follows`, that what the manager believes of a wired device is what the bus will
have told it in the end. A removal from the middle, a late answer and a failure
change one summand each.

**ConnMan.** Whatever is still on the bus, a service that has a context is active and its
context was told of (`Backing`), and no proxy in the queue or under way is for a service that was
freed (`Wanted`), which is what the cancellation is for. **Unix, Windows:** what was
announced is the list of contexts.

**HTTP server.** In `WebInv`, `HostsSound` says that the entry a handler works on is listed, and is one
for the handler's path; `ServesAll`, that a device whose UDN no other has is served from its own
folder; `WebAnswer`, that the file sent is under the local path of the client's agent, so
that what is tried after a missing variant or a folder never leaves it. Un-hosting takes away the
first entry of a path and the handler, so the entry of a second hosting stays listed without one.

**Addresses.** Each formula is about one answer, so the work is in the operators: the bits of a
byte (`LastByte`, for each number of bits from 0 to 8) and which bytes are whole for a prefix of any
length.

**Service descriptions.** `ServiceInv` has two halves. Until the introspection is there, `Awaiting`:
the list of waiting calls is the calls of `signals_autoconnect()` reversed. After it,
`Handled`: what is connected is, for each call in order, what the call connects. Prepending and
walking backwards meet in `GotIntrospection`.

**Device descriptions.** Answers are computed in one step but kept while types are registered
and root devices go. `DescriptionsInv` says that what was answered is what would be answered now.
From it the formulas follow by facts about the operators: the first match of a reversed
list, the class that is looked up with and without version, the lightest of the icons.

**Induction.** The library's induction theorems take a predicate, which the provers cannot
instantiate. `NetworkManagerProofs` therefore begins with induction over a *set* of numbers
(`Induction`, from the least element of a set of numbers), and gets from it that
a step can be repeated (`Iteration`). That is enough for recursive functions whose results an
invariant of the recursion describes: those of the lists, the context
managers, `Lightest`. `NotifyCallbacks`, `IntrospectionCache`, `ContextManager`,
`WebServer`, `HostAddresses`, the descriptions and `Platforms` are proved about where they run, in `Parts`,
since the runs check them there; each proof uses only that the other parts leave its
variables alone.

### What is only model-checked

* Liveness (`SubscriptionsEnd`, `WireDrains`, `OrphansNotice`, `CatchesUp`,
  `AnnouncedIsReported`, `ReleasedIsDisposed`, `CallsEnd`): fairness and ENABLED are beyond the prover.
* `AnswersHold`. Its conjunct `VariantIsFound` is not true of every file system: if the variant of a
  file is itself a folder, the code does not come back to the other
  variants; the run has no such folder. `AnnouncementsFound` is about a tree of
  devices of any depth, walked in two different orders, which needs induction over trees.
  `IntrospectionHolds` is about powers of two of any width (`2 ^ Width`), of which the provers
  know nothing but the numbers they are given.
* What the theorems leave out above: several callback URLs, keys that wrap between service and
  proxy, lost answers to renewals.

## 5. What the models show to be wrong

Three runs end in a counterexample; `findings` in `PROJECT.json` quotes
the line of the repository each disagrees with.

1. `proxy_dispose`: `dispose()` only reaches the renewal timer through
   `unsubscribe()`, and only if `subscribed`. A transport error of one of two
   SUBSCRIBEs clears that flag and leaves the timer that the other one armed.
2. `notify_remove`: a callback that removes the last callback of its variable makes
   `remove_notify()` free the record whose `next_emit` `emit_notification()`
   reads afterwards; a raw callback that removes itself frees the list node the loop
   goes on with.
3. `reannounced`: `on_context_unavailable()` makes a context inactive and
   `on_context_available()` does not make it active. When a link goes down and up, the
   Linux manager announces the contexts it has withdrawn before, and the application
   is told of contexts that send nothing.

More formulas that the code does not satisfy are kept in the modules. Seven have
configurations of their own, which end in a counterexample:

| Configuration | Module | Formula |
|---|---|---|
| `Service_order.cfg` | `MCService` | `NotificationsInOrder`: a NOTIFY that fails is sent to the next callback URL behind newer ones, with a newer key; the subscriber ends with the old value. |
| `Proxy_wanted.cfg` | `MCServiceProxy` | `SubscribesOnlyIfWanted`: events queued before `unsubscribe()` are emitted after it; the key was reset to 0, so one seems missed, and the proxy subscribes again on its own. |
| `Gena_early.cfg` | `MCGena` | `CatchesUp`: the first NOTIFY may come before the answer to SUBSCRIBE. It is answered 200 and dropped. |
| `Gena_missed.cfg` | `MCGena` | `MissedEventsAreNoticed`: after `subscription-lost` the key is not reset. A late event of an earlier subscription has the same effect, as it is counted though not emitted. |
| `Introspection_lost.cfg` | `IntrospectionCache` | `IntrospectedForGood`: `get_scpd_document_finished()` assigns `priv->introspection` before it looks at the error. If the server answers a second download that is under way with XML that is no service description, the introspection of the first is replaced by `NULL`. |
| `Action_found.cfg` | `MCServiceDescription` | `ActionFound`: `gupnp_service_introspection_get_action()` looks whether there are variables before it looks for an action, so no action of a service without variables is found. |
| `Actions_acl.cfg` | `MCActionCalls` | `AclFindsHandler`: the handler is freed with its service while an asynchronous ACL is asked. |

The others can be tried as an invariant or property of the run in brackets:

* `ByebyeIsFinal` (`control_point`): a byebye while a download waits for its retry
  cancels nothing, and the device is reported after it has gone. A retry also
  goes to the head of the list, so that a later byebye cancels it instead of a newer download.
* `PreferredFirst` (`parts`, of `WebServer`): qualities are cut off before the sort looks
  at them, so accepted languages stay in the order of the header.
* `IconFits` (`Descriptions`): without `prefer_bigger` an icon that is larger in one
  dimension and smaller in the other may be returned.
* `FilterHoldsReferences` (`ContextManager`): contexts that the filter blocks
  later are in the list without a reference, which is dropped all the same.
* `NotActivatedHasNone` (`NetworkManager`): the access point's answer may come after the
  device was deactivated, and a context is made.
* `TimeoutOnlyWhenActive` (`ConnmanManager`): the creation of a context fails or a
  service becomes inactive with the timer running, which an assertion in the code denies.

Worth knowing, from modelling:

* **Service.** With two messages in flight that fail at the first URL, the second is
  given up without the second URL being tried. A subscription marked by an early
  UNSUBSCRIBE stays in the table until its timer, and a renewal prolongs it. A
  retried initial event does not have the key 0.
* **Gena.** If the application unsubscribes while a renewal is in flight and
  subscribes again, the old SID may be adopted, and then shown events go back
  (`KeepsPromise` fails with `"unsubscribe"`; `gena_events` goes without it).
* **Control point.** Proxies that were replaced as unavailable but are held leak at disposal. The byebye of
  one USN removes the device's proxy while others are still announced. A cached document may be out of date.
* **Context manager.** With the filter disabled a boot id can go back. The filter
  handler is disconnected with other user data than it was connected with, so it
  stays. An object managed for a context that has vanished brings its list back. A
  change of the filter does not hand out boot ids.
* **Platforms.** Linux withdraws the contexts of a link that is down when it goes. A
  device that is added while `GetDevices` runs is kept twice by NetworkManager. A
  ConnMan service that becomes active while its proxy is created gets two contexts;
  an interface change that fails leaves it active without one. `generate_mask()` is wrong
  for prefixes that end in the first three bits of a byte.
* **Action calls.** The control handler answers M-POST with 501. An URL that
  cannot be rewritten leaves an asynchronous call without end. An action object
  that is called again while pending mixes two calls. A `GUPnPServiceAction` that is
  returned twice works on a response it has given away. An error in one of several
  queried variables erases the values before it.
* **Introspection.** Downloads that overlap each replace the cached introspection, and
  the replaced ones are not released. A description that cannot be loaded leaves calls of
  `signals_autoconnect()` waiting for ever. The limits of `ui1` and `ui2` are not checked.
  An empty action name makes `strip_camel_case()` write to an allocation of no bytes.
* **HTTP server.** A path that is hosted twice is served from the second entry, while
  agents and un-hosting use the first. Of two root devices with different folders
  the second hides the folder of the first, and no root device ever un-hosts its
  paths. A range that ends at the size of the file passes the check. A file that may
  not be read is a 500.
* **Descriptions.** A type without a version matches any query for it. Embedded
  devices of a root device that has gone return NULL children. A device without UDN or type hides
  everything below it. The class of a service proxy is that of the type
  that was searched for, not of the type that was found.

## 6. Not modelled

In the modelled components: calls of the application from inside
`notify-failed`, disposal from inside a notify callback, a service without event
URL, the property set's XML, the header checks of the subscription handler,
several proxies of one service. `query-variable` is taken to answer at once with
the present value. Names, values and order of the arguments of an action, and the
XML that carries them. Disposal of the context manager and
`gupnp_context_manager_rescan_control_points()`. Handlers that an application adds to a
context, except for the control handler behind the ACL. The getters of single
elements of a description, the download of an icon, and the parsing of files. The
enumeration of interfaces on Windows. Time-outs of the network: libsoup's are off.

The application in the models keeps to the documentation where the code relies on
it: it calls an action object again when the last call has ended, answers a
`GUPnPServiceAction` once, and hands root devices over for contexts it sees.

Left out for good: GObject properties and their accessors, the XML walkers of
`xml-util.c`, `gupnp-xml-doc.c`, gzip bodies, error domains, the bindings, the
binding tool, examples and tests, which are conversions, plumbing or not part of
the library.

## 7. Plan

1. (done) Eventing: `EventedValue`, `Service`, `ServiceProxy`, `Gena`, their runs, and the proofs above.
2. (done) `ControlPoint`, `ActionCalls`, `ContextManager` and the platforms, `WebServer`,
   the descriptions, their runs.
3. (done) Proofs: the theorems of section 4.
4. (done) The parts: `ToldIsHeld` of the D-Bus managers and of the simple one, `FilesServed`,
   `AddressesUsable`, `HandlersConnected`, `ResourcesFound`, and the types of all.
5. Open: `AnswersHold` for every constant; `ActionCalls` with arguments; the disposal of the context manager.
