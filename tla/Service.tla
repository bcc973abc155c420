------------------------------ MODULE Service ------------------------------
(***************************************************************************)
(* The publisher half of eventing, src/libgupnp/gupnp-service.c: the table *)
(* of subscriptions, their timers, the queue of changed state variables    *)
(* and the NOTIFY messages handed to the service's own SoupSession.        *)
(*                                                                         *)
(* One evented state variable is followed.  Its value is the number of     *)
(* times the application has changed it, so a property set, of which only  *)
(* the last value it carries matters to a subscriber, is one number, or    *)
(* Empty when it carries none.                                             *)
(*                                                                         *)
(* Everything below the SoupSession is the environment: a message is       *)
(* answered, or fails, when and how the network likes, and its callback    *)
(* runs in a later iteration of the main loop.                             *)
(*                                                                         *)
(* Definitions marked "faulty" are the code with a mistake in it: they are *)
(* part of no specification, and the properties are tried against them.    *)
(***************************************************************************)
EXTENDS Integers, FiniteSets

CONSTANTS
    SIDs,                 \* identifiers generate_sid() may return; none is returned twice
    MaxCallbacks,         \* longest list of callback URLs a SUBSCRIBE carries (the code keeps six)
    G_MAXINT32,           \* where the event key wraps
    SUBSCRIPTION_TIMEOUT, \* lifetime of a subscription, in ticks of the clock
    MaxValue,             \* bound: changes of the state variable
    MaxRenewals           \* bound: renewals of one subscription

ASSUME ServiceAssumption ==
    /\ MaxCallbacks \in Nat \ {0}
    /\ G_MAXINT32 \in Nat \ {0}
    /\ SUBSCRIPTION_TIMEOUT \in Nat \ {0}
    /\ MaxValue \in Nat
    /\ MaxRenewals \in Nat

VARIABLES
    subscriptions,   \* priv->subscriptions: the SIDs in the hash table
    data,            \* the SubscriptionData of each SID
    timeout_src,     \* ticks left on the timer that points to it, or Unarmed
    cancelled,       \* SIDs whose GCancellable has been cancelled
    notify_queue,    \* priv->notify_queue: Empty, or the last value in it
    notify_frozen,   \* priv->notify_frozen
    state_variables, \* priv->state_variables lists the variable
    introspecting,   \* gupnp_service_info_introspect_async() has not answered
    disposed,        \* gupnp_service_dispose() has run
    value,           \* the application's value of the state variable
    wire,            \* NOTIFY messages the session has not called back for
    sent,            \* history: messages ever queued to each SID
    renewals,        \* history: renewals of each SID
    view,            \* environment: the value each subscriber was last told
    failed           \* history: the last value whose loss notify-failed reported

queues == <<notify_queue, notify_frozen>>
setup  == <<state_variables, introspecting, disposed>>
table  == <<subscriptions, timeout_src, cancelled>>
vars   == <<subscriptions, data, timeout_src, cancelled, notify_queue, notify_frozen,
            state_variables, introspecting, disposed, value, wire, sent, renewals,
            view, failed>>

Empty   == -1   \* a property set without a value, an unknown value
Unarmed == -1

Values   == -1 .. MaxValue
Statuses == {"none", "ok", "precondition-failed", "failure"}

SubscriptionData ==
    [callbacks          : 0 .. MaxCallbacks,  \* length of the callback list
     current            : 0 .. MaxCallbacks,  \* where data->callbacks points in it
     seq                : 0 .. G_MAXINT32,
     pending_messages   : SUBSET (Nat \ {0}),
     initial_state_sent : BOOLEAN,
     to_delete          : BOOLEAN]

Notification ==
    [sid : SIDs, id : Nat \ {0}, cb : 1 .. MaxCallbacks, seq : 0 .. G_MAXINT32,
     body : Values, status : Statuses]

Zeroed == [callbacks |-> 0, current |-> 0, seq |-> 0, pending_messages |-> {},
           initial_state_sent |-> FALSE, to_delete |-> FALSE]

TypeOK ==
    /\ subscriptions \subseteq SIDs
    /\ data \in [SIDs -> SubscriptionData]
    /\ \A s \in subscriptions : data[s].current \in 1 .. data[s].callbacks
    /\ timeout_src \in [SIDs -> {Unarmed} \cup (0 .. SUBSCRIPTION_TIMEOUT)]
    /\ cancelled \subseteq SIDs
    /\ notify_queue \in Values
    /\ notify_frozen \in BOOLEAN
    /\ state_variables \in BOOLEAN
    /\ introspecting \in BOOLEAN
    /\ disposed \in BOOLEAN
    /\ value \in 0 .. MaxValue
    /\ wire \subseteq Notification
    /\ sent \in [SIDs -> Nat]
    /\ renewals \in [SIDs -> 0 .. MaxRenewals]
    /\ view \in [SIDs -> Values]
    /\ failed \in [SIDs -> Values]

\* A service that has (known) or has not got the introspection it asked for
InitWith(known, pending) ==
    /\ subscriptions = {}
    /\ data = [s \in SIDs |-> Zeroed]
    /\ timeout_src = [s \in SIDs |-> Unarmed]
    /\ cancelled = {}
    /\ notify_queue = Empty
    /\ notify_frozen = FALSE
    /\ state_variables = known
    /\ introspecting = pending
    /\ disposed = FALSE
    /\ value = 0
    /\ wire = {}
    /\ sent = [s \in SIDs |-> 0]
    /\ renewals = [s \in SIDs |-> 0]
    /\ view = [s \in SIDs |-> Empty]
    /\ failed = [s \in SIDs |-> Empty]

Init == InitWith(FALSE, TRUE)

-----------------------------------------------------------------------------
(* Helpers of the handlers.                                                *)

CanDeleteBeforeInitial(d) == ~d.initial_state_sent /\ d.to_delete  \* faulty: inverted

CanDelete(d) == d.initial_state_sent /\ d.to_delete

NextSeqUnbounded(q) == q + 1                                 \* faulty: overflows
NextSeqToZero(q) == IF q < G_MAXINT32 THEN q + 1 ELSE 0      \* faulty: 0 comes back

NextSeq(q) == IF q < G_MAXINT32 THEN q + 1 ELSE 1

Message(s, d, body) ==
    [sid |-> s, id |-> sent[s] + 1, cb |-> d.current, seq |-> d.seq,
     body |-> body, status |-> "none"]

\* notify_subscriber() for every SID of S, whose records are those of d, on
\* top of the messages w.  Subscribers that have unsubscribed get nothing.
NotifySubscribers(S, d, w, body) ==
    LET to == {s \in S : ~CanDelete(d[s])} IN
    /\ data' = [s \in SIDs |->
                  IF s \in to
                  THEN [d[s] EXCEPT !.seq = NextSeq(@),
                                    !.pending_messages = @ \cup {sent[s] + 1}]
                  ELSE d[s]]
    /\ wire' = w \cup {Message(s, d[s], body) : s \in to}
    /\ sent' = [s \in SIDs |-> IF s \in to THEN sent[s] + 1 ELSE sent[s]]

\* faulty: the messages of the subscription are not cancelled
RemoveUncancelled(S) ==
    /\ subscriptions' = subscriptions \ S
    /\ cancelled' = cancelled
    /\ timeout_src' = [s \in SIDs |-> IF s \in S THEN Unarmed ELSE timeout_src[s]]

\* faulty: the timer keeps pointing to the freed subscription
RemoveTimerLeft(S) ==
    /\ subscriptions' = subscriptions \ S
    /\ cancelled' = cancelled \cup S
    /\ timeout_src' = timeout_src

\* subscription_data_free() of every SID of S, taken out of the hash table.
\* The messages stay with the session, which now answers CANCELLED for them.
RemoveSubscriptions(S) ==
    /\ subscriptions' = subscriptions \ S
    /\ cancelled' = cancelled \cup S
    /\ timeout_src' = [s \in SIDs |-> IF s \in S THEN Unarmed ELSE timeout_src[s]]

Freed(d, S) == [s \in SIDs |-> IF s \in S THEN Zeroed ELSE d[s]]

InitialStateStale(known) == IF known THEN 0 ELSE Empty       \* faulty: an old value

\* The property set send_initial_state() makes: query-variable gives the
\* application's present value.
InitialState(known) == IF known THEN value ELSE Empty

-----------------------------------------------------------------------------
(* Requests on the event URL.                                              *)

\* subscribe() with n usable callbacks; without one it answers 412.
Subscribe(s, n) ==
    /\ ~disposed
    /\ s \notin subscriptions \cup cancelled
    /\ subscriptions' = subscriptions \cup {s}
    /\ timeout_src' = [timeout_src EXCEPT ![s] = SUBSCRIPTION_TIMEOUT]
    /\ NotifySubscribers({s},
                         [data EXCEPT ![s] = [Zeroed EXCEPT !.callbacks = n, !.current = 1]],
                         wire, InitialState(state_variables))
    /\ UNCHANGED <<cancelled, queues, setup, value, renewals, view, failed>>

\* faulty: the old timer is destroyed and no new one attached
ResubscribeUntimed(s) ==
    /\ ~disposed
    /\ s \in subscriptions
    /\ renewals[s] < MaxRenewals
    /\ renewals' = [renewals EXCEPT ![s] = @ + 1]
    /\ timeout_src' = [timeout_src EXCEPT ![s] = Unarmed]
    /\ UNCHANGED <<subscriptions, data, cancelled, queues, setup, value, wire, sent,
                   view, failed>>

\* resubscribe(); a SID that is not in the table is answered 412.
Resubscribe(s) ==
    /\ ~disposed
    /\ s \in subscriptions
    /\ renewals[s] < MaxRenewals
    /\ renewals' = [renewals EXCEPT ![s] = @ + 1]
    /\ timeout_src' = [timeout_src EXCEPT ![s] = SUBSCRIPTION_TIMEOUT]
    /\ UNCHANGED <<subscriptions, data, cancelled, queues, setup, value, wire, sent,
                   view, failed>>

\* unsubscribe() of a subscriber that has had its initial event
Unsubscribe(s) ==
    /\ ~disposed
    /\ s \in subscriptions
    /\ data[s].initial_state_sent
    /\ RemoveSubscriptions({s})
    /\ data' = Freed(data, {s})
    /\ UNCHANGED <<queues, setup, value, wire, sent, renewals, view, failed>>

\* unsubscribe() before that: the subscription is only marked
UnsubscribeEarly(s) ==
    /\ ~disposed
    /\ s \in subscriptions
    /\ ~data[s].initial_state_sent
    /\ data' = [data EXCEPT ![s].to_delete = TRUE]
    /\ UNCHANGED <<table, queues, setup, value, wire, sent, renewals, view, failed>>

-----------------------------------------------------------------------------
(* Calls of the application.                                               *)

\* gupnp_service_notify_value() while notifications are frozen
NotifyFrozen ==
    /\ ~disposed
    /\ notify_frozen
    /\ value < MaxValue
    /\ value' = value + 1
    /\ notify_queue' = value'
    /\ UNCHANGED <<table, data, notify_frozen, setup, wire, sent, renewals, view, failed>>

\* gupnp_service_notify_value() otherwise: the queue is flushed at once
NotifyValue ==
    /\ ~disposed
    /\ ~notify_frozen
    /\ value < MaxValue
    /\ value' = value + 1
    /\ NotifySubscribers(subscriptions, data, wire, value')
    /\ UNCHANGED <<table, queues, setup, renewals, view, failed>>

\* gupnp_service_freeze_notify()
FreezeNotify ==
    /\ ~disposed
    /\ notify_frozen' = TRUE
    /\ UNCHANGED <<table, data, notify_queue, setup, value, wire, sent, renewals, view,
                   failed>>

\* faulty: the queue is emptied and not flushed
ThawNotifyUnflushed ==
    /\ ~disposed
    /\ notify_frozen' = FALSE
    /\ notify_queue' = Empty
    /\ UNCHANGED <<table, data, wire, sent, setup, value, renewals, view, failed>>

\* gupnp_service_thaw_notify()
ThawNotify ==
    /\ ~disposed
    /\ notify_frozen' = FALSE
    /\ notify_queue' = Empty
    /\ IF notify_queue = Empty
       THEN UNCHANGED <<data, wire, sent>>
       ELSE NotifySubscribers(subscriptions, data, wire, notify_queue)
    /\ UNCHANGED <<table, setup, value, renewals, view, failed>>

\* notify_available_cb() when the root device has gone
RootDeviceUnavailable ==
    /\ ~disposed
    /\ RemoveSubscriptions(subscriptions)
    /\ data' = Freed(data, subscriptions)
    /\ UNCHANGED <<queues, setup, value, wire, sent, renewals, view, failed>>

\* gupnp_service_dispose(): the URL handlers go and so do the subscriptions.
\* A pending introspection holds a reference to the service.
Dispose ==
    /\ ~disposed
    /\ ~introspecting
    /\ disposed' = TRUE
    /\ RemoveSubscriptions(subscriptions)
    /\ data' = Freed(data, subscriptions)
    /\ UNCHANGED <<queues, state_variables, introspecting, value, wire, sent, renewals,
                   view, failed>>

-----------------------------------------------------------------------------
(* Callbacks of the main loop.                                             *)

\* got_introspection(): every subscription has its (second) initial event,
\* and those that wait to be deleted are.
GotIntrospection(ok) ==
    LET gone == {s \in subscriptions : CanDelete(data[s])} IN
    /\ introspecting
    /\ introspecting' = FALSE
    /\ state_variables' = ok
    /\ NotifySubscribers(subscriptions \ gone, Freed(data, gone), wire, InitialState(ok))
    /\ RemoveSubscriptions(gone)
    /\ UNCHANGED <<queues, disposed, value, renewals, view, failed>>

\* Time passes for every armed timer, when none is due.
Tick ==
    /\ \E s \in SIDs : timeout_src[s] # Unarmed
    /\ \A s \in SIDs : timeout_src[s] # 0
    /\ timeout_src' = [s \in SIDs |-> IF timeout_src[s] = Unarmed THEN Unarmed
                                      ELSE timeout_src[s] - 1]
    /\ UNCHANGED <<subscriptions, data, cancelled, queues, setup, value, wire, sent,
                   renewals, view, failed>>

\* subscription_timeout()
SubscriptionTimeout(s) ==
    /\ timeout_src[s] = 0
    /\ RemoveSubscriptions({s})
    /\ data' = Freed(data, {s})
    /\ UNCHANGED <<queues, setup, value, wire, sent, renewals, view, failed>>

-----------------------------------------------------------------------------
(* The session and its answers.  It keeps one connection to a host, so a   *)
(* message to a callback URL goes out when those before it are done with.  *)

BeforeInParallel(m) == {n \in {m} : FALSE}  \* faulty: many connections to one host

Before(m) == {n \in wire : n.sid = m.sid /\ n.cb = m.cb /\ n.id < m.id}

\* The network ends the exchange with status st; with it or without it the
\* subscriber may have had the message.
Answer(m, st, delivered) ==
    /\ m.status = "none"
    /\ Before(m) = {}
    /\ st = "ok" => delivered
    /\ st = "precondition-failed" => ~delivered
    /\ wire' = (wire \ {m}) \cup {[m EXCEPT !.status = st]}
    /\ view' = IF delivered /\ m.body # Empty THEN [view EXCEPT ![m.sid] = m.body]
               ELSE view
    /\ UNCHANGED <<table, data, queues, setup, value, sent, renewals, failed>>

\* notify_got_response() for m, of a subscription that was not freed
GotResponse(m, st) ==
    /\ m.sid \notin cancelled
    /\ m.status = st

Unlink(m) == [data EXCEPT ![m.sid].pending_messages = @ \ {m.id}]

\* faulty: the session was not given the cancellable
ResponseUncancelled(m) ==
    /\ m.sid \in cancelled
    /\ m.status # "none"
    /\ wire' = wire \ {m}
    /\ UNCHANGED <<table, data, queues, setup, value, sent, renewals, view, failed>>

\* G_IO_ERROR_CANCELLED: the data was freed with the subscription.  The
\* callbacks of its messages come together and do nothing.
ResponseCancelled(m) ==
    /\ m.sid \in cancelled
    /\ wire' = wire \ {n \in wire : n.sid = m.sid}
    /\ UNCHANGED <<table, data, queues, setup, value, sent, renewals, view, failed>>

ResponseOk(m) ==
    /\ GotResponse(m, "ok")
    /\ wire' = wire \ {m}
    /\ data' = [Unlink(m) EXCEPT ![m.sid].initial_state_sent = TRUE,
                                 ![m.sid].current = 1]
    /\ UNCHANGED <<table, queues, setup, value, sent, renewals, view, failed>>

ResponsePreconditionFailed(m) ==
    /\ GotResponse(m, "precondition-failed")
    /\ wire' = wire \ {m}
    /\ RemoveSubscriptions({m.sid})
    /\ data' = Freed(data, {m.sid})
    /\ UNCHANGED <<queues, setup, value, sent, renewals, view, failed>>

\* Other failure, and there is another callback: the same property set is
\* sent to it, behind whatever the session has queued by now.
ResponseTryNext(m) ==
    /\ GotResponse(m, "failure")
    /\ data[m.sid].current < data[m.sid].callbacks
    /\ NotifySubscribers({m.sid}, [Unlink(m) EXCEPT ![m.sid].current = @ + 1],
                         wire \ {m}, m.body)
    /\ UNCHANGED <<table, queues, setup, value, renewals, view, failed>>

\* Other failure of the last callback: notify-failed
ResponseNotifyFailed(m) ==
    /\ GotResponse(m, "failure")
    /\ data[m.sid].current >= data[m.sid].callbacks
    /\ wire' = wire \ {m}
    /\ data' = [Unlink(m) EXCEPT ![m.sid].current = 1]
    /\ failed' = [failed EXCEPT ![m.sid] = m.body]
    /\ UNCHANGED <<table, queues, setup, value, sent, renewals, view>>

Response(m) ==
    \/ ResponseCancelled(m)
    \/ ResponseOk(m)
    \/ ResponsePreconditionFailed(m)
    \/ ResponseTryNext(m)
    \/ ResponseNotifyFailed(m)

-----------------------------------------------------------------------------
Requests ==
    \E s \in SIDs :
        \/ \E n \in 1 .. MaxCallbacks : Subscribe(s, n)
        \/ Resubscribe(s)
        \/ Unsubscribe(s)
        \/ UnsubscribeEarly(s)

Application ==
    \/ NotifyFrozen
    \/ NotifyValue
    \/ FreezeNotify
    \/ ThawNotify
    \/ RootDeviceUnavailable
    \/ Dispose

MainLoop ==
    \/ \E ok \in BOOLEAN : GotIntrospection(ok)
    \/ Tick
    \/ \E s \in SIDs : SubscriptionTimeout(s)
    \/ \E m \in wire : Response(m)

Network ==
    \E m \in wire, st \in Statuses \ {"none"}, delivered \in BOOLEAN :
        Answer(m, st, delivered)

Next ==
    \/ Requests
    \/ Application
    \/ MainLoop
    \/ Network

Spec == Init /\ [][Next]_vars

\* The clock advances and the main loop dispatches what is ready.  Nothing is
\* assumed of the network: the session has no timeout for an answer.
Fairness ==
    /\ WF_vars(Tick)
    /\ \A s \in SIDs : WF_vars(SubscriptionTimeout(s))
    /\ WF_vars(\E m \in wire : Response(m))

LiveSpec == Spec /\ Fairness

-----------------------------------------------------------------------------
(* Properties.                                                             *)

Key(n) == IF n <= G_MAXINT32 THEN n ELSE ((n - 1) % G_MAXINT32) + 1

WireOf(s) == {m \in wire : m.sid = s}

\* Memory discipline of notify_got_response() and subscription_data_free():
\* the pending_messages of a subscription are exactly the messages the session
\* will call back for, and a message whose SubscriptionData is gone has had
\* its cancellable cancelled, so no callback works on freed data.
PendingIsWire ==
    \A s \in SIDs :
        /\ s \in subscriptions =>
              /\ s \notin cancelled
              /\ data[s].pending_messages = {m.id : m \in WireOf(s)}
        /\ s \notin subscriptions \cup cancelled => WireOf(s) = {}

\* subscription_timeout() gets the SubscriptionData itself as user data: a
\* timer points to every subscription in the table, however it was renewed,
\* and to no other, however it was removed.
TimersMatchTable ==
    \A s \in SIDs : timeout_src[s] # Unarmed <=> s \in subscriptions

\* The event key tells a subscriber how many messages came before: messages
\* are numbered 0, 1, .. in the order they are queued, across retries, a
\* second initial event and flushes, and 0 does not come back at the wrap.
KeysAreConsecutive ==
    /\ \A s \in subscriptions : data[s].seq = Key(sent[s])
    /\ \A m \in wire : m.seq = Key(m.id - 1)

\* When the service has nothing left to send to a subscriber, the subscriber
\* has the present value of the variable, or notify-failed has been emitted
\* for the loss of that value: freezing, a subscription made before the
\* introspection, and failures in a row lose nothing silently.
Settled(s) ==
    /\ s \in subscriptions
    /\ ~data[s].to_delete
    /\ WireOf(s) = {}
    /\ ~notify_frozen
    /\ state_variables

NothingLostSilently ==
    \A s \in SIDs : Settled(s) => value \in {view[s], failed[s]}

\* Once a subscription is removed, or has unsubscribed and had its initial
\* event, no message is queued for its SID any more: not by a retry, a flush
\* or the end of the introspection.
SilentAfterUnsubscribe ==
    [][\A s \in SIDs :
          s \in cancelled \/ (data[s].to_delete /\ data[s].initial_state_sent)
             => sent'[s] = sent[s]]_vars

\* Every subscription ends: whether it was unsubscribed, marked, renewed or
\* forgotten by its subscriber, its timer removes it after the last renewal,
\* whatever its NOTIFYs do.
SubscriptionsEnd == \A s \in SIDs : s \in subscriptions ~> s \notin subscriptions

\* The session forgets the messages of a removed subscription, also those
\* the network never answers.
WireDrains == \A s \in SIDs : s \in cancelled ~> WireOf(s) = {}

\* Notifications arrive in the order of the changes, which is what the
\* dedicated session is for (gupnp_service_get_session).
NotificationsInOrder == [][\A s \in SIDs : view'[s] >= view[s]]_vars

Promise == INSTANCE EventedValue WITH Subscribers <- SIDs

\* The service keeps the promise of EventedValue to every SID.
KeepsPromise == Promise!Spec
=============================================================================
