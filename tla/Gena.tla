-------------------------------- MODULE Gena --------------------------------
(***************************************************************************)
(* A service and a proxy for it, and the HTTP between them: the eventing   *)
(* of libgupnp from gupnp_service_notify_value() in the device to the      *)
(* notify callback in the control point.                                   *)
(*                                                                         *)
(* The service has its introspection before the proxy exists.  A request   *)
(* of the proxy is served, and its answer handled, at different times; the *)
(* NOTIFYs the service sends in between travel on a connection of their    *)
(* own.  What may go wrong is a constant, so that a run can say what it    *)
(* depends on.                                                             *)
(***************************************************************************)
EXTENDS Integers, Sequences, FiniteSets

CONSTANTS
    SIDs,
    NoSid,
    G_MAXINT32,
    G_MAXUINT32,
    SUBSCRIPTION_TIMEOUT,
    MaxValue,
    MaxRenewals,
    MaxRequests,
    MaxPending,
    Happens         \* what may happen, of the set below

ASSUME GenaAssumption ==
    /\ NoSid \notin SIDs
    /\ {G_MAXINT32, SUBSCRIPTION_TIMEOUT} \subseteq Nat \ {0}
    /\ G_MAXUINT32 \in Nat /\ G_MAXINT32 <= G_MAXUINT32
    /\ {MaxValue, MaxRenewals, MaxRequests, MaxPending} \subseteq Nat
    /\ Happens \subseteq {"notify-lost",    \* a NOTIFY, or its answer, is lost
                          "request-lost",   \* a request of the proxy is lost
                          "answer-lost",    \* the answer to one is
                          "early-notify",   \* a NOTIFY overtakes the answer to SUBSCRIBE
                          "unsubscribe",    \* the application unsubscribes
                          "dispose",        \* the proxy is disposed
                          "freeze",         \* the service is frozen and thawed
                          "unavailable",    \* the root device goes away
                          "time"}           \* the clock runs, slower than the network

VARIABLES
    subscriptions, data, timeout_src, cancelled, notify_queue, notify_frozen,
    state_variables, introspecting, disposed, value, wire, sent, renewals, view, failed

VARIABLES
    subscribed, sid, subscription_timeout_src, seq, pending_notifies, notify_idle_src,
    listening, requests, made, emission, disposed_proxy, heard, shown

S == INSTANCE Service WITH MaxCallbacks <- 1
P == INSTANCE ServiceProxy WITH Docs <- -1 .. MaxValue, Timeouts <- {SUBSCRIPTION_TIMEOUT}

svars == <<subscriptions, data, timeout_src, cancelled, notify_queue, notify_frozen,
           state_variables, introspecting, disposed, value, wire, sent, renewals, view,
           failed>>
pvars == <<subscribed, sid, subscription_timeout_src, seq, pending_notifies,
           notify_idle_src, listening, requests, made, emission, disposed_proxy, heard,
           shown>>

Init ==
    /\ S!InitWith(TRUE, FALSE)
    /\ P!Init

-----------------------------------------------------------------------------
(* The two ends on their own.                                              *)

ServiceStep ==
    /\ \/ S!NotifyValue
       \/ /\ "freeze" \in Happens
          /\ S!FreezeNotify \/ S!NotifyFrozen \/ S!ThawNotify
       \/ /\ "unavailable" \in Happens
          /\ S!RootDeviceUnavailable
       \/ \E s \in SIDs : S!SubscriptionTimeout(s)
       \/ \E m \in wire : S!Response(m)
    /\ UNCHANGED pvars

ProxyStep ==
    /\ \/ P!SetSubscribed
       \/ "unsubscribe" \in Happens /\ P!SetUnsubscribed
       \/ "dispose" \in Happens /\ P!Dispose
       \/ P!Emit
       \/ P!SubscriptionExpire
       \/ \E r \in requests : P!Response(r)
    /\ UNCHANGED svars

\* One clock drives the timers of both, when no request is under way and
\* neither has a timer due.
Tick ==
    /\ "time" \in Happens
    /\ requests = {}
    /\ \/ S!Tick /\ P!Tick
       \/ S!Tick /\ subscription_timeout_src = P!Off /\ UNCHANGED pvars
       \/ (\A s \in SIDs : timeout_src[s] = S!Unarmed) /\ P!Tick /\ UNCHANGED svars

-----------------------------------------------------------------------------
(* SUBSCRIBE and UNSUBSCRIBE                                               *)

Ok(s)   == [status |-> "ok", sid |-> s, timeout |-> SUBSCRIPTION_TIMEOUT]
Refused == [status |-> "failed", sid |-> NoSid, timeout |-> P!NoTimeout]
Error   == [status |-> "error", sid |-> NoSid, timeout |-> P!NoTimeout]

\* The answer reaches the proxy's session, or does not.
Answered(r, reply) ==
    \/ P!Answer(r, reply)
    \/ "answer-lost" \in Happens /\ P!Answer(r, Error)

ServeSubscribe(r) ==
    /\ r.method = "SUBSCRIBE"
    /\ \E s \in SIDs :
          /\ S!Subscribe(s, 1)
          /\ Answered(r, Ok(s))

ServeRenew(r) ==
    /\ r.method = "RENEW"
    /\ \/ S!Resubscribe(r.sid) /\ Answered(r, Ok(r.sid))
       \/ r.sid \notin subscriptions /\ Answered(r, Refused) /\ UNCHANGED svars

ServeUnsubscribe(r) ==
    /\ r.method = "UNSUBSCRIBE"
    /\ \/ S!Unsubscribe(r.sid)
       \/ S!UnsubscribeEarly(r.sid)
       \/ r.sid \notin subscriptions /\ UNCHANGED svars
    /\ P!Forget(r)

RequestLost(r) ==
    /\ "request-lost" \in Happens
    /\ IF r.method = "UNSUBSCRIBE" THEN P!Forget(r) ELSE P!Answer(r, Error)
    /\ UNCHANGED svars

Serve ==
    \E r \in requests :
        /\ r.reply = P!Unanswered
        /\ \/ ServeSubscribe(r)
           \/ ServeRenew(r)
           \/ ServeUnsubscribe(r)
           \/ RequestLost(r)

-----------------------------------------------------------------------------
(* NOTIFY                                                                  *)

EventOf(m) == [sid |-> m.sid, seq |-> m.seq, doc |-> m.body]

\* The answer to the SUBSCRIBE that made the subscription is not handled yet.
Early(m) == \E r \in requests : r.method = "SUBSCRIBE" /\ r.reply.sid = m.sid

Deliver(m) ==
    /\ Early(m) => "early-notify" \in Happens
    /\ Len(pending_notifies) < MaxPending
    /\ P!Notify(EventOf(m))
    /\ \/ S!Answer(m, "ok", TRUE)
       \/ "notify-lost" \in Happens /\ S!Answer(m, "failure", TRUE)

\* The server of the control point has no handler for the path: 404
Rejected(m) ==
    /\ Early(m) => "early-notify" \in Happens
    /\ ~listening
    /\ emission = "idle"
    /\ S!Answer(m, "failure", FALSE)
    /\ UNCHANGED pvars

NotifyLost(m) ==
    /\ "notify-lost" \in Happens
    /\ S!Answer(m, "failure", FALSE)
    /\ UNCHANGED pvars

Network ==
    \E m \in wire :
        \/ Deliver(m)
        \/ Rejected(m)
        \/ NotifyLost(m)

-----------------------------------------------------------------------------
Next ==
    \/ ServiceStep
    \/ ProxyStep
    \/ Tick
    \/ Serve
    \/ Network

allvars == <<svars, pvars>>

Spec == Init /\ [][Next]_allvars

\* Both main loops run, the clock too, and the network moves what it does not
\* lose.  The application subscribes, once it can.
Fairness ==
    /\ WF_allvars(Serve)
    /\ WF_allvars(Network)
    /\ WF_allvars(ServiceStep /\ \E m \in wire : m \notin wire')
    /\ WF_allvars(Tick)
    /\ WF_allvars((\E s \in SIDs : S!SubscriptionTimeout(s)) /\ UNCHANGED pvars)
    /\ WF_allvars(P!SubscriptionExpire /\ UNCHANGED svars)
    /\ WF_allvars(P!Emit /\ UNCHANGED svars)
    /\ WF_allvars((\E r \in requests : P!Response(r)) /\ UNCHANGED svars)
    /\ WF_allvars(P!SetSubscribed /\ UNCHANGED svars)

LiveSpec == Spec /\ Fairness

-----------------------------------------------------------------------------
(* Properties.                                                             *)

\* The application of the control point sees the variable change as it does
\* in the device: never back to a value it had before.
Promise == INSTANCE EventedValue
    WITH Subscribers <- {"proxy"}, view <- [p \in {"proxy"} |-> shown]

KeepsPromise == Promise!Spec

\* Of one subscription, events are emitted in the order they were sent and
\* none twice, however the requests of the proxy cross: each one that is emitted
\* has a later key than the last, and heard is the last one's.
EmitsEvent == emission = "loop" /\ emission' = "callback"

EventsInOrder ==
    [][/\ EmitsEvent => heard'[sid] > heard[sid]
       /\ \A s \in SIDs : ~(EmitsEvent /\ s = sid) => heard'[s] = heard[s]]_allvars

\* When nothing is under way between a subscribed proxy and its service, the
\* application has the present value, or the service has emitted notify-failed
\* for the message that carried it: a missed event, the new subscription it
\* leads to and the events of the old one that still arrive lose nothing
\* silently.
Quiet ==
    /\ sid \in subscriptions
    /\ wire = {} /\ requests = {} /\ pending_notifies = <<>>
    /\ ~notify_frozen

ShownOrReported == Quiet => value \in {shown, failed[sid]}

\* A proxy never emits an event of a subscription without having emitted the
\* one before it: a missed event leads to a new subscription.
DueKey(k) == IF k = P!Nothing THEN 0 ELSE S!NextSeq(k)

MissedEventsAreNoticed ==
    [][\A s \in SIDs : heard'[s] # heard[s] => heard'[s] = DueKey(heard[s])]_allvars

\* The renewal outruns the subscription: the timer of the subscription whose SID
\* the proxy holds is never due, whatever the jitter of the renewal timer.
RenewsInTime == sid # NoSid /\ sid \in subscriptions => timeout_src[sid] > 0

\* When the service has dropped the subscription of a proxy, say because its
\* root device went away, the renewal tells the proxy: it does not stay
\* subscribed to nothing.  (A run that is out of requests ends before that.)
Orphaned == sid # NoSid /\ sid \notin subscriptions

OrphansNotice == Orphaned ~> ~Orphaned \/ ~P!MayRequest(1)

\* The proxy catches up: when the device has made its last change, the
\* application of the control point gets to see it, unless it is held back by
\* a freeze, and also if the root device went away in the meantime.  (Again,
\* as long as there are requests left.)
CatchesUp ==
    <>[](value = MaxValue /\ ~notify_frozen => shown = value \/ ~P!MayRequest(1))
=============================================================================
