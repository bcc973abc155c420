---------------------------- MODULE ServiceProxy ----------------------------
(***************************************************************************)
(* The subscriber half of eventing, src/libgupnp/gupnp-service-proxy.c:    *)
(* the subscription of one proxy, its renewal timer, the SUBSCRIBE and     *)
(* UNSUBSCRIBE requests in flight and the queue of events between the HTTP *)
(* handler and the idle callback that emits them.                          *)
(*                                                                         *)
(* Everything runs in one thread; a request is answered in any order, and  *)
(* its callback is a later iteration of the main loop.  The application is *)
(* called back in the middle of an emission and may (un)subscribe there.   *)
(*                                                                         *)
(* Definitions marked "faulty" are the code with a mistake in it: they are *)
(* part of no specification, and the properties are tried against them.    *)
(***************************************************************************)
EXTENDS Integers, Sequences

CONSTANTS
    SIDs,         \* subscription identifiers a service may hand out
    NoSid,        \* NULL
    Docs,         \* bodies of events: Nat, so that they can be compared
    G_MAXUINT32,  \* where the event key wraps
    Timeouts,     \* values of a Timeout header "Second-n"
    MaxRequests,  \* bound: requests of one proxy
    MaxPending    \* bound: events that wait for the idle callback

ASSUME ServiceProxyAssumption ==
    /\ NoSid \notin SIDs
    /\ Docs \subseteq Int
    /\ G_MAXUINT32 \in Nat \ {0}
    /\ Timeouts \subseteq Nat
    /\ MaxRequests \in Nat
    /\ MaxPending \in Nat

VARIABLES
    subscribed,               \* priv->subscribed
    sid,                      \* priv->sid
    subscription_timeout_src, \* ticks left on the renewal timer, or Off
    seq,                      \* priv->seq, the key the next event should have
    pending_notifies,         \* priv->pending_notifies
    notify_idle_src,          \* the idle source is attached
    listening,                \* the server has a handler on priv->path
    requests,                 \* HTTP requests in flight
    made,                     \* history: number of requests made
    emission,                 \* where emit_notifications() is
    disposed_proxy,           \* dispose() has run
    heard,                    \* history: key of the last event emitted of each SID
    shown                     \* history: body of the last event emitted

subscription == <<subscribed, sid, subscription_timeout_src, listening>>
outbox       == <<requests, made>>
inbox        == <<pending_notifies, notify_idle_src, emission>>
application  == <<heard, shown>>
proxyvars == <<subscribed, sid, subscription_timeout_src, seq, pending_notifies,
               notify_idle_src, listening, requests, made, emission, disposed_proxy,
               heard, shown>>

Off       == -1   \* no timer
NoTimeout == -1   \* a missing or infinite Timeout header
Nothing   == -1   \* no body, no key

Replies ==
    [status : {"none", "ok", "no-sid", "failed", "error"},
     sid : SIDs \cup {NoSid}, timeout : Timeouts \cup {NoTimeout}]

Unanswered == [status |-> "none", sid |-> NoSid, timeout |-> NoTimeout]

Request ==
    [id : 1 .. MaxRequests, method : {"SUBSCRIBE", "RENEW", "UNSUBSCRIBE"},
     sid : SIDs \cup {NoSid}, reply : Replies]

Event == [sid : SIDs, seq : 0 .. G_MAXUINT32, doc : Docs]

TypeOK ==
    /\ subscribed \in BOOLEAN
    /\ sid \in SIDs \cup {NoSid}
    /\ subscription_timeout_src \in Nat \cup {Off}
    /\ seq \in 0 .. G_MAXUINT32
    /\ pending_notifies \in Seq(Event)
    /\ notify_idle_src \in BOOLEAN
    /\ listening \in BOOLEAN
    /\ requests \subseteq Request
    /\ made \in 0 .. MaxRequests
    /\ emission \in {"idle", "loop", "callback"}
    /\ disposed_proxy \in BOOLEAN
    /\ heard \in [SIDs -> (0 .. G_MAXUINT32) \cup {Nothing}]
    /\ shown \in Docs \cup {Nothing}

Init ==
    /\ subscribed = FALSE
    /\ sid = NoSid
    /\ subscription_timeout_src = Off
    /\ seq = 0
    /\ pending_notifies = <<>>
    /\ notify_idle_src = FALSE
    /\ listening = FALSE
    /\ requests = {}
    /\ made = 0
    /\ emission = "idle"
    /\ disposed_proxy = FALSE
    /\ heard = [s \in SIDs |-> Nothing]
    /\ shown = Nothing

-----------------------------------------------------------------------------
(* The functions the handlers are made of.  More than one request may be   *)
(* made in a step: they are numbered from made + 1.                        *)

NewRequest(n, method, s) == [id |-> made + n, method |-> method, sid |-> s,
                             reply |-> Unanswered]

\* unsubscribe(): what it sends, if there is a SID to send it for
Farewell == IF sid = NoSid THEN {} ELSE {NewRequest(1, "UNSUBSCRIBE", sid)}

Farewells == IF sid = NoSid THEN 0 ELSE 1

\* unsubscribe(): the sequence number is reset with the SID
SeqAfterUnsubscribe(q) == IF sid = NoSid THEN q ELSE 0

MayRequest(n) == made + n <= MaxRequests

NextSeqUnbounded(q) == q + 1        \* faulty: overflows

NextSeq(q) == IF q < G_MAXUINT32 THEN q + 1 ELSE 1

RenewalTimesLate(t) == {t}          \* faulty: at the end of the period

\* The renewal timer for a subscription of t seconds: around the middle of
\* the period with some jitter, which g_random_int_range() makes 0 when the
\* range is empty.
RenewalTimes(t) ==
    IF t \div 4 = 0 THEN {t \div 2}
    ELSE {t \div 2 + j : j \in -(t \div 4) .. (t \div 4) - 1}

\* No code of the proxy runs in between: the main loop is in its callback.
MainLoopFree == emission = "idle" /\ ~disposed_proxy

-----------------------------------------------------------------------------
(* Calls of the application, also made from a notify callback.             *)

\* gupnp_service_proxy_set_subscribed (TRUE): subscribe()
SetSubscribed ==
    /\ emission \in {"idle", "callback"} /\ ~disposed_proxy
    /\ ~subscribed
    /\ MayRequest(1)
    /\ subscribed' = TRUE
    /\ subscription_timeout_src' = Off
    /\ listening' = TRUE
    /\ requests' = requests \cup {NewRequest(1, "SUBSCRIBE", NoSid)}
    /\ made' = made + 1
    /\ UNCHANGED <<sid, seq, inbox, disposed_proxy, application>>

\* gupnp_service_proxy_set_subscribed (FALSE): unsubscribe()
SetUnsubscribed ==
    /\ emission \in {"idle", "callback"} /\ ~disposed_proxy
    /\ subscribed
    /\ MayRequest(Farewells)
    /\ subscribed' = FALSE
    /\ subscription_timeout_src' = Off
    /\ listening' = FALSE
    /\ requests' = requests \cup Farewell
    /\ made' = made + Farewells
    /\ sid' = NoSid
    /\ seq' = SeqAfterUnsubscribe(seq)
    /\ UNCHANGED <<inbox, disposed_proxy, application>>

\* gupnp_service_proxy_dispose().  Without unsubscribe() the renewal timer
\* and the SID stay as they are.
Dispose ==
    /\ MainLoopFree
    /\ disposed_proxy' = TRUE
    /\ subscribed' = FALSE
    /\ listening' = FALSE
    /\ pending_notifies' = <<>>
    /\ notify_idle_src' = FALSE
    /\ IF subscribed
       THEN /\ MayRequest(Farewells)
            /\ requests' = requests \cup Farewell
            /\ made' = made + Farewells
            /\ sid' = NoSid
            /\ seq' = SeqAfterUnsubscribe(seq)
            /\ subscription_timeout_src' = Off
       ELSE UNCHANGED <<outbox, sid, seq, subscription_timeout_src>>
    /\ UNCHANGED <<emission, application>>

-----------------------------------------------------------------------------
(* Events.                                                                 *)

\* faulty: the event is put before those that wait
NotifyAtHead(e) ==
    /\ MainLoopFree
    /\ listening
    /\ IF sid = NoSid
       THEN UNCHANGED <<pending_notifies, notify_idle_src>>
       ELSE /\ pending_notifies' = <<e>> \o pending_notifies
            /\ notify_idle_src' = TRUE
    /\ UNCHANGED <<subscription, seq, outbox, emission, disposed_proxy, application>>

\* server_handler(): a well-formed NOTIFY.  Without a SID it is answered 200
\* and forgotten.
Notify(e) ==
    /\ MainLoopFree
    /\ listening
    /\ IF sid = NoSid
       THEN UNCHANGED <<pending_notifies, notify_idle_src>>
       ELSE /\ pending_notifies' = Append(pending_notifies, e)
            /\ notify_idle_src' = TRUE
    /\ UNCHANGED <<subscription, seq, outbox, emission, disposed_proxy, application>>

\* emit_notifications() runs, and does not put itself off for want of a SID
EmitStart ==
    /\ MainLoopFree
    /\ notify_idle_src
    /\ ~(sid = NoSid /\ subscribed)
    /\ emission' = "loop"
    /\ UNCHANGED <<subscription, seq, outbox, pending_notifies, notify_idle_src,
                   disposed_proxy, application>>

\* faulty: the end of the loop looks at one event only and drops the others
EmitDoneDropping ==
    /\ emission = "loop"
    /\ emission' = "idle"
    /\ pending_notifies' = <<>>
    /\ notify_idle_src' = FALSE
    /\ UNCHANGED <<subscription, seq, outbox, disposed_proxy, application>>

\* faulty: an event that is emitted stays in the queue
EmitEventKept ==
    LET e == Head(pending_notifies) IN
    /\ emission = "loop"
    /\ pending_notifies # <<>>
    /\ e.seq <= seq /\ e.sid = sid
    /\ seq' = NextSeq(seq)
    /\ emission' = "callback"
    /\ shown' = e.doc
    /\ heard' = [heard EXCEPT ![sid] = e.seq]
    /\ UNCHANGED <<subscription, outbox, pending_notifies, notify_idle_src, disposed_proxy>>

\* The next event has the key that is due, or an earlier one: it counts, and
\* is emitted if it is of the proxy's SID.
EmitEvent ==
    LET e == Head(pending_notifies) IN
    /\ emission = "loop"
    /\ pending_notifies # <<>>
    /\ e.seq <= seq
    /\ seq' = NextSeq(seq)
    /\ pending_notifies' = Tail(pending_notifies)
    /\ IF e.sid = sid
       THEN /\ emission' = "callback"
            /\ shown' = e.doc
            /\ heard' = [heard EXCEPT ![sid] = e.seq]
       ELSE UNCHANGED <<emission, application>>
    /\ UNCHANGED <<subscription, outbox, notify_idle_src, disposed_proxy>>

\* The application returns from its notify callback.
CallbackReturns ==
    /\ emission = "callback"
    /\ emission' = "loop"
    /\ UNCHANGED <<subscription, seq, outbox, pending_notifies, notify_idle_src,
                   disposed_proxy, application>>

\* The next event has a later key, so one was missed: the queue is dropped,
\* unsubscribe() and subscribe() are called.
EmitMissed ==
    /\ emission = "loop"
    /\ pending_notifies # <<>>
    /\ Head(pending_notifies).seq > seq
    /\ MayRequest(Farewells + 1)
    /\ pending_notifies' = <<>>
    /\ notify_idle_src' = FALSE
    /\ emission' = "idle"
    /\ requests' = requests \cup Farewell
                    \cup {NewRequest(Farewells + 1, "SUBSCRIBE", NoSid)}
    /\ made' = made + Farewells + 1
    /\ sid' = NoSid
    /\ seq' = SeqAfterUnsubscribe(seq)
    /\ subscription_timeout_src' = Off
    /\ listening' = TRUE
    /\ UNCHANGED <<subscribed, disposed_proxy, application>>

\* faulty: the loop ends after one event and leaves the others
EmitDoneEarly ==
    /\ emission = "loop"
    /\ emission' = "idle"
    /\ notify_idle_src' = FALSE
    /\ UNCHANGED <<subscription, seq, outbox, pending_notifies, disposed_proxy,
                   application>>

EmitDone ==
    /\ emission = "loop"
    /\ pending_notifies = <<>>
    /\ emission' = "idle"
    /\ notify_idle_src' = FALSE
    /\ UNCHANGED <<subscription, seq, outbox, pending_notifies, disposed_proxy,
                   application>>

-----------------------------------------------------------------------------
(* The renewal timer and the answers to SUBSCRIBE.                         *)

\* subscription_expire()
SubscriptionExpire ==
    /\ MainLoopFree
    /\ subscription_timeout_src = 0
    /\ subscription_timeout_src' = Off
    /\ IF sid = NoSid
       THEN UNCHANGED outbox
       ELSE /\ MayRequest(1)
            /\ requests' = requests \cup {NewRequest(1, "RENEW", sid)}
            /\ made' = made + 1
    /\ UNCHANGED <<subscribed, sid, listening, seq, inbox, disposed_proxy, application>>

\* subscribe_got_response() for r, whose answer has the status st
GotResponse(r, st) ==
    /\ MainLoopFree
    /\ r.method # "UNSUBSCRIBE"
    /\ r.reply.status = st
    /\ requests' = requests \ {r}

\* faulty: the proxy still says it is subscribed
ResponseErrorIgnored(r) ==
    /\ GotResponse(r, "error")
    /\ listening' = FALSE
    /\ UNCHANGED <<subscribed, sid, subscription_timeout_src, seq, made, inbox,
                   disposed_proxy, application>>

\* A transport error.  The timer and the SID stay as they are.
ResponseError(r) ==
    /\ GotResponse(r, "error")
    /\ listening' = FALSE
    /\ subscribed' = FALSE
    /\ UNCHANGED <<sid, subscription_timeout_src, seq, made, inbox, disposed_proxy,
                   application>>

\* The answer to a subscription that is not wanted any more.
ResponseUnwanted(r) ==
    /\ \E st \in {"ok", "no-sid", "failed"} : GotResponse(r, st)
    /\ ~subscribed
    /\ subscription_timeout_src' = Off
    /\ UNCHANGED <<subscribed, sid, listening, seq, made, inbox, disposed_proxy,
                   application>>

\* faulty: only the answer to a first SUBSCRIBE starts the renewal timer
ResponseOkUntimed(r) ==
    /\ GotResponse(r, "ok")
    /\ subscribed
    /\ sid' = r.reply.sid
    /\ IF r.reply.timeout = NoTimeout \/ r.method = "RENEW"
       THEN subscription_timeout_src' = Off
       ELSE \E t \in RenewalTimes(r.reply.timeout) : subscription_timeout_src' = t
    /\ UNCHANGED <<subscribed, listening, seq, made, inbox, disposed_proxy, application>>

\* Success: the SID and the renewal timer are those of the answer.
ResponseOk(r) ==
    /\ GotResponse(r, "ok")
    /\ subscribed
    /\ sid' = r.reply.sid
    /\ IF r.reply.timeout = NoTimeout
       THEN subscription_timeout_src' = Off
       ELSE \E t \in RenewalTimes(r.reply.timeout) : subscription_timeout_src' = t
    /\ UNCHANGED <<subscribed, listening, seq, made, inbox, disposed_proxy, application>>

\* faulty: the renewal timer is left running
ResponseLostTimed(r) ==
    /\ \E st \in {"no-sid", "failed"} : GotResponse(r, st)
    /\ subscribed
    /\ sid' = NoSid
    /\ listening' = FALSE
    /\ subscribed' = FALSE
    /\ UNCHANGED <<subscription_timeout_src, seq, made, inbox, disposed_proxy,
                   application>>

\* Success without a SID, or refusal: subscription-lost
ResponseLost(r) ==
    /\ \E st \in {"no-sid", "failed"} : GotResponse(r, st)
    /\ subscribed
    /\ sid' = NoSid
    /\ subscription_timeout_src' = Off
    /\ listening' = FALSE
    /\ subscribed' = FALSE
    /\ UNCHANGED <<seq, made, inbox, disposed_proxy, application>>

\* G_IO_ERROR_CANCELLED, after dispose()
ResponseCancelled(r) ==
    /\ disposed_proxy
    /\ r.method # "UNSUBSCRIBE"
    /\ requests' = requests \ {r}
    /\ UNCHANGED <<subscription, seq, made, inbox, disposed_proxy, application>>

Response(r) ==
    \/ ResponseError(r)
    \/ ResponseUnwanted(r)
    \/ ResponseOk(r)
    \/ ResponseLost(r)
    \/ ResponseCancelled(r)

-----------------------------------------------------------------------------
(* The environment of one proxy: any service, any network.                 *)

Answer(r, reply) ==
    /\ r.reply = Unanswered
    /\ requests' = (requests \ {r}) \cup {[r EXCEPT !.reply = reply]}
    /\ UNCHANGED <<subscription, seq, made, inbox, disposed_proxy, application>>

AnyReply ==
    [status : {"ok"}, sid : SIDs, timeout : Timeouts \cup {NoTimeout}]
    \cup [status : {"no-sid", "failed", "error"}, sid : {NoSid}, timeout : {NoTimeout}]

\* An UNSUBSCRIBE is sent without a callback and forgotten.
Forget(r) ==
    /\ r.method = "UNSUBSCRIBE"
    /\ requests' = requests \ {r}
    /\ UNCHANGED <<subscription, seq, made, inbox, disposed_proxy, application>>

Tick ==
    /\ subscription_timeout_src > 0
    /\ subscription_timeout_src' = subscription_timeout_src - 1
    /\ UNCHANGED <<subscribed, sid, listening, seq, outbox, inbox, disposed_proxy,
                   application>>

Environment ==
    \/ \E r \in requests, reply \in AnyReply :
          r.method # "UNSUBSCRIBE" /\ Answer(r, reply)
    \/ \E r \in requests : Forget(r)
    \/ \E e \in Event : Len(pending_notifies) < MaxPending /\ Notify(e)
    \/ Tick

Application ==
    \/ SetSubscribed
    \/ SetUnsubscribed
    \/ Dispose

Emit ==
    \/ EmitStart
    \/ EmitEvent
    \/ CallbackReturns
    \/ EmitMissed
    \/ EmitDone

MainLoop ==
    \/ Emit
    \/ SubscriptionExpire
    \/ \E r \in requests : Response(r)

Next ==
    \/ Environment
    \/ Application
    \/ MainLoop

Spec == Init /\ [][Next]_proxyvars

-----------------------------------------------------------------------------
(* Properties.                                                             *)

\* The assertion of subscription_expire(): whatever the order of answers and
\* calls, the renewal timer never fires without a SID to renew.
ExpiryHasSid == subscription_timeout_src # Off => sid # NoSid

\* A proxy that says it is subscribed has its handler on the server, after
\* any mix of failed, late and repeated subscriptions.
SubscribedListens == subscribed => listening

\* emit_notifications() puts itself off, again and again, while the proxy is
\* subscribed without a SID: the answer it waits for is then on its way.
DelayedForAnAnswer ==
    subscribed /\ sid = NoSid => \E r \in requests : r.method # "UNSUBSCRIBE"

\* An event in the queue has an idle source that will look at it.
PendingIsScheduled == pending_notifies # <<>> => notify_idle_src

\* A disposed proxy leaves nothing behind that would call it.
NothingAfterDispose ==
    disposed_proxy => /\ subscription_timeout_src = Off
                      /\ ~notify_idle_src
                      /\ ~listening

\* The proxy asks for a subscription only while the application wants one.
SubscribesOnlyIfWanted ==
    [][(\E r \in requests' \ requests : r.reply = Unanswered /\ r.method = "SUBSCRIBE")
          => subscribed']_proxyvars
=============================================================================
