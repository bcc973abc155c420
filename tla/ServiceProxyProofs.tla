------------------------- MODULE ServiceProxyProofs -------------------------
(***************************************************************************)
(* Proofs about ServiceProxy, for any service and any network: whatever    *)
(* SIDs, timeouts, events and answers come, in whatever order.             *)
(***************************************************************************)
EXTENDS ServiceProxy, TLAPS

-----------------------------------------------------------------------------
(* Helpers.                                                                *)

\* The renewal timer of any period is a number of seconds that can be waited.
LEMMA RenewalTimesType ==
    ASSUME NEW t \in Nat
    PROVE  RenewalTimes(t) \subseteq Nat
<1>1. t \div 2 \in Nat /\ t \div 4 \in Nat /\ t \div 2 >= t \div 4
  OBVIOUS
<1> QED BY <1>1 DEF RenewalTimes

\* The requests of one step are well-formed, when there is room for them.
LEMMA NewRequestType ==
    ASSUME made \in Nat, NEW n \in 1 .. 2, made + n <= MaxRequests,
           NEW method \in {"SUBSCRIBE", "RENEW", "UNSUBSCRIBE"}, NEW s \in SIDs \cup {NoSid}
    PROVE  NewRequest(n, method, s) \in Request /\ NewRequest(n, method, s).method = method
BY ServiceProxyAssumption DEF NewRequest, Request, Unanswered, Replies, NoTimeout

LEMMA FarewellType ==
    ASSUME TypeOK, MayRequest(Farewells)
    PROVE  /\ Farewell \subseteq Request
           /\ Farewells \in 0 .. 1
           /\ made + Farewells \in 0 .. MaxRequests
BY NewRequestType, ServiceProxyAssumption DEF TypeOK, Farewell, Farewells, MayRequest

\* unsubscribe() leaves a sequence number in range, and 0 if there was a SID.
LEMMA SeqAfterUnsubscribeType ==
    ASSUME TypeOK
    PROVE  SeqAfterUnsubscribe(seq) \in 0 .. G_MAXUINT32
BY ServiceProxyAssumption DEF TypeOK, SeqAfterUnsubscribe

-----------------------------------------------------------------------------
(* The inductive invariant.                                                *)

\* A disposed proxy is not subscribed, and an answer that says "ok" has a SID.
Sane ==
    /\ disposed_proxy => ~subscribed
    /\ \A r \in requests : r.reply.status = "ok" => r.reply.sid # NoSid

IInv ==
    /\ TypeOK
    /\ Sane
    /\ ExpiryHasSid
    /\ SubscribedListens
    /\ DelayedForAnAnswer
    /\ PendingIsScheduled

LEMMA IInvInit == Init => IInv
<1> SUFFICES ASSUME Init PROVE IInv
  OBVIOUS
<1>1. TypeOK
  <2>1. seq \in 0 .. G_MAXUINT32 /\ made \in 0 .. MaxRequests
    BY ServiceProxyAssumption DEF Init
  <2>2. heard \in [SIDs -> (0 .. G_MAXUINT32) \cup {Nothing}]
    BY DEF Init
  <2>3. pending_notifies \in Seq(Event)
    BY DEF Init
  <2> QED BY <2>1, <2>2, <2>3 DEF Init, TypeOK
<1> QED
  BY <1>1 DEF Init, IInv, Sane, ExpiryHasSid, SubscribedListens, DelayedForAnAnswer,
     PendingIsScheduled

LEMMA TypeStep == TypeOK /\ [Next]_proxyvars => TypeOK'
<1> SUFFICES ASSUME TypeOK, [Next]_proxyvars PROVE TypeOK'
  OBVIOUS
<1>0. /\ made \in Nat
      /\ sid \in SIDs \cup {NoSid}
      /\ requests \subseteq Request
      /\ SeqAfterUnsubscribe(seq) \in 0 .. G_MAXUINT32
  BY ServiceProxyAssumption, SeqAfterUnsubscribeType DEF TypeOK
<1>1. CASE SetSubscribed
  <2>1. NewRequest(1, "SUBSCRIBE", NoSid) \in Request /\ made + 1 \in 0 .. MaxRequests
    BY <1>0, <1>1, NewRequestType, ServiceProxyAssumption DEF SetSubscribed, MayRequest
  <2> QED
    BY <1>1, <2>1 DEF SetSubscribed, TypeOK, inbox, application
<1>2. CASE SetUnsubscribed
  <2>1. Farewell \subseteq Request /\ made + Farewells \in 0 .. MaxRequests
    BY <1>2, FarewellType DEF SetUnsubscribed
  <2> QED
    BY <1>0, <1>2, <2>1 DEF SetUnsubscribed, TypeOK, inbox, application
<1>3. CASE Dispose
  <2>1. pending_notifies' = <<>> /\ <<>> \in Seq(Event)
    BY <1>3 DEF Dispose
  <2>2. CASE subscribed
    <3>1. Farewell \subseteq Request /\ made + Farewells \in 0 .. MaxRequests
      BY <1>3, <2>2, FarewellType DEF Dispose
    <3>2. requests' \subseteq Request /\ made' \in 0 .. MaxRequests
          /\ seq' \in 0 .. G_MAXUINT32
      BY <1>0, <1>3, <2>2, <3>1 DEF Dispose
    <3> QED
      BY <1>3, <2>1, <2>2, <3>2 DEF Dispose, TypeOK, application
  <2>3. CASE ~subscribed
    <3>1. UNCHANGED <<requests, made, sid, seq, subscription_timeout_src>>
      BY <1>3, <2>3 DEF Dispose, outbox
    <3> QED
      BY <1>3, <2>1, <3>1 DEF Dispose, TypeOK, application
  <2> QED BY <2>2, <2>3
<1>4. ASSUME NEW e \in Event, Notify(e) PROVE TypeOK'
  <2>1. ASSUME sid = NoSid
        PROVE  pending_notifies' \in Seq(Event) /\ notify_idle_src' \in BOOLEAN
    BY <1>4, <2>1 DEF Notify, TypeOK
  <2>2. ASSUME sid # NoSid
        PROVE  pending_notifies' \in Seq(Event) /\ notify_idle_src' \in BOOLEAN
    <3>1. pending_notifies' = Append(pending_notifies, e) /\ notify_idle_src' = TRUE
      BY <1>4, <2>2 DEF Notify
    <3>2. Append(pending_notifies, e) \in Seq(Event)
      BY DEF TypeOK
    <3> QED BY <3>1, <3>2
  <2>3. pending_notifies' \in Seq(Event) /\ notify_idle_src' \in BOOLEAN
    BY <2>1, <2>2
  <2> QED
    BY <1>4, <2>3 DEF Notify, TypeOK, subscription, outbox, application
<1>5. CASE EmitStart \/ CallbackReturns \/ EmitDone
  BY <1>5 DEF EmitStart, CallbackReturns, EmitDone, TypeOK, subscription, outbox, application
<1>6. CASE EmitEvent
  <2> DEFINE e == Head(pending_notifies)
  <2>1. e \in Event /\ Tail(pending_notifies) \in Seq(Event)
    BY <1>6 DEF EmitEvent, TypeOK
  <2>2. e.sid \in SIDs /\ e.seq \in 0 .. G_MAXUINT32 /\ e.doc \in Docs
    BY <2>1 DEF Event
  <2>3. NextSeq(seq) \in 0 .. G_MAXUINT32
    BY ServiceProxyAssumption DEF TypeOK, NextSeq
  <2>4. CASE e.sid = sid
    <3>1. /\ emission' = "callback" /\ shown' = e.doc
          /\ heard' = [heard EXCEPT ![sid] = e.seq]
          /\ seq' = NextSeq(seq) /\ pending_notifies' = Tail(pending_notifies)
          /\ UNCHANGED <<subscription, outbox, notify_idle_src, disposed_proxy>>
      BY <1>6, <2>4 DEF EmitEvent
    <3> HIDE DEF e
    <3>2. heard' \in [SIDs -> (0 .. G_MAXUINT32) \cup {Nothing}]
      BY <2>2, <3>1 DEF TypeOK
    <3> QED
      BY <2>1, <2>2, <2>3, <3>1, <3>2 DEF TypeOK, subscription, outbox
  <2>5. CASE e.sid # sid
    BY <1>6, <2>1, <2>3, <2>5 DEF EmitEvent, TypeOK, subscription, outbox, application
  <2> QED BY <2>4, <2>5
<1>7. CASE EmitMissed
  <2>1. made + Farewells + 1 <= MaxRequests /\ MayRequest(Farewells)
    BY <1>0, <1>7, ServiceProxyAssumption DEF EmitMissed, MayRequest, Farewells
  <2>2. /\ Farewell \subseteq Request
        /\ Farewells \in 0 .. 1
        /\ made + Farewells + 1 \in 0 .. MaxRequests
    BY <1>0, <2>1, FarewellType, ServiceProxyAssumption
  <2>3. NewRequest(Farewells + 1, "SUBSCRIBE", NoSid) \in Request
    <3>1. Farewells + 1 \in 1 .. 2 /\ made + (Farewells + 1) <= MaxRequests
      BY <1>0, <2>1, <2>2
    <3> QED BY <1>0, <3>1, NewRequestType
  <2>4. pending_notifies' = <<>> /\ <<>> \in Seq(Event)
    BY <1>7 DEF EmitMissed
  <2>5. requests' \subseteq Request /\ made' \in 0 .. MaxRequests /\ seq' \in 0 .. G_MAXUINT32
    BY <1>0, <1>7, <2>2, <2>3 DEF EmitMissed
  <2> QED
    BY <1>7, <2>4, <2>5 DEF EmitMissed, TypeOK, application
<1>8. CASE SubscriptionExpire
  <2>1. CASE sid = NoSid
    <3>1. UNCHANGED outbox
      BY <1>8, <2>1 DEF SubscriptionExpire
    <3> QED
      BY <1>8, <3>1 DEF SubscriptionExpire, TypeOK, outbox, inbox, application
  <2>2. CASE sid # NoSid
    <3>1. MayRequest(1)
      BY <1>8, <2>2 DEF SubscriptionExpire
    <3>2. NewRequest(1, "RENEW", sid) \in Request /\ made + 1 \in 0 .. MaxRequests
      BY <1>0, <3>1, NewRequestType, ServiceProxyAssumption DEF MayRequest
    <3> QED
      BY <1>8, <2>2, <3>2 DEF SubscriptionExpire, TypeOK, inbox, application
  <2> QED BY <2>1, <2>2
<1>9. ASSUME NEW r \in requests, Response(r) PROVE TypeOK'
  <2>1. requests' \subseteq Request
    BY <1>0, <1>9 DEF Response, ResponseError, ResponseUnwanted, ResponseOk, ResponseLost,
       ResponseCancelled, GotResponse
  <2>2. CASE ResponseOk(r)
    <3>1. r.reply.sid \in SIDs \cup {NoSid} /\ r.reply.timeout \in Timeouts \cup {NoTimeout}
      BY <1>0 DEF Request, Replies
    <3>2. subscription_timeout_src' \in Nat \cup {Off}
      BY <2>2, <3>1, RenewalTimesType, ServiceProxyAssumption DEF ResponseOk
    <3> QED
      BY <2>1, <2>2, <3>1, <3>2 DEF ResponseOk, TypeOK, inbox, application
  <2> QED
    BY <1>9, <2>1, <2>2 DEF Response, ResponseError, ResponseUnwanted, ResponseLost,
       ResponseCancelled, TypeOK, subscription, inbox, application
<1>10. ASSUME NEW r \in requests, NEW reply \in AnyReply, Answer(r, reply) PROVE TypeOK'
  <2>1. reply \in Replies
    BY <1>10 DEF AnyReply, Replies
  <2>2. [r EXCEPT !.reply = reply] \in Request
    BY <1>0, <2>1 DEF Request
  <2>3. requests' \subseteq Request
    BY <1>0, <1>10, <2>2 DEF Answer
  <2> QED
    BY <1>10, <2>3 DEF Answer, TypeOK, subscription, inbox, application
<1>11. ASSUME NEW r \in requests, Forget(r) PROVE TypeOK'
  BY <1>11 DEF Forget, TypeOK, subscription, inbox, application
<1>12. CASE Tick
  BY <1>12 DEF Tick, TypeOK, outbox, inbox, application
<1>13. CASE UNCHANGED proxyvars
  BY <1>13 DEF TypeOK, proxyvars
<1> QED
  BY <1>1, <1>2, <1>3, <1>4, <1>5, <1>6, <1>7, <1>8, <1>9, <1>10, <1>11, <1>12, <1>13
  DEF Next, Environment, Application, MainLoop, Emit

LEMMA IInvStep == IInv /\ [Next]_proxyvars => IInv'
<1> SUFFICES ASSUME IInv, [Next]_proxyvars
             PROVE  /\ Sane'
                    /\ ExpiryHasSid'
                    /\ SubscribedListens'
                    /\ DelayedForAnAnswer'
                    /\ PendingIsScheduled'
  BY TypeStep DEF IInv
<1> DEFINE Kept == /\ Sane'
                   /\ ExpiryHasSid'
                   /\ SubscribedListens'
                   /\ DelayedForAnAnswer'
                   /\ PendingIsScheduled'
<1> USE DEF Sane, ExpiryHasSid, SubscribedListens, DelayedForAnAnswer, PendingIsScheduled
<1>0. /\ \A n : \A method, s : /\ NewRequest(n, method, s).reply.status = "none"
                                /\ NewRequest(n, method, s).method = method
      /\ \A r \in Farewell : r.reply.status = "none"
  BY DEF NewRequest, Unanswered, Farewell
<1>1. CASE SetSubscribed
  BY <1>0, <1>1 DEF SetSubscribed, IInv, inbox
<1>2. CASE SetUnsubscribed
  BY <1>0, <1>2 DEF SetUnsubscribed, IInv, inbox
<1>3. CASE Dispose
  <2>1. CASE subscribed
    BY <1>0, <1>3, <2>1 DEF Dispose, IInv
  <2>2. CASE ~subscribed
    BY <1>3, <2>2 DEF Dispose, IInv, outbox
  <2> QED BY <2>1, <2>2
<1>4. ASSUME NEW e \in Event, Notify(e) PROVE Kept
  BY <1>4 DEF Notify, IInv, subscription, outbox
<1>5. CASE EmitStart \/ CallbackReturns \/ EmitDone
  BY <1>5 DEF EmitStart, CallbackReturns, EmitDone, IInv, subscription, outbox
<1>6. CASE EmitEvent
  BY <1>6 DEF EmitEvent, IInv, subscription, outbox
<1>7. CASE EmitMissed
  BY <1>0, <1>7 DEF EmitMissed, IInv
<1>8. CASE SubscriptionExpire
  BY <1>0, <1>8 DEF SubscriptionExpire, IInv, inbox, outbox
<1>9. ASSUME NEW r \in requests, Response(r) PROVE Kept
  <2>1. CASE ResponseOk(r)
    BY <2>1 DEF ResponseOk, GotResponse, IInv, inbox
  <2>2. CASE ResponseError(r) \/ ResponseUnwanted(r) \/ ResponseLost(r) \/ ResponseCancelled(r)
    BY <2>2 DEF ResponseError, ResponseUnwanted, ResponseLost, ResponseCancelled, GotResponse,
       IInv, inbox, subscription
  <2> QED
    BY <1>9, <2>1, <2>2 DEF Response
<1>10. ASSUME NEW r \in requests, NEW reply \in AnyReply, Answer(r, reply),
              r.method # "UNSUBSCRIBE"
       PROVE  Kept
  <2> DEFINE a == [r EXCEPT !.reply = reply]
  <2>1. requests' = (requests \ {r}) \cup {a}
        /\ UNCHANGED <<subscription, seq, made, inbox, disposed_proxy, application>>
    BY <1>10 DEF Answer
  <2>2. a.method = r.method /\ a.reply = reply
    BY DEF IInv, TypeOK, Request
  <2>3. reply.status = "ok" => reply.sid # NoSid
    BY ServiceProxyAssumption DEF AnyReply
  <2> HIDE DEF a
  <2> QED
    BY <1>10, <2>1, <2>2, <2>3 DEF IInv, subscription, inbox
<1>11. ASSUME NEW r \in requests, Forget(r) PROVE Kept
  BY <1>11 DEF Forget, IInv, subscription, inbox
<1>12. CASE Tick
  BY <1>12 DEF Tick, IInv, TypeOK, Off, outbox, inbox
<1>13. CASE UNCHANGED proxyvars
  BY <1>13 DEF IInv, proxyvars
<1> QED
  BY <1>1, <1>2, <1>3, <1>4, <1>5, <1>6, <1>7, <1>8, <1>9, <1>10, <1>11, <1>12, <1>13
  DEF Next, Environment, Application, MainLoop, Emit

LEMMA Invariance == Spec => []IInv
<1> QED BY IInvInit, IInvStep, PTL DEF Spec

-----------------------------------------------------------------------------
(* What follows from it.                                                   *)

\* Type correctness: no step of the proxy, whatever the service answers,
\* leaves a key out of range or a timer that cannot be waited for.
THEOREM TypeCorrect == Spec => []TypeOK
<1>1. IInv => TypeOK
  BY DEF IInv
<1> QED BY <1>1, Invariance, PTL

\* The assertion of subscription_expire() holds: the renewal timer never fires
\* without a SID, however many SUBSCRIBEs and renewals cross.
THEOREM RenewalHasSid == Spec => []ExpiryHasSid
<1>1. IInv => ExpiryHasSid
  BY DEF IInv
<1> QED BY <1>1, Invariance, PTL

\* A subscribed proxy can be reached by the service.
THEOREM SubscribedIsReachable == Spec => []SubscribedListens
<1>1. IInv => SubscribedListens
  BY DEF IInv
<1> QED BY <1>1, Invariance, PTL

\* emit_notifications() puts itself off only while an answer is on its way.
THEOREM DelayHasReason == Spec => []DelayedForAnAnswer
<1>1. IInv => DelayedForAnAnswer
  BY DEF IInv
<1> QED BY <1>1, Invariance, PTL

\* No event is left in the queue with nobody to look at it.
THEOREM QueueIsLookedAt == Spec => []PendingIsScheduled
<1>1. IInv => PendingIsScheduled
  BY DEF IInv
<1> QED BY <1>1, Invariance, PTL

\* The renewal of subscribe_got_response() comes before the end of the period
\* and not at once, for every period of at least two seconds and every jitter.
THEOREM RenewalBeforeTheEnd ==
    ASSUME NEW t \in Nat, t >= 2
    PROVE  RenewalTimes(t) \subseteq 1 .. t - 1
<1>1. /\ t \div 2 \in Nat /\ t \div 4 \in Nat
      /\ t \div 2 - t \div 4 >= 1
      /\ t \div 2 + t \div 4 <= t
      /\ t \div 2 <= t - 1
  OBVIOUS
<1> QED BY <1>1 DEF RenewalTimes
=============================================================================
