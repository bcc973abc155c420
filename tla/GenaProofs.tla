----------------------------- MODULE GenaProofs -----------------------------
(***************************************************************************)
(* Proofs about Gena.  Each end takes steps of its own specification, so   *)
(* what ServiceProofs and ServiceProxyProofs prove of the ends holds in    *)
(* the whole, too.  The invariants below are about both ends: the renewal, *)
(* and the events on their way from one to the other.                      *)
(***************************************************************************)
EXTENDS Gena, TLAPS

SP == INSTANCE ServiceProofs WITH MaxCallbacks <- 1
PP == INSTANCE ServiceProxyProofs
          WITH Docs <- -1 .. MaxValue, Timeouts <- {SUBSCRIPTION_TIMEOUT}

-----------------------------------------------------------------------------
(* The ends.                                                               *)

\* What the two modules assume of their constants holds here.
LEMMA EndsAssumption == SP!ServiceAssumption /\ PP!ServiceProxyAssumption
BY GenaAssumption DEF SP!ServiceAssumption, PP!ServiceProxyAssumption

LEMMA ServiceNext == S!Next => SP!Next
BY Zenon DEF S!Next, SP!Next, S!Requests, SP!Requests, S!Application, SP!Application,
   S!MainLoop, SP!MainLoop, S!Network, SP!Network, S!NotifyValue, SP!NotifyValue,
   S!NotifySubscribers, SP!NotifySubscribers, S!table, SP!table, S!queues, SP!queues,
   S!setup, SP!setup, S!CanDelete, SP!CanDelete, S!NextSeq, SP!NextSeq, S!Message,
   SP!Message, S!Subscribe, SP!Subscribe, S!Resubscribe, SP!Resubscribe, S!Unsubscribe,
   SP!Unsubscribe, S!UnsubscribeEarly, SP!UnsubscribeEarly, S!NotifyFrozen,
   SP!NotifyFrozen, S!FreezeNotify, SP!FreezeNotify, S!ThawNotify, SP!ThawNotify,
   S!RootDeviceUnavailable, SP!RootDeviceUnavailable, S!Dispose, SP!Dispose,
   S!GotIntrospection, SP!GotIntrospection, S!Tick, SP!Tick, S!SubscriptionTimeout,
   SP!SubscriptionTimeout, S!Response, SP!Response, S!ResponseCancelled,
   SP!ResponseCancelled, S!ResponseOk, SP!ResponseOk, S!ResponsePreconditionFailed,
   SP!ResponsePreconditionFailed, S!ResponseTryNext, SP!ResponseTryNext,
   S!ResponseNotifyFailed, SP!ResponseNotifyFailed, S!GotResponse, SP!GotResponse,
   S!Unlink, SP!Unlink, S!Freed, SP!Freed, S!Zeroed, SP!Zeroed, S!InitialState,
   SP!InitialState, S!Answer, SP!Answer, S!Before, SP!Before, S!RemoveSubscriptions,
   SP!RemoveSubscriptions, S!Empty, SP!Empty, S!Unarmed, SP!Unarmed, S!Statuses,
   SP!Statuses

LEMMA ProxyNext == P!Next => PP!Next
BY Zenon DEF P!Next, PP!Next, P!Environment, PP!Environment, P!Application,
   PP!Application, P!MainLoop, PP!MainLoop, P!Emit, PP!Emit, P!Answer, PP!Answer,
   P!AnyReply, PP!AnyReply, P!Forget, PP!Forget, P!Event, PP!Event, P!Notify, PP!Notify,
   P!Tick, PP!Tick, P!SetSubscribed, PP!SetSubscribed, P!SetUnsubscribed,
   PP!SetUnsubscribed, P!Dispose, PP!Dispose, P!EmitStart, PP!EmitStart, P!EmitEvent,
   PP!EmitEvent, P!EmitDone, PP!EmitDone, P!EmitMissed, PP!EmitMissed,
   P!CallbackReturns, PP!CallbackReturns, P!SubscriptionExpire, PP!SubscriptionExpire,
   P!Response, PP!Response, P!ResponseOk, PP!ResponseOk, P!ResponseError,
   PP!ResponseError, P!ResponseUnwanted, PP!ResponseUnwanted, P!ResponseLost,
   PP!ResponseLost, P!ResponseCancelled, PP!ResponseCancelled, P!GotResponse,
   PP!GotResponse, P!RenewalTimes, PP!RenewalTimes, P!NextSeq, PP!NextSeq,
   P!MainLoopFree, PP!MainLoopFree, P!MayRequest, PP!MayRequest, P!Farewell, PP!Farewell,
   P!Farewells, PP!Farewells, P!SeqAfterUnsubscribe, PP!SeqAfterUnsubscribe,
   P!NewRequest, PP!NewRequest, P!Unanswered, PP!Unanswered, P!NoTimeout, PP!NoTimeout,
   P!Off, PP!Off, P!subscription, PP!subscription, P!outbox, PP!outbox, P!inbox,
   PP!inbox, P!application, PP!application

\* A message becomes an event the proxy can be sent.
LEMMA EventOfType ==
    ASSUME SP!TypeOK, NEW m \in wire
    PROVE  EventOf(m) \in P!Event
<1>1. m.sid \in SIDs /\ m.seq \in 0 .. G_MAXINT32 /\ m.body \in -1 .. MaxValue
  BY DEF SP!TypeOK, SP!Notification, SP!Values
<1>2. m.seq \in 0 .. G_MAXUINT32
  BY <1>1, GenaAssumption
<1> QED BY <1>1, <1>2 DEF EventOf, P!Event

LEMMA AnswersAreReplies ==
    /\ \A s \in SIDs : Ok(s) \in P!AnyReply
    /\ Refused \in P!AnyReply /\ Error \in P!AnyReply
BY DEF Ok, Refused, Error, P!AnyReply, P!NoTimeout

LEMMA ServiceStepIsNext == ServiceStep => S!Next /\ UNCHANGED pvars
BY Zenon DEF ServiceStep, S!Next, S!Application, S!MainLoop

LEMMA ProxyStepIsNext == ProxyStep => P!Next /\ UNCHANGED svars
BY Zenon DEF ProxyStep, P!Next, P!Application, P!MainLoop

LEMMA TickIsNext ==
    Tick => (S!Next \/ UNCHANGED svars) /\ (P!Next \/ UNCHANGED pvars)
BY Zenon DEF Tick, S!Next, S!MainLoop, P!Next, P!Environment

LEMMA AnsweredIsNext ==
    ASSUME NEW r \in requests, r.method # "UNSUBSCRIBE", NEW reply \in P!AnyReply,
           Answered(r, reply)
    PROVE  P!Next
BY AnswersAreReplies, Zenon DEF Answered, P!Next, P!Environment

LEMMA ServeIsNext ==
    ASSUME Serve, SP!TypeOK
    PROVE  (S!Next \/ UNCHANGED svars) /\ P!Next
<1>1. PICK r \in requests :
         ServeSubscribe(r) \/ ServeRenew(r) \/ ServeUnsubscribe(r) \/ RequestLost(r)
  BY DEF Serve
<1>0. subscriptions \subseteq SIDs
  BY DEF SP!TypeOK
<1>2. CASE ServeSubscribe(r)
  <2>1. PICK s \in SIDs : S!Subscribe(s, 1) /\ Answered(r, Ok(s)) /\ r.method # "UNSUBSCRIBE"
    BY <1>2 DEF ServeSubscribe
  <2>2. S!Next
    <3>1. 1 \in 1 .. 1
      OBVIOUS
    <3> QED BY <2>1, <3>1, Zenon DEF S!Next, S!Requests
  <2> QED BY <2>1, <2>2, AnswersAreReplies, AnsweredIsNext
<1>3. CASE ServeRenew(r)
  <2>1. r.method # "UNSUBSCRIBE"
    BY <1>3 DEF ServeRenew
  <2>2. CASE S!Resubscribe(r.sid) /\ Answered(r, Ok(r.sid))
    <3>1. r.sid \in SIDs
      BY <1>0, <2>2 DEF S!Resubscribe
    <3>2. S!Next
      BY <2>2, <3>1, Zenon DEF S!Next, S!Requests
    <3> QED BY <2>1, <2>2, <3>1, <3>2, AnswersAreReplies, AnsweredIsNext
  <2>3. CASE Answered(r, Refused) /\ UNCHANGED svars
    BY <2>1, <2>3, AnswersAreReplies, AnsweredIsNext
  <2> QED BY <1>3, <2>2, <2>3 DEF ServeRenew
<1>4. CASE ServeUnsubscribe(r)
  <2>1. P!Next
    BY <1>4, Zenon DEF ServeUnsubscribe, P!Next, P!Environment
  <2>2. CASE S!Unsubscribe(r.sid)
    <3>1. r.sid \in SIDs
      BY <1>0, <2>2 DEF S!Unsubscribe
    <3> QED BY <2>1, <2>2, <3>1, Zenon DEF S!Next, S!Requests
  <2>3. CASE S!UnsubscribeEarly(r.sid)
    <3>1. r.sid \in SIDs
      BY <1>0, <2>3 DEF S!UnsubscribeEarly
    <3> QED BY <2>1, <2>3, <3>1, Zenon DEF S!Next, S!Requests
  <2>4. CASE UNCHANGED svars
    BY <2>1, <2>4
  <2> QED BY <1>4, <2>2, <2>3, <2>4, Zenon DEF ServeUnsubscribe
<1>5. CASE RequestLost(r)
  <2>1. CASE r.method = "UNSUBSCRIBE"
    BY <1>5, <2>1, Zenon DEF RequestLost, P!Next, P!Environment
  <2>2. CASE r.method # "UNSUBSCRIBE"
    <3>1. P!Answer(r, Error) /\ UNCHANGED svars
      BY <1>5, <2>2, Zenon DEF RequestLost
    <3> QED BY <2>2, <3>1, AnswersAreReplies, Zenon DEF P!Next, P!Environment
  <2> QED BY <2>1, <2>2
<1> QED BY <1>1, <1>2, <1>3, <1>4, <1>5

LEMMA NetworkIsNext ==
    ASSUME Network, SP!TypeOK
    PROVE  S!Next /\ (P!Next \/ UNCHANGED pvars)
<1>1. PICK m \in wire : Deliver(m) \/ Rejected(m) \/ NotifyLost(m)
  BY DEF Network
<1>2. "ok" \in S!Statuses \ {"none"} /\ "failure" \in S!Statuses \ {"none"}
  BY DEF S!Statuses
<1>3. \/ \E st \in {"ok", "failure"} : S!Answer(m, st, TRUE)
      \/ S!Answer(m, "failure", FALSE)
  BY <1>1, Zenon DEF Deliver, Rejected, NotifyLost
<1>4. S!Next
  BY <1>2, <1>3, Zenon DEF S!Next, S!Network
<1>5. CASE Deliver(m)
  <2>1. EventOf(m) \in P!Event
    BY EventOfType
  <2> QED BY <1>4, <1>5, <2>1, Zenon DEF Deliver, P!Next, P!Environment
<1>6. CASE Rejected(m) \/ NotifyLost(m)
  BY <1>4, <1>6, Zenon DEF Rejected, NotifyLost
<1> QED BY <1>1, <1>5, <1>6

\* A step of the whole is one of each end, or leaves it alone.
LEMMA StepOfTheEnds ==
    ASSUME SP!TypeOK, [Next]_allvars
    PROVE  [SP!Next]_(SP!vars) /\ [PP!Next]_(PP!proxyvars)
<1>1. (S!Next \/ UNCHANGED svars) /\ (P!Next \/ UNCHANGED pvars)
  <2>1. CASE ServiceStep
    BY <2>1, ServiceStepIsNext, Zenon
  <2>2. CASE ProxyStep
    BY <2>2, ProxyStepIsNext, Zenon
  <2>3. CASE Tick
    BY <2>3, TickIsNext, Zenon
  <2>4. CASE Serve
    BY <2>4, ServeIsNext, Zenon
  <2>5. CASE Network
    BY <2>5, NetworkIsNext, Zenon
  <2>6. CASE UNCHANGED allvars
    BY <2>6 DEF allvars
  <2> QED BY <2>1, <2>2, <2>3, <2>4, <2>5, <2>6, Zenon DEF Next
<1>2. svars = SP!vars /\ pvars = PP!proxyvars
  BY DEF svars, pvars, SP!vars, PP!proxyvars
<1> QED BY <1>1, <1>2, ServiceNext, ProxyNext, Zenon DEF svars, pvars, SP!vars, PP!proxyvars

\* What is known of the ends on their own.
Ends ==
    /\ SP!IInv
    /\ SP!InOrder
    /\ SP!AllInformed
    /\ PP!IInv

LEMMA EndsInit == Init => Ends
<1> SUFFICES ASSUME Init PROVE Ends
  OBVIOUS
<1>1. SP!InitWith(TRUE, FALSE)
  BY Zenon DEF Init, S!InitWith, SP!InitWith, S!Zeroed, SP!Zeroed, S!Unarmed, SP!Unarmed,
     S!Empty, SP!Empty
<1>2. PP!Init
  BY Zenon DEF Init, P!Init, PP!Init, P!Off, PP!Off, P!Nothing, PP!Nothing
<1>3. SP!IInv /\ SP!InOrder
  BY <1>1, SP!IInvInit, SP!InOrderInit, EndsAssumption DEF SP!ServiceAssumption
<1>4. SP!AllInformed
  BY <1>1 DEF SP!InitWith, SP!AllInformed
<1>5. PP!IInv
  BY <1>2, PP!IInvInit, EndsAssumption DEF PP!ServiceProxyAssumption
<1> QED BY <1>3, <1>4, <1>5 DEF Ends

LEMMA EndsStep == Ends /\ [Next]_allvars => Ends'
<1> SUFFICES ASSUME Ends, [Next]_allvars PROVE Ends'
  OBVIOUS
<1>1. SP!IInv /\ SP!InOrder /\ SP!AllInformed /\ PP!IInv
  BY DEF Ends
<1>2. SP!TypeOK
  BY <1>1 DEF SP!IInv
<1>3. [SP!Next]_(SP!vars) /\ [PP!Next]_(PP!proxyvars)
  BY <1>2, StepOfTheEnds
<1>4. SP!IInv'
  BY <1>1, <1>3, SP!IInvStep, EndsAssumption, Zenon DEF SP!ServiceAssumption
<1>5. SP!InOrder'
  BY <1>1, <1>3, <1>4, SP!InOrderStep, EndsAssumption DEF SP!ServiceAssumption
<1>6. SP!AllInformed'
  BY <1>1, <1>3, <1>4, SP!InformedStep, EndsAssumption DEF SP!ServiceAssumption
<1>7. PP!IInv'
  BY <1>1, <1>3, PP!IInvStep, EndsAssumption, Zenon DEF PP!ServiceProxyAssumption
<1> QED BY <1>4, <1>5, <1>6, <1>7 DEF Ends

LEMMA EndsHold == Spec => []Ends
<1> QED BY EndsInit, EndsStep, PTL DEF Spec

-----------------------------------------------------------------------------
(* The renewal is in time, when no request and no answer to one is lost:   *)
(* an answer that is lost leaves the proxy without a renewal timer.        *)

Used(s) == s \in subscriptions \cup cancelled

\* A SUBSCRIBE or a renewal is under way.
Asked == \E r \in requests : r.method # "UNSUBSCRIBE"

\* The subscription of an answer that waits for the proxy has all of its time
\* left, because the clock stands still.  Otherwise the renewal timer of the
\* proxy is due before the timer of its subscription.
Prompt ==
    /\ \A r \in requests :
          /\ r.reply.status # "error"
          /\ r.reply.status = "ok" =>
                /\ r.reply.timeout = SUBSCRIPTION_TIMEOUT
                /\ Used(r.reply.sid)
                /\ r.reply.sid \in subscriptions =>
                      timeout_src[r.reply.sid] = SUBSCRIPTION_TIMEOUT
    /\ sid # NoSid => subscribed /\ Used(sid)
    /\ sid # NoSid /\ sid \in subscriptions =>
          /\ timeout_src[sid] > 0
          /\ Asked \/ subscription_timeout_src \in 0 .. timeout_src[sid] - 1

\* What the service does on its own moves no timer of a subscription it keeps.
LEMMA ServiceKeepsTimers ==
    ASSUME SP!TypeOK, ServiceStep
    PROVE  /\ subscriptions' \subseteq subscriptions
           /\ \A s : Used(s) => Used(s)'
           /\ \A s \in subscriptions' : timeout_src'[s] = timeout_src[s]
<1>1. subscriptions \subseteq SIDs
  BY DEF SP!TypeOK
<1>2. CASE UNCHANGED <<subscriptions, cancelled, timeout_src>>
  BY <1>2 DEF Used
<1>3. CASE \E R : S!RemoveSubscriptions(R)
  BY <1>1, <1>3 DEF S!RemoveSubscriptions, Used
<1>4. \/ UNCHANGED <<subscriptions, cancelled, timeout_src>>
      \/ \E R : S!RemoveSubscriptions(R)
  BY Zenon DEF ServiceStep, S!NotifyValue, S!FreezeNotify, S!NotifyFrozen, S!ThawNotify,
     S!RootDeviceUnavailable, S!SubscriptionTimeout, S!Response, S!ResponseCancelled,
     S!ResponseOk, S!ResponsePreconditionFailed, S!ResponseTryNext,
     S!ResponseNotifyFailed, S!table
<1> QED BY <1>2, <1>3, <1>4

\* New requests are not answered.
LEMMA FarewellIsUnanswered ==
    /\ \A r \in P!Farewell : r.reply.status = "none"
    /\ \A n, s : P!NewRequest(n, "SUBSCRIBE", s).reply.status = "none"
    /\ \A n, s : P!NewRequest(n, "RENEW", s).reply.status = "none"
    /\ \A n, s : P!NewRequest(n, "RENEW", s).method = "RENEW"
BY DEF P!Farewell, P!NewRequest, P!Unanswered

LEMMA PromptInit == Init => Prompt
BY DEF Init, S!InitWith, P!Init, Prompt

\* The proxy on its own.
LEMMA ProxyKeepsPrompt ==
    ASSUME Ends, Prompt, SUBSCRIPTION_TIMEOUT >= 2, ProxyStep
    PROVE  Prompt'
<1>0. UNCHANGED svars
  BY DEF ProxyStep
<1>1. \A s : Used(s)' = Used(s)
  BY <1>0 DEF svars, Used
<1>2. CASE \/ P!SetSubscribed \/ P!SetUnsubscribed \/ P!EmitMissed
           \/ P!Dispose
  <2>1. sid' = NoSid
    BY <1>2 DEF P!SetSubscribed, P!SetUnsubscribed, P!EmitMissed, P!Dispose, Prompt
  <2>2. \A r \in requests' : r \in requests \/ r.reply.status = "none"
    BY <1>2, FarewellIsUnanswered
    DEF P!SetSubscribed, P!SetUnsubscribed, P!EmitMissed, P!Dispose, P!outbox
  <2> QED BY <1>0, <1>1, <2>1, <2>2 DEF Prompt, svars
<1>3. CASE P!EmitStart \/ P!EmitEvent \/ P!CallbackReturns \/ P!EmitDone
  <2>1. UNCHANGED <<sid, subscribed, requests, subscription_timeout_src>>
    BY <1>3 DEF P!EmitStart, P!EmitEvent, P!CallbackReturns, P!EmitDone, P!subscription,
       P!outbox
  <2> QED BY <1>0, <1>1, <2>1 DEF Prompt, svars, Asked
<1>4. CASE P!SubscriptionExpire
  <2>1. /\ sid' = sid /\ subscribed' = subscribed
        /\ sid # NoSid => requests' = requests \cup {P!NewRequest(1, "RENEW", sid)}
        /\ sid = NoSid => requests' = requests
    BY <1>4 DEF P!SubscriptionExpire, P!outbox
  <2>2. sid # NoSid => Asked'
    BY <2>1, FarewellIsUnanswered DEF Asked
  <2>3. \A r \in requests' : r \in requests \/ r.reply.status = "none"
    BY <2>1, FarewellIsUnanswered
  <2> QED BY <1>0, <1>1, <2>1, <2>2, <2>3 DEF Prompt, svars
<1>5. ASSUME NEW r \in requests, P!Response(r)
      PROVE  Prompt'
  <2>1. requests' = requests \ {r}
    BY <1>5 DEF P!Response, P!ResponseError, P!ResponseUnwanted, P!ResponseOk,
       P!ResponseLost, P!ResponseCancelled, P!GotResponse
  <2>2. CASE P!ResponseError(r)
    BY <2>2 DEF P!ResponseError, P!GotResponse, Prompt
  <2>3. CASE P!ResponseUnwanted(r) \/ P!ResponseLost(r) \/ P!ResponseCancelled(r)
    <3>1. ~subscribed => sid = NoSid
      BY DEF Prompt
    <3>2. disposed_proxy => ~subscribed
      BY DEF Ends, PP!IInv, PP!Sane
    <3>3. sid' = NoSid
      BY <2>3, <3>1, <3>2
      DEF P!ResponseUnwanted, P!ResponseLost, P!ResponseCancelled, P!subscription
    <3> QED BY <1>0, <1>1, <2>1, <3>3 DEF Prompt, svars
  <2>4. CASE P!ResponseOk(r)
    <3>1. /\ r.reply.status = "ok" /\ subscribed' /\ sid' = r.reply.sid
          /\ r.reply.timeout = SUBSCRIPTION_TIMEOUT
      BY <2>4 DEF P!ResponseOk, P!GotResponse, Prompt
    <3>2. SUBSCRIPTION_TIMEOUT # P!NoTimeout /\ SUBSCRIPTION_TIMEOUT \in Nat
      BY GenaAssumption DEF P!NoTimeout
    <3>3. P!RenewalTimes(SUBSCRIPTION_TIMEOUT) \subseteq 1 .. SUBSCRIPTION_TIMEOUT - 1
      BY <3>2, PP!RenewalBeforeTheEnd, EndsAssumption, Zenon
      DEF PP!ServiceProxyAssumption, P!RenewalTimes, PP!RenewalTimes
    <3>4. subscription_timeout_src' \in 1 .. SUBSCRIPTION_TIMEOUT - 1
      BY <2>4, <3>1, <3>2, <3>3 DEF P!ResponseOk
    <3>5. Used(sid') /\ (sid' \in subscriptions => timeout_src[sid'] = SUBSCRIPTION_TIMEOUT)
      BY <3>1 DEF Prompt
    <3> QED BY <1>0, <1>1, <2>1, <3>1, <3>2, <3>4, <3>5 DEF Prompt, svars
  <2> QED BY <1>5, <2>2, <2>3, <2>4 DEF P!Response
<1> QED BY <1>2, <1>3, <1>4, <1>5 DEF ProxyStep, P!Emit

\* The clock.
LEMMA TickKeepsPrompt ==
    ASSUME Ends, Prompt, Tick
    PROVE  Prompt'
<1>1. /\ subscriptions \subseteq SIDs
      /\ \A s \in SIDs : timeout_src[s] \in {-1} \cup Nat
      /\ \A s \in subscriptions : timeout_src[s] # -1
      /\ subscription_timeout_src \in Nat \cup {-1}
  BY DEF Ends, SP!IInv, SP!TypeOK, SP!TimersMatchTable, SP!Unarmed, PP!IInv, PP!TypeOK,
     PP!Off
<1>2. /\ requests = {} /\ requests' = {} /\ UNCHANGED <<sid, subscribed>>
      /\ UNCHANGED <<subscriptions, cancelled>>
  BY DEF Tick, S!Tick, P!Tick, svars, pvars, P!outbox
<1>3. ~Asked /\ ~Asked' /\ \A s : Used(s)' = Used(s)
  BY <1>2 DEF Asked, Used
<1>4. CASE sid = NoSid \/ sid \notin subscriptions
  BY <1>2, <1>3, <1>4 DEF Prompt
<1>5. CASE sid # NoSid /\ sid \in subscriptions
  <2>1. /\ timeout_src[sid] \in Nat /\ timeout_src[sid] > 0
        /\ subscription_timeout_src \in 0 .. timeout_src[sid] - 1
    BY <1>1, <1>3, <1>5 DEF Prompt
  <2>2. S!Tick /\ P!Tick
    BY <1>1, <1>5, <2>1 DEF Tick, S!Unarmed, P!Off
  <2>3. /\ timeout_src'[sid] = timeout_src[sid] - 1
        /\ subscription_timeout_src > 0
        /\ subscription_timeout_src' = subscription_timeout_src - 1
    BY <1>1, <1>5, <2>1, <2>2 DEF S!Tick, S!Unarmed, P!Tick
  <2> QED BY <1>1, <1>2, <1>3, <1>5, <2>1, <2>3 DEF Prompt
<1> QED BY <1>4, <1>5

\* The requests.
LEMMA AnswerKeepsPrompt ==
    ASSUME Ends, Prompt, NEW r \in requests, NEW reply, P!Answer(r, reply),
           r.method # "UNSUBSCRIBE", reply.status # "error",
           UNCHANGED <<sid, subscribed, subscription_timeout_src>>,
           \A t : (Used(t) => Used(t)') /\ (Used(t) /\ t \in subscriptions' => t \in subscriptions),
           \A t \in subscriptions' : timeout_src'[t] \in {timeout_src[t], SUBSCRIPTION_TIMEOUT},
           reply.status = "ok" => /\ reply.timeout = SUBSCRIPTION_TIMEOUT
                                  /\ Used(reply.sid)'
                                  /\ timeout_src'[reply.sid] = SUBSCRIPTION_TIMEOUT
    PROVE  Prompt'
<1> DEFINE n == [r EXCEPT !.reply = reply]
<1>1. requests' = (requests \ {r}) \cup {n}
  BY DEF P!Answer
<1>2. n.reply = reply /\ n.method = r.method
  BY DEF Ends, PP!IInv, PP!TypeOK, PP!Request
<1>3. Asked'
  BY <1>1, <1>2 DEF Asked
<1> HIDE DEF n
<1>4. SUBSCRIPTION_TIMEOUT > 0
  BY GenaAssumption
<1>5. \A q \in requests' :
         /\ q.reply.status # "error"
         /\ q.reply.status = "ok" =>
               /\ q.reply.timeout = SUBSCRIPTION_TIMEOUT
               /\ Used(q.reply.sid)'
               /\ q.reply.sid \in subscriptions' =>
                     timeout_src'[q.reply.sid] = SUBSCRIPTION_TIMEOUT
  <2> SUFFICES ASSUME NEW q \in requests'
               PROVE  /\ q.reply.status # "error"
                      /\ q.reply.status = "ok" =>
                            /\ q.reply.timeout = SUBSCRIPTION_TIMEOUT
                            /\ Used(q.reply.sid)'
                            /\ q.reply.sid \in subscriptions' =>
                                  timeout_src'[q.reply.sid] = SUBSCRIPTION_TIMEOUT
    OBVIOUS
  <2>1. CASE q = n
    BY <1>2, <2>1
  <2>2. CASE q \in requests
    BY <2>2 DEF Prompt
  <2> QED BY <1>1, <2>1, <2>2
<1>6. sid # NoSid => subscribed' /\ Used(sid)'
  BY DEF Prompt
<1>7. sid # NoSid /\ sid \in subscriptions' => timeout_src'[sid] > 0
  BY <1>4 DEF Prompt
<1> QED BY <1>3, <1>5, <1>6, <1>7 DEF Prompt

LEMMA ServeKeepsPrompt ==
    ASSUME Ends, Prompt, Serve, Happens \cap {"request-lost", "answer-lost"} = {}
    PROVE  Prompt'
<1>0. subscriptions \subseteq SIDs /\ timeout_src = [s \in SIDs |-> timeout_src[s]]
  BY DEF Ends, SP!IInv, SP!TypeOK
<1>1. PICK r \in requests :
         /\ r.reply = P!Unanswered
         /\ ServeSubscribe(r) \/ ServeRenew(r) \/ ServeUnsubscribe(r) \/ RequestLost(r)
  BY DEF Serve
<1>2. UNCHANGED <<sid, subscribed, subscription_timeout_src>>
  BY <1>1 DEF ServeSubscribe, ServeRenew, ServeUnsubscribe, RequestLost, Answered,
     P!Answer, P!Forget, P!subscription
<1>3. CASE ServeSubscribe(r)
  <2>1. PICK s \in SIDs : S!Subscribe(s, 1) /\ P!Answer(r, Ok(s)) /\ r.method = "SUBSCRIBE"
    BY <1>3 DEF ServeSubscribe, Answered
  <2>2. /\ ~Used(s) /\ subscriptions' = subscriptions \cup {s} /\ cancelled' = cancelled
        /\ timeout_src' = [timeout_src EXCEPT ![s] = SUBSCRIPTION_TIMEOUT]
    BY <2>1 DEF S!Subscribe, Used
  <2>3. /\ \A t \in subscriptions' : timeout_src'[t] \in {timeout_src[t], SUBSCRIPTION_TIMEOUT}
        /\ timeout_src'[s] = SUBSCRIPTION_TIMEOUT
    BY <1>0, <2>2
  <2>4. \A t : (Used(t) => Used(t)') /\ (Used(t) /\ t \in subscriptions' => t \in subscriptions)
    BY <2>2 DEF Used
  <2>5. Used(s)'
    BY <2>2 DEF Used
  <2>6. /\ Ok(s).status = "ok" /\ Ok(s).timeout = SUBSCRIPTION_TIMEOUT /\ Ok(s).sid = s
    BY DEF Ok
  <2> HIDE DEF Used
  <2> QED BY <1>2, <2>1, <2>3, <2>4, <2>5, <2>6, AnswerKeepsPrompt
<1>4. CASE ServeRenew(r)
  <2>1. CASE S!Resubscribe(r.sid) /\ P!Answer(r, Ok(r.sid))
    <3>1. /\ r.sid \in subscriptions /\ UNCHANGED <<subscriptions, cancelled>>
          /\ timeout_src' = [timeout_src EXCEPT ![r.sid] = SUBSCRIPTION_TIMEOUT]
      BY <2>1 DEF S!Resubscribe
    <3>2. /\ \A t \in subscriptions' :
                timeout_src'[t] \in {timeout_src[t], SUBSCRIPTION_TIMEOUT}
          /\ timeout_src'[r.sid] = SUBSCRIPTION_TIMEOUT
      BY <1>0, <3>1
    <3>3. \A t : (Used(t) => Used(t)') /\ (Used(t) /\ t \in subscriptions' => t \in subscriptions)
      BY <3>1 DEF Used
    <3>4. Used(r.sid)'
      BY <3>1 DEF Used
    <3>5. /\ Ok(r.sid).status = "ok" /\ Ok(r.sid).timeout = SUBSCRIPTION_TIMEOUT
          /\ Ok(r.sid).sid = r.sid
      BY DEF Ok
    <3>6. r.method # "UNSUBSCRIBE"
      BY <1>4 DEF ServeRenew
    <3> QED BY <1>2, <2>1, <3>2, <3>3, <3>4, <3>5, <3>6, AnswerKeepsPrompt
  <2>2. CASE P!Answer(r, Refused) /\ UNCHANGED svars
    <3>1. /\ \A t \in subscriptions' : timeout_src'[t] \in {timeout_src[t], SUBSCRIPTION_TIMEOUT}
          /\ \A t : (Used(t) => Used(t)') /\ (Used(t) /\ t \in subscriptions' => t \in subscriptions)
      BY <2>2 DEF svars, Used
    <3>2. Refused.status \notin {"ok", "error"}
      BY DEF Refused
    <3>3. r.method # "UNSUBSCRIBE"
      BY <1>4 DEF ServeRenew
    <3> QED BY <1>2, <2>2, <3>1, <3>2, <3>3, AnswerKeepsPrompt
  <2> QED BY <1>4, <2>1, <2>2 DEF ServeRenew, Answered
<1>5. CASE ServeUnsubscribe(r)
  <2>1. requests' = requests \ {r} /\ r.method = "UNSUBSCRIBE"
    BY <1>5 DEF ServeUnsubscribe, P!Forget
  <2>2. /\ subscriptions' \subseteq subscriptions
        /\ \A t : Used(t) => Used(t)'
        /\ \A t \in subscriptions' : timeout_src'[t] = timeout_src[t]
    <3>1. \/ S!RemoveSubscriptions({r.sid})
          \/ UNCHANGED <<subscriptions, cancelled, timeout_src>>
      BY <1>5 DEF ServeUnsubscribe, S!Unsubscribe, S!UnsubscribeEarly, S!table, svars
    <3> QED BY <1>0, <3>1 DEF S!RemoveSubscriptions, Used
  <2>3. Asked => Asked'
    BY <2>1 DEF Asked
  <2> QED BY <1>2, <2>1, <2>2, <2>3 DEF Prompt
<1> QED BY <1>1, <1>3, <1>4, <1>5 DEF RequestLost

\* NOTIFYs.
LEMMA NetworkKeepsPrompt ==
    ASSUME Prompt, Network
    PROVE  Prompt'
<1>1. /\ UNCHANGED <<subscriptions, cancelled, timeout_src>>
      /\ UNCHANGED <<requests, sid, subscribed, subscription_timeout_src>>
  BY DEF Network, Deliver, Rejected, NotifyLost, S!Answer, S!table, P!Notify,
     P!subscription, P!outbox, pvars
<1> QED BY <1>1 DEF Prompt, Asked, Used

LEMMA PromptStep ==
    ASSUME Happens \cap {"request-lost", "answer-lost"} = {}, SUBSCRIPTION_TIMEOUT >= 2,
           Ends, Prompt, [Next]_allvars
    PROVE  Prompt'
<1>1. CASE ServiceStep
  <2>1. UNCHANGED pvars
    BY <1>1 DEF ServiceStep
  <2>2. /\ subscriptions' \subseteq subscriptions
        /\ \A t : Used(t) => Used(t)'
        /\ \A t \in subscriptions' : timeout_src'[t] = timeout_src[t]
    BY <1>1, ServiceKeepsTimers DEF Ends, SP!IInv
  <2> QED BY <2>1, <2>2 DEF Prompt, pvars, Asked
<1>2. CASE UNCHANGED allvars
  BY <1>2 DEF allvars, svars, pvars, Prompt, Asked, Used
<1> QED
  BY <1>1, <1>2, ProxyKeepsPrompt, TickKeepsPrompt, ServeKeepsPrompt, NetworkKeepsPrompt
  DEF Next

\* Without losses of requests and answers, for every lifetime of at least two
\* ticks and whatever the jitter: the timer of the subscription whose SID the
\* proxy holds is never due.
THEOREM RenewalIsInTime ==
    ASSUME Happens \cap {"request-lost", "answer-lost"} = {}, SUBSCRIPTION_TIMEOUT >= 2
    PROVE  Spec => []RenewsInTime
<1>1. Init => Prompt
  BY PromptInit
<1>2. Ends /\ Prompt /\ [Next]_allvars => Prompt'
  BY PromptStep
<1>3. Prompt => RenewsInTime
  BY DEF Prompt, RenewsInTime
<1> QED BY <1>1, <1>2, <1>3, EndsHold, PTL DEF Spec

-----------------------------------------------------------------------------
(* Events are emitted in order, as long as the keys of the service have    *)
(* not wrapped: the proxy has no way to tell a wrapped key from an old one.*)

\* A subscription has had one message when it was made, and one for each change
\* of the variable at most.  So its keys are the numbers of its messages.
Few ==
    /\ \A s \in SIDs : sent[s] <= IF notify_queue = SP!Empty THEN value + 1 ELSE value
    /\ notify_queue # SP!Empty => value >= 1
    /\ \A m \in wire : m.seq = m.id - 1 /\ m.seq < sent[m.sid]

LEMMA FewInit == Init => Few
BY DEF Init, S!InitWith, S!Empty, SP!Empty, Few

\* With one callback URL the service has nowhere else to send a message to.
LEMMA NoSecondTry ==
    ASSUME Ends, NEW m \in wire
    PROVE  ~S!ResponseTryNext(m)
<1> SUFFICES ASSUME S!ResponseTryNext(m) PROVE FALSE
  OBVIOUS
<1>1. m.sid \notin cancelled /\ data[m.sid].current < data[m.sid].callbacks
  BY DEF S!ResponseTryNext, S!GotResponse
<1>2. /\ m.sid \in SIDs /\ m.id \in Nat \ {0} /\ m.id <= sent[m.sid]
      /\ sent[m.sid] \in Nat
  BY DEF Ends, SP!IInv, SP!TypeOK, SP!Notification, SP!Consistent
<1>3. m.sid \in subscriptions
  BY <1>1, <1>2 DEF Ends, SP!IInv, SP!OutsideTable
<1>4. data[m.sid].current \in 1 .. data[m.sid].callbacks /\ data[m.sid].callbacks \in 0 .. 1
  BY <1>2, <1>3 DEF Ends, SP!IInv, SP!TypeOK, SP!SubscriptionData
<1> QED BY <1>1, <1>4

\* The variable, what waits for a thaw and the number of messages.
LEMMA CountsStep ==
    ASSUME Ends, Few, [Next]_allvars
    PROVE  \/ UNCHANGED <<value, notify_queue, sent>>
           \/ /\ notify_queue = SP!Empty /\ notify_queue' = notify_queue /\ value' = value + 1
              /\ \A s \in SIDs : sent'[s] \in {sent[s], sent[s] + 1}
           \/ notify_queue' = value' /\ value' = value + 1 /\ sent' = sent
           \/ /\ notify_queue' = SP!Empty /\ value' = value
              /\ \A s \in SIDs : sent'[s] \in {sent[s], sent[s] + 1}
              /\ notify_queue = SP!Empty => sent' = sent
           \/ /\ UNCHANGED <<value, notify_queue>>
              /\ \A s \in SIDs : sent'[s] = sent[s] \/ (sent[s] = 0 /\ sent'[s] = 1)
<1>0. /\ SP!IInv /\ SP!InOrder /\ SP!TypeOK
      /\ sent \in [SIDs -> Nat]
  BY DEF Ends, SP!IInv, SP!TypeOK
<1>1. \A s \in SIDs : sent'[s] \in {sent[s], sent[s] + 1}
  <2>1. [SP!Next]_(SP!vars)
    BY <1>0, StepOfTheEnds
  <2> QED BY <1>0, <2>1, SP!NewMessages, EndsAssumption DEF SP!ServiceAssumption
<1>2. CASE S!NotifyValue
  <2>1. notify_queue = SP!Empty
    BY <1>0, <1>2 DEF S!NotifyValue, SP!InOrder
  <2>2. value' = value + 1 /\ notify_queue' = notify_queue
    BY <1>2 DEF S!NotifyValue, S!queues
  <2> QED BY <1>1, <2>1, <2>2
<1>3. CASE S!NotifyFrozen
  BY <1>3 DEF S!NotifyFrozen
<1>4. CASE S!ThawNotify
  <2>1. notify_queue' = SP!Empty /\ value' = value
    BY <1>4 DEF S!ThawNotify, S!Empty, SP!Empty
  <2>2. notify_queue = SP!Empty => sent' = sent
    BY <1>4 DEF S!ThawNotify, S!Empty, SP!Empty
  <2> QED BY <1>1, <2>1, <2>2
<1>5. ASSUME NEW s \in SIDs, S!Subscribe(s, 1)
      PROVE  /\ UNCHANGED <<value, notify_queue>>
             /\ \A t \in SIDs : sent'[t] = sent[t] \/ (sent[t] = 0 /\ sent'[t] = 1)
  <2>1. s \notin subscriptions \cup cancelled /\ UNCHANGED <<value, notify_queue>>
    BY <1>5 DEF S!Subscribe, S!queues
  <2>2. sent[s] = 0
    BY <1>0, <2>1 DEF SP!IInv, SP!OutsideTable
  <2>3. \E d, w, body : S!NotifySubscribers({s}, d, w, body)
    BY <1>5, Zenon DEF S!Subscribe
  <2>4. \A t \in SIDs \ {s} : sent'[t] = sent[t]
    BY <2>3 DEF S!NotifySubscribers
  <2> QED BY <1>1, <2>1, <2>2, <2>4
<1>6. CASE /\ ServiceStep
           /\ ~S!NotifyValue /\ ~S!NotifyFrozen /\ ~S!ThawNotify
  <2>1. \/ S!FreezeNotify \/ S!RootDeviceUnavailable
        \/ \E s \in SIDs : S!SubscriptionTimeout(s)
        \/ \E m \in wire : S!Response(m)
    BY <1>6, Zenon DEF ServiceStep
  <2>2. UNCHANGED <<value, notify_queue, sent>>
    BY <2>1, NoSecondTry
    DEF S!FreezeNotify, S!RootDeviceUnavailable, S!SubscriptionTimeout, S!Response,
        S!ResponseCancelled, S!ResponseOk, S!ResponsePreconditionFailed,
        S!ResponseNotifyFailed, S!queues
  <2> QED BY <2>2
<1>7. CASE \/ ProxyStep \/ Tick \/ UNCHANGED allvars
  BY <1>7 DEF ProxyStep, Tick, S!Tick, S!queues, svars, allvars
<1>8. CASE Serve
  <2>1. PICK r \in requests :
           ServeSubscribe(r) \/ ServeRenew(r) \/ ServeUnsubscribe(r) \/ RequestLost(r)
    BY <1>8 DEF Serve
  <2>2. CASE ServeSubscribe(r)
    BY <1>5, <2>2 DEF ServeSubscribe
  <2>3. CASE ServeRenew(r) \/ ServeUnsubscribe(r) \/ RequestLost(r)
    <3>1. UNCHANGED <<value, notify_queue, sent>>
      BY <2>3 DEF ServeRenew, ServeUnsubscribe, RequestLost, S!Resubscribe, S!Unsubscribe,
         S!UnsubscribeEarly, S!queues, svars
    <3> QED BY <3>1
  <2> QED BY <2>1, <2>2, <2>3
<1>9. CASE Network
  <2>1. UNCHANGED <<value, notify_queue, sent>>
    BY <1>9 DEF Network, Deliver, Rejected, NotifyLost, S!Answer, S!queues
  <2> QED BY <2>1
<1> QED BY <1>2, <1>3, <1>4, <1>6, <1>7, <1>8, <1>9 DEF Next

LEMMA FewStep ==
    ASSUME MaxValue <= G_MAXINT32, Ends, Ends', Few, [Next]_allvars
    PROVE  Few'
<1>1. /\ sent \in [SIDs -> Nat] /\ sent' \in [SIDs -> Nat]
      /\ value \in 0 .. MaxValue /\ value' \in 0 .. MaxValue
      /\ notify_queue # SP!Empty => notify_queue = value
      /\ MaxValue \in Nat /\ G_MAXINT32 \in Nat
  BY GenaAssumption DEF Ends, SP!IInv, SP!TypeOK, SP!InOrder
<1>2. /\ \A s \in SIDs : sent'[s] <= IF notify_queue' = SP!Empty THEN value' + 1 ELSE value'
      /\ notify_queue' # SP!Empty => value' >= 1
  <2>1. -1 = SP!Empty
    BY DEF SP!Empty
  <2> QED BY <1>1, <2>1, CountsStep DEF Few
<1>3. ASSUME NEW m \in wire'
      PROVE  m.seq = m.id - 1 /\ m.seq < sent'[m.sid]
  <2>1. /\ m.sid \in SIDs /\ m.id \in Nat \ {0}
        /\ m.id <= sent'[m.sid] /\ m.seq = SP!Key(m.id - 1)
    BY <1>3 DEF Ends, SP!IInv, SP!TypeOK, SP!Notification, SP!Consistent
  <2>2. m.id - 1 <= G_MAXINT32
    <3>1. sent'[m.sid] <= MaxValue + 1
      BY <1>1, <1>2, <2>1
    <3> QED BY <1>1, <2>1, <3>1
  <2>3. m.seq = m.id - 1
    BY <2>1, <2>2 DEF SP!Key
  <2> QED BY <1>1, <2>1, <2>3
<1> QED BY <1>2, <1>3 DEF Few

\* Of one subscription, the keys rise from the event emitted last through the
\* queue of the proxy to the messages the session has not sent yet.
Ordered ==
    LET pn == pending_notifies IN
    /\ \A i, j \in 1 .. Len(pn) : i < j /\ pn[i].sid = pn[j].sid => pn[i].seq < pn[j].seq
    /\ \A i \in 1 .. Len(pn) :
          heard[pn[i].sid] < pn[i].seq /\ pn[i].seq < sent[pn[i].sid]
    /\ \A s \in SIDs : heard[s] < sent[s]
    /\ \A m \in wire : m.status = "none" =>
          /\ heard[m.sid] < m.seq
          /\ \A i \in 1 .. Len(pn) : pn[i].sid = m.sid => pn[i].seq < m.seq

\* The types that are needed.
LEMMA ProxyTypes ==
    ASSUME Ends
    PROVE  /\ pending_notifies \in Seq(PP!Event)
           /\ \A i \in 1 .. Len(pending_notifies) :
                 pending_notifies[i].sid \in SIDs /\ pending_notifies[i].seq \in Nat
           /\ heard \in [SIDs -> Int]
           /\ sent \in [SIDs -> Nat]
           /\ \A m \in wire : m.sid \in SIDs /\ m.seq \in Nat /\ m.id \in Nat
<1>1. pending_notifies \in Seq(PP!Event)
  BY DEF Ends, PP!IInv, PP!TypeOK
<1>2. \A e \in PP!Event : e.sid \in SIDs /\ e.seq \in Nat
  BY GenaAssumption DEF PP!Event
<1>3. \A i \in 1 .. Len(pending_notifies) : pending_notifies[i] \in PP!Event
  BY <1>1
<1>4. heard \in [SIDs -> Int]
  BY GenaAssumption DEF Ends, PP!IInv, PP!TypeOK, PP!Nothing
<1>5. sent \in [SIDs -> Nat] /\ \A m \in wire : m.sid \in SIDs /\ m.seq \in Nat /\ m.id \in Nat
  BY GenaAssumption DEF Ends, SP!IInv, SP!TypeOK, SP!Notification
<1> QED BY <1>1, <1>2, <1>3, <1>4, <1>5

LEMMA OrderedInit == Init => Ordered
BY DEF Init, S!InitWith, P!Init, P!Nothing, Ordered

\* What the service sends is later than all there is.
LEMMA SentIsLater ==
    ASSUME Ends, Ends', Few, Few', [Next]_allvars
    PROVE  /\ \A s \in SIDs : sent'[s] \in {sent[s], sent[s] + 1}
           /\ \A m \in wire' : m.status = "none" => m \in wire \/ m.seq = sent[m.sid]
<1>1. SP!IInv /\ SP!TypeOK
  BY DEF Ends, SP!IInv
<1>2. [SP!Next]_(SP!vars)
  BY <1>1, StepOfTheEnds
<1>3. /\ \A s \in SIDs : sent'[s] \in {sent[s], sent[s] + 1}
      /\ \A m \in wire' : m.status = "none" => m \in wire \/ m.id = sent[m.sid] + 1
  BY <1>1, <1>2, SP!NewMessages, EndsAssumption DEF SP!ServiceAssumption
<1>4. \A m \in wire' : m.sid \in SIDs /\ m.id \in Nat /\ m.seq = m.id - 1
  BY DEF Ends, SP!IInv, SP!TypeOK, SP!Notification, Few
<1>5. \A s \in SIDs : sent[s] \in Nat
  BY ProxyTypes
<1> QED BY <1>3, <1>4, <1>5

\* A step of the service, and one of the proxy that takes nothing off the queue
\* or all.
LEMMA QueueKept ==
    ASSUME Ends, Ends', Few, Few', Ordered, [Next]_allvars, heard' = heard,
           pending_notifies' \in {pending_notifies, <<>>}
    PROVE  Ordered'
<1> DEFINE pn == pending_notifies
<1>1. /\ pn \in Seq(PP!Event)
      /\ \A i \in 1 .. Len(pn) : pn[i].sid \in SIDs /\ pn[i].seq \in Nat
      /\ heard \in [SIDs -> Int] /\ sent \in [SIDs -> Nat]
  BY ProxyTypes
<1>2. \A m \in wire' : m.sid \in SIDs /\ m.seq \in Nat
  BY GenaAssumption DEF Ends, SP!IInv, SP!TypeOK, SP!Notification
<1>3. /\ \A s \in SIDs : sent'[s] \in {sent[s], sent[s] + 1}
      /\ \A m \in wire' : m.status = "none" => m \in wire \/ m.seq = sent[m.sid]
  BY SentIsLater
<1>4. Len(<<>>) = 0 /\ 1 .. 0 = {} /\ Len(pn) \in Nat
  BY <1>1
<1>5. /\ \A i, j \in 1 .. Len(pn) : i < j /\ pn[i].sid = pn[j].sid => pn[i].seq < pn[j].seq
      /\ \A i \in 1 .. Len(pn) :
            heard[pn[i].sid] < pn[i].seq /\ pn[i].seq < sent'[pn[i].sid]
      /\ \A s \in SIDs : heard[s] < sent'[s]
  <2>1. \A s \in SIDs : sent[s] <= sent'[s] /\ sent'[s] \in Nat /\ heard[s] \in Int
    BY <1>1, <1>3
  <2>2. \A i, j \in 1 .. Len(pn) : i < j /\ pn[i].sid = pn[j].sid => pn[i].seq < pn[j].seq
    BY DEF Ordered
  <2>3. ASSUME NEW i \in 1 .. Len(pn)
        PROVE  heard[pn[i].sid] < pn[i].seq /\ pn[i].seq < sent'[pn[i].sid]
    <3>1. heard[pn[i].sid] < pn[i].seq /\ pn[i].seq < sent[pn[i].sid]
      BY DEF Ordered
    <3> QED BY <1>1, <2>1, <3>1
  <2>4. ASSUME NEW s \in SIDs
        PROVE  heard[s] < sent'[s]
    <3>1. heard[s] < sent[s]
      BY DEF Ordered
    <3> QED BY <1>1, <2>1, <3>1
  <2> QED BY <2>2, <2>3, <2>4
<1>6. ASSUME NEW m \in wire', m.status = "none"
      PROVE  /\ heard[m.sid] < m.seq
             /\ \A i \in 1 .. Len(pn) : pn[i].sid = m.sid => pn[i].seq < m.seq
  BY <1>1, <1>2, <1>3, <1>6 DEF Ordered
<1>7. CASE pn' = pn
  BY <1>5, <1>6, <1>7 DEF Ordered
<1>8. CASE pn' = <<>>
  BY <1>4, <1>5, <1>6, <1>8 DEF Ordered
<1> QED BY <1>7, <1>8

\* A NOTIFY that reaches the proxy: the session has sent those before it.
LEMMA DeliverKeepsOrder ==
    ASSUME Ends, Ends', Few, Few', Ordered, [Next]_allvars, NEW m \in wire, Deliver(m)
    PROVE  Ordered'
<1> DEFINE pn == pending_notifies
           e == EventOf(m)
<1>1. /\ pn \in Seq(PP!Event)
      /\ \A i \in 1 .. Len(pn) : pn[i].sid \in SIDs /\ pn[i].seq \in Nat
      /\ heard \in [SIDs -> Int] /\ sent \in [SIDs -> Nat]
      /\ \A k \in wire : k.sid \in SIDs /\ k.seq \in Nat /\ k.id \in Nat
  BY ProxyTypes
<1>2. /\ heard' = heard /\ sent' = sent
      /\ pn' = pn \/ pn' = Append(pn, e)
      /\ m.status = "none" /\ S!Before(m) = {}
      /\ \E st \in {"ok", "failure"} : wire' = (wire \ {m}) \cup {[m EXCEPT !.status = st]}
  BY DEF Deliver, P!Notify, P!application, S!Answer
<1>3. CASE pn' = pn
  BY <1>2, <1>3, QueueKept
<1>4. CASE pn' = Append(pn, e)
  <2>1. e.sid = m.sid /\ e.seq = m.seq /\ e \in PP!Event
    <3>1. e \in P!Event
      BY EventOfType DEF Ends, SP!IInv
    <3> QED BY <3>1 DEF EventOf, P!Event, PP!Event
  <2>2. /\ Len(pn') = Len(pn) + 1 /\ Len(pn) \in Nat
        /\ \A i \in 1 .. Len(pn) : pn'[i] = pn[i]
        /\ pn'[Len(pn) + 1] = e
    BY <1>1, <1>4, <2>1
  <2> HIDE DEF e
  <2>3. \A k \in wire' : k.status = "none" => k \in wire \ {m}
    <3>1. \A st : [m EXCEPT !.status = st].status = st
      BY DEF Ends, SP!IInv, SP!TypeOK, SP!Notification
    <3> QED BY <1>2, <3>1
  <2>4. ASSUME NEW k \in wire \ {m}, k.sid = m.sid
        PROVE  m.seq < k.seq
    <3>1. k.cb = 1 /\ m.cb = 1 /\ k.id \in Nat /\ m.id \in Nat
      BY DEF Ends, SP!IInv, SP!TypeOK, SP!Notification
    <3>2. ~(k.id < m.id)
      BY <1>2, <2>4, <3>1 DEF S!Before
    <3>3. k.id # m.id
      BY <2>4 DEF Ends, SP!IInv, SP!Consistent
    <3>4. k.seq = k.id - 1 /\ m.seq = m.id - 1
      BY DEF Few
    <3> QED BY <3>1, <3>2, <3>3, <3>4
  <2>5. /\ heard[m.sid] < m.seq /\ m.seq < sent[m.sid]
        /\ \A i \in 1 .. Len(pn) : pn[i].sid = m.sid => pn[i].seq < m.seq
    BY <1>2 DEF Ordered, Few
  <2>6. ASSUME NEW i \in 1 .. Len(pn'), NEW j \in 1 .. Len(pn'), i < j, pn'[i].sid = pn'[j].sid
        PROVE  pn'[i].seq < pn'[j].seq
    <3>1. i \in 1 .. Len(pn) /\ (j \in 1 .. Len(pn) \/ j = Len(pn) + 1)
      BY <2>2, <2>6
    <3>2. CASE j \in 1 .. Len(pn)
      <4>1. pn[i].sid = pn[j].sid
        BY <2>2, <2>6, <3>1, <3>2
      <4>2. pn[i].seq < pn[j].seq
        BY <2>6, <3>1, <3>2, <4>1 DEF Ordered
      <4> QED BY <2>2, <3>1, <3>2, <4>2
    <3>3. CASE j = Len(pn) + 1
      BY <2>1, <2>2, <2>5, <2>6, <3>1, <3>3
    <3> QED BY <3>1, <3>2, <3>3
  <2>7. ASSUME NEW i \in 1 .. Len(pn')
        PROVE  heard[pn'[i].sid] < pn'[i].seq /\ pn'[i].seq < sent[pn'[i].sid]
    BY <1>1, <2>1, <2>2, <2>5, <2>7 DEF Ordered
  <2>8. ASSUME NEW k \in wire', k.status = "none"
        PROVE  /\ heard[k.sid] < k.seq
               /\ \A i \in 1 .. Len(pn') : pn'[i].sid = k.sid => pn'[i].seq < k.seq
    <3>1. k \in wire \ {m}
      BY <2>3, <2>8
    <3>2. heard[k.sid] < k.seq
      BY <2>8, <3>1 DEF Ordered
    <3>3. ASSUME NEW i \in 1 .. Len(pn'), pn'[i].sid = k.sid
          PROVE  pn'[i].seq < k.seq
      <4>1. CASE i \in 1 .. Len(pn)
        BY <2>2, <2>8, <3>1, <3>3, <4>1 DEF Ordered
      <4>2. CASE i = Len(pn) + 1
        BY <2>1, <2>2, <2>4, <3>1, <3>3, <4>2
      <4> QED BY <2>2, <4>1, <4>2
    <3> QED BY <3>2, <3>3
  <2>9. \A s \in SIDs : heard[s] < sent[s]
    BY DEF Ordered
  <2> QED BY <1>2, <2>6, <2>7, <2>8, <2>9 DEF Ordered
<1> QED BY <1>2, <1>3, <1>4

\* What EventsInOrder says of a step
EmitsInOrder ==
    /\ EmitsEvent => heard'[sid] > heard[sid]
    /\ \A s \in SIDs : ~(EmitsEvent /\ s = sid) => heard'[s] = heard[s]

\* An event is taken off the queue; if it is emitted, its key is a later one.
LEMMA EmitKeepsOrder ==
    ASSUME Ends, Ordered, P!EmitEvent, UNCHANGED svars
    PROVE  Ordered' /\ EmitsInOrder
<1> DEFINE pn == pending_notifies
           e == Head(pn)
<1>1. /\ pn \in Seq(PP!Event)
      /\ \A i \in 1 .. Len(pn) : pn[i].sid \in SIDs /\ pn[i].seq \in Nat
      /\ heard \in [SIDs -> Int] /\ sent \in [SIDs -> Nat]
      /\ \A k \in wire : k.sid \in SIDs /\ k.seq \in Nat
  BY ProxyTypes
<1>2. /\ pn # <<>> /\ pn' = Tail(pn)
      /\ \/ e.sid = sid /\ heard' = [heard EXCEPT ![sid] = e.seq] /\ EmitsEvent
         \/ heard' = heard /\ ~EmitsEvent
  BY DEF P!EmitEvent, P!application, EmitsEvent
<1>3. /\ Len(pn) \in Nat /\ Len(pn) >= 1 /\ e = pn[1] /\ 1 \in 1 .. Len(pn)
      /\ Len(pn') = Len(pn) - 1
      /\ \A i \in 1 .. Len(pn') : pn'[i] = pn[i + 1] /\ i + 1 \in 1 .. Len(pn)
  BY <1>1, <1>2
<1>4. e.sid \in SIDs /\ e.seq \in Nat /\ heard[e.sid] < e.seq /\ e.seq < sent[e.sid]
  BY <1>1, <1>3 DEF Ordered
<1>5. /\ \A s \in SIDs : heard'[s] = heard[s] \/ (s = e.sid /\ heard'[s] = e.seq)
      /\ heard' \in [SIDs -> Int]
  BY <1>1, <1>2, <1>4
<1>6. wire' = wire /\ sent' = sent
  BY DEF svars
<1>7. /\ \A i \in 2 .. Len(pn) : pn[i].sid = e.sid => e.seq < pn[i].seq
      /\ \A m \in wire : m.status = "none" /\ m.sid = e.sid => e.seq < m.seq
  BY <1>1, <1>3 DEF Ordered
<1> HIDE DEF e
<1>8. \A i \in 1 .. Len(pn') : i + 1 \in 2 .. Len(pn) /\ i \in Nat
  BY <1>3
<1>9. ASSUME NEW i \in 1 .. Len(pn')
      PROVE  heard'[pn'[i].sid] < pn'[i].seq /\ pn'[i].seq < sent[pn'[i].sid]
  <2>1. /\ heard[pn[i + 1].sid] < pn[i + 1].seq /\ pn[i + 1].seq < sent[pn[i + 1].sid]
        /\ pn[i + 1].sid \in SIDs
    BY <1>1, <1>3 DEF Ordered
  <2> QED BY <1>3, <1>5, <1>7, <1>8, <2>1
<1>10. ASSUME NEW i \in 1 .. Len(pn'), NEW j \in 1 .. Len(pn'), i < j, pn'[i].sid = pn'[j].sid
       PROVE  pn'[i].seq < pn'[j].seq
  <2>1. i + 1 < j + 1 /\ i + 1 \in 1 .. Len(pn) /\ j + 1 \in 1 .. Len(pn)
    BY <1>3, <1>8, <1>10
  <2>2. pn'[i] = pn[i + 1] /\ pn'[j] = pn[j + 1]
    BY <1>3
  <2> QED BY <1>10, <2>1, <2>2 DEF Ordered
<1>11. ASSUME NEW m \in wire, m.status = "none"
       PROVE  /\ heard'[m.sid] < m.seq
              /\ \A i \in 1 .. Len(pn') : pn'[i].sid = m.sid => pn'[i].seq < m.seq
  <2>1. heard'[m.sid] < m.seq
    BY <1>1, <1>5, <1>7, <1>11 DEF Ordered
  <2>2. \A i \in 1 .. Len(pn) : pn[i].sid = m.sid => pn[i].seq < m.seq
    BY <1>11 DEF Ordered
  <2> QED BY <1>3, <2>1, <2>2
<1>12. \A s \in SIDs : heard'[s] < sent[s]
  BY <1>4, <1>5 DEF Ordered
<1>13. Ordered'
  BY <1>6, <1>9, <1>10, <1>11, <1>12 DEF Ordered
<1>14. EmitsInOrder
  BY <1>1, <1>2, <1>4 DEF EmitsInOrder
<1> QED BY <1>13, <1>14

LEMMA OrderedStep ==
    ASSUME Ends, Ends', Few, Few', Ordered, [Next]_allvars
    PROVE  Ordered' /\ EmitsInOrder
<1>1. CASE heard' = heard /\ ~EmitsEvent /\ pending_notifies' \in {pending_notifies, <<>>}
  BY <1>1, QueueKept DEF EmitsInOrder
<1>2. CASE UNCHANGED pvars
  BY <1>1, <1>2 DEF pvars, EmitsEvent
<1>3. CASE ProxyStep
  <2>1. CASE P!EmitEvent
    BY <1>3, <2>1, EmitKeepsOrder DEF ProxyStep
  <2>2. CASE ~P!EmitEvent
    <3>1. heard' = heard /\ ~EmitsEvent /\ pending_notifies' \in {pending_notifies, <<>>}
      BY <1>3, <2>2
      DEF ProxyStep, EmitsEvent, P!SetSubscribed, P!SetUnsubscribed, P!Dispose, P!Emit, P!EmitStart,
          P!EmitMissed, P!CallbackReturns, P!EmitDone, P!SubscriptionExpire, P!Response,
          P!ResponseError, P!ResponseUnwanted, P!ResponseOk, P!ResponseLost,
          P!ResponseCancelled, P!application, P!inbox
    <3> QED BY <1>1, <3>1
  <2> QED BY <2>1, <2>2
<1>4. CASE ServiceStep \/ Tick \/ Serve \/ UNCHANGED allvars
  <2>1. heard' = heard /\ ~EmitsEvent /\ pending_notifies' = pending_notifies
    BY <1>4 DEF EmitsEvent, ServiceStep, Tick, Serve, ServeSubscribe, ServeRenew, ServeUnsubscribe,
       RequestLost, Answered, P!Answer, P!Forget, P!Tick, P!application, P!inbox, pvars,
       allvars
  <2> QED BY <1>1, <2>1
<1>5. CASE Network
  <2>1. PICK m \in wire : Deliver(m) \/ Rejected(m) \/ NotifyLost(m)
    BY <1>5 DEF Network
  <2>2. CASE Deliver(m)
    <3>1. heard' = heard /\ ~EmitsEvent
      BY <2>2 DEF Deliver, P!Notify, P!application, EmitsEvent
    <3> QED BY <2>2, <3>1, DeliverKeepsOrder DEF EmitsInOrder
  <2>3. CASE Rejected(m) \/ NotifyLost(m)
    BY <1>2, <2>3 DEF Rejected, NotifyLost
  <2> QED BY <2>1, <2>2, <2>3
<1> QED BY <1>3, <1>4, <1>5 DEF Next

\* Whatever is lost, delayed, unsubscribed or disposed of: of one subscription,
\* each event that is emitted has a later key than those emitted before, so that
\* none is emitted twice or after a later one.
THEOREM EventsStayInOrder ==
    ASSUME MaxValue <= G_MAXINT32
    PROVE  Spec => EventsInOrder
<1>1. Init => Few /\ Ordered
  BY FewInit, OrderedInit
<1>2. Ends /\ Ends' /\ Few /\ Ordered /\ [Next]_allvars => Few' /\ Ordered'
  BY FewStep, OrderedStep
<1>3. Ends /\ Ends' /\ Few /\ Few' /\ Ordered /\ [Next]_allvars =>
        [EmitsInOrder]_allvars
  BY OrderedStep
<1> QED BY <1>1, <1>2, <1>3, EndsHold, PTL DEF Spec, EventsInOrder, EmitsInOrder

-----------------------------------------------------------------------------
(* The promise, when the application does not unsubscribe and the clock    *)
(* stands still: the proxy then holds one subscription at a time, and has  *)
(* none of the last one's events left when it gets the next.               *)

Granted(s) ==
    \E r \in requests : r.method # "UNSUBSCRIBE" /\ r.reply.status = "ok" /\ r.reply.sid = s

\* The subscription the proxy has, or is about to have
Current(s) == s \in SIDs /\ (s = sid \/ Granted(s))

OneAtATime ==
    /\ \A r, q \in requests : r.method # "UNSUBSCRIBE" /\ q.method # "UNSUBSCRIBE" => r = q
    /\ \A r \in requests : r.method # "RENEW"
    /\ Asked => sid = NoSid /\ (subscribed \/ disposed_proxy)
    /\ sid # NoSid => subscribed
    /\ sid = NoSid => pending_notifies = <<>>
    /\ subscription_timeout_src # 0
    /\ \A r \in requests : r.reply.status = "ok" => r.reply.timeout = SUBSCRIPTION_TIMEOUT

LEMMA OneAtATimeInit == Init => OneAtATime
BY DEF Init, P!Init, P!Off, OneAtATime, Asked

LEMMA NewRequests ==
    /\ \A n, s : /\ P!NewRequest(n, "SUBSCRIBE", s).reply.status = "none"
                 /\ P!NewRequest(n, "SUBSCRIBE", s).method = "SUBSCRIBE"
    /\ \A r \in P!Farewell :
          r.reply.status = "none" /\ r.method = "UNSUBSCRIBE" /\ r.sid = sid /\ sid # NoSid
    /\ sid = NoSid => P!Farewell = {}
BY DEF P!Farewell, P!NewRequest, P!Unanswered

LEMMA ProxyKeepsOne ==
    ASSUME Happens \cap {"time", "unsubscribe"} = {}, SUBSCRIPTION_TIMEOUT >= 2,
           Ends, OneAtATime, ProxyStep
    PROVE  OneAtATime'
<1>1. CASE P!SetSubscribed
  <2>1. /\ ~subscribed /\ ~disposed_proxy /\ subscribed' /\ sid' = sid
        /\ requests' = requests \cup {P!NewRequest(1, "SUBSCRIBE", NoSid)}
        /\ pending_notifies' = pending_notifies /\ subscription_timeout_src' = -1
    BY <1>1 DEF P!SetSubscribed, P!inbox, P!Off
  <2>2. sid = NoSid /\ ~Asked
    BY <2>1 DEF OneAtATime
  <2> HIDE DEF P!NewRequest
  <2> QED BY <2>1, <2>2, NewRequests DEF OneAtATime, Asked
<1>2. CASE P!Dispose
  <2>1. /\ disposed_proxy' /\ pending_notifies' = <<>> /\ sid' = NoSid
        /\ requests' = requests \cup P!Farewell \/ requests' = requests
        /\ subscription_timeout_src' \in {-1, subscription_timeout_src}
    BY <1>2 DEF P!Dispose, P!Off, P!outbox, OneAtATime
  <2>2. \A r \in requests' : r \in requests \/ (r.reply.status = "none" /\ r.method = "UNSUBSCRIBE")
    BY <2>1, NewRequests
  <2> QED BY <2>1, <2>2 DEF OneAtATime, Asked
<1>3. CASE P!EmitStart \/ P!CallbackReturns \/ P!EmitDone
  <2>1. UNCHANGED <<sid, subscribed, requests, subscription_timeout_src, pending_notifies,
                    disposed_proxy>>
    BY <1>3 DEF P!EmitStart, P!CallbackReturns, P!EmitDone, P!subscription, P!outbox
  <2> QED BY <2>1 DEF OneAtATime, Asked
<1>4. CASE P!EmitEvent
  <2>1. /\ UNCHANGED <<sid, subscribed, requests, subscription_timeout_src, disposed_proxy>>
        /\ pending_notifies # <<>>
    BY <1>4 DEF P!EmitEvent, P!subscription, P!outbox
  <2> QED BY <2>1 DEF OneAtATime, Asked
<1>5. CASE P!EmitMissed
  <2> DEFINE new == P!NewRequest(P!Farewells + 1, "SUBSCRIBE", NoSid)
  <2>1. /\ pending_notifies # <<>> /\ pending_notifies' = <<>> /\ sid' = NoSid
        /\ subscribed' = subscribed /\ disposed_proxy' = disposed_proxy
        /\ requests' = requests \cup P!Farewell \cup {new}
        /\ subscription_timeout_src' = -1
    BY <1>5 DEF P!EmitMissed, P!Off
  <2>2. subscribed /\ ~Asked
    BY <2>1 DEF OneAtATime
  <2>3. new.reply.status = "none" /\ new.method = "SUBSCRIBE"
    BY NewRequests
  <2> HIDE DEF new
  <2>4. \A r \in requests' : \/ r = new
                             \/ r \in requests
                             \/ r.reply.status = "none" /\ r.method = "UNSUBSCRIBE"
    BY <2>1, NewRequests
  <2> QED BY <2>1, <2>2, <2>3, <2>4 DEF OneAtATime, Asked
<1>6. ASSUME NEW r \in requests, P!Response(r)
      PROVE  OneAtATime'
  <2>1. /\ requests' = requests \ {r} /\ r.method # "UNSUBSCRIBE"
        /\ pending_notifies' = pending_notifies /\ disposed_proxy' = disposed_proxy
    BY <1>6 DEF P!Response, P!ResponseError, P!ResponseUnwanted, P!ResponseOk,
       P!ResponseLost, P!ResponseCancelled, P!GotResponse, P!inbox
  <2>2. /\ sid = NoSid /\ pending_notifies = <<>> /\ ~Asked'
    BY <2>1 DEF OneAtATime, Asked
  <2>3. CASE P!ResponseError(r) \/ P!ResponseUnwanted(r) \/ P!ResponseLost(r)
             \/ P!ResponseCancelled(r)
    <3>1. /\ sid' = NoSid
          /\ subscription_timeout_src' \in {-1, subscription_timeout_src}
      BY <2>2, <2>3 DEF P!ResponseError, P!ResponseUnwanted, P!ResponseLost,
         P!ResponseCancelled, P!subscription, P!Off
    <3> QED BY <2>1, <2>2, <3>1 DEF OneAtATime
  <2>4. CASE P!ResponseOk(r)
    <3>1. /\ r.reply.status = "ok" /\ subscribed /\ subscribed' = subscribed
          /\ r.reply.timeout = SUBSCRIPTION_TIMEOUT
      BY <2>4 DEF P!ResponseOk, P!GotResponse, OneAtATime
    <3>2. SUBSCRIPTION_TIMEOUT # P!NoTimeout /\ SUBSCRIPTION_TIMEOUT \in Nat
      BY GenaAssumption DEF P!NoTimeout
    <3>3. P!RenewalTimes(SUBSCRIPTION_TIMEOUT) \subseteq 1 .. SUBSCRIPTION_TIMEOUT - 1
      BY <3>2, PP!RenewalBeforeTheEnd, EndsAssumption, Zenon
      DEF PP!ServiceProxyAssumption, P!RenewalTimes, PP!RenewalTimes
    <3>4. subscription_timeout_src' \in 1 .. SUBSCRIPTION_TIMEOUT - 1
      BY <2>4, <3>1, <3>2, <3>3 DEF P!ResponseOk
    <3> QED BY <2>1, <2>2, <3>1, <3>2, <3>4 DEF OneAtATime
  <2> QED BY <1>6, <2>3, <2>4 DEF P!Response
<1>7. ~P!SubscriptionExpire
  BY DEF P!SubscriptionExpire, OneAtATime
<1>8. ~("unsubscribe" \in Happens)
  OBVIOUS
<1> QED BY <1>1, <1>2, <1>3, <1>4, <1>5, <1>6, <1>7, <1>8 DEF ProxyStep, P!Emit

\* An answer to r: the other requests stay as they are.
LEMMA AnswerChanges ==
    ASSUME Ends, NEW r \in requests, NEW reply, P!Answer(r, reply)
    PROVE  /\ \A q \in requests' : \/ q \in requests /\ q # r
                                   \/ q.reply = reply /\ q.method = r.method
           /\ \A q, p \in requests' :
                 \/ q \in requests /\ q # r
                 \/ p \in requests /\ p # r
                 \/ q = p
           /\ UNCHANGED <<sid, subscribed, subscription_timeout_src, pending_notifies,
                          disposed_proxy, shown, heard>>
<1>1. /\ requests' = (requests \ {r}) \cup {[r EXCEPT !.reply = reply]}
      /\ UNCHANGED <<sid, subscribed, subscription_timeout_src, pending_notifies,
                     disposed_proxy, shown, heard>>
  BY DEF P!Answer, P!subscription, P!inbox, P!application
<1>2. [r EXCEPT !.reply = reply].reply = reply /\ [r EXCEPT !.reply = reply].method = r.method
  BY DEF Ends, PP!IInv, PP!TypeOK, PP!Request
<1> QED BY <1>1, <1>2

\* What serving a request does to the proxy's side of it.
LEMMA ServedRequest ==
    ASSUME Serve
    PROVE  \E r \in requests :
              \/ /\ r.method = "SUBSCRIBE"
                 /\ \E s \in SIDs : /\ S!Subscribe(s, 1)
                                    /\ \E reply \in {Ok(s), Error} : P!Answer(r, reply)
              \/ /\ r.method = "RENEW"
                 /\ \/ S!Resubscribe(r.sid)
                       /\ \E reply \in {Ok(r.sid), Error} : P!Answer(r, reply)
                    \/ UNCHANGED svars /\ \E reply \in {Refused, Error} : P!Answer(r, reply)
              \/ /\ r.method = "UNSUBSCRIBE"
                 /\ P!Forget(r)
                 /\ S!Unsubscribe(r.sid) \/ S!UnsubscribeEarly(r.sid) \/ UNCHANGED svars
              \/ /\ r.method # "UNSUBSCRIBE"
                 /\ P!Answer(r, Error)
                 /\ UNCHANGED svars
BY Zenon DEF Serve, ServeSubscribe, ServeRenew, ServeUnsubscribe, RequestLost, Answered

LEMMA ServeKeepsOne ==
    ASSUME Ends, OneAtATime, Serve
    PROVE  OneAtATime'
<1>1. ASSUME NEW r \in requests, NEW reply, P!Answer(r, reply), r.method # "UNSUBSCRIBE",
             reply.status = "ok" => reply.timeout = SUBSCRIPTION_TIMEOUT
      PROVE  OneAtATime'
  <2>1. /\ \A q \in requests' : \/ q \in requests /\ q # r
                                \/ q.reply = reply /\ q.method = r.method
        /\ \A q, p \in requests' :
              \/ q \in requests /\ q # r
              \/ p \in requests /\ p # r
              \/ q = p
        /\ UNCHANGED <<sid, subscribed, subscription_timeout_src, pending_notifies,
                       disposed_proxy>>
    BY <1>1, AnswerChanges
  <2>2. \A q \in requests : q.method # "UNSUBSCRIBE" => q = r
    BY <1>1 DEF OneAtATime
  <2>3. Asked
    BY <1>1 DEF Asked
  <2> QED BY <1>1, <2>1, <2>2, <2>3 DEF OneAtATime
<1>2. ASSUME NEW r \in requests, P!Forget(r)
      PROVE  OneAtATime'
  <2>1. /\ requests' = requests \ {r}
        /\ UNCHANGED <<sid, subscribed, subscription_timeout_src, pending_notifies,
                       disposed_proxy>>
    BY <1>2 DEF P!Forget, P!subscription, P!inbox
  <2> QED BY <2>1 DEF OneAtATime, Asked
<1>3. /\ \A s : Ok(s).timeout = SUBSCRIPTION_TIMEOUT
      /\ Refused.status # "ok" /\ Error.status # "ok"
  BY DEF Ok, Refused, Error
<1> HIDE DEF Ok, Refused, Error
<1>4. PICK r \in requests :
         \/ P!Forget(r)
         \/ /\ r.method # "UNSUBSCRIBE"
            /\ \E reply : /\ P!Answer(r, reply)
                          /\ reply.status = "ok" => reply.timeout = SUBSCRIPTION_TIMEOUT
  BY <1>3, ServedRequest
<1> QED BY <1>1, <1>2, <1>4

LEMMA OneAtATimeStep ==
    ASSUME Happens \cap {"time", "unsubscribe"} = {}, SUBSCRIPTION_TIMEOUT >= 2,
           Ends, OneAtATime, [Next]_allvars
    PROVE  OneAtATime'
<1>1. CASE UNCHANGED pvars
  BY <1>1 DEF pvars, OneAtATime, Asked
<1>2. ~Tick
  BY DEF Tick
<1>3. CASE Network
  <2>1. /\ UNCHANGED <<sid, subscribed, subscription_timeout_src, requests, disposed_proxy>>
        /\ sid = NoSid => pending_notifies' = pending_notifies
    BY <1>3 DEF Network, Deliver, Rejected, NotifyLost, P!Notify, P!subscription, P!outbox,
       pvars
  <2> QED BY <2>1 DEF OneAtATime, Asked
<1> QED
  BY <1>1, <1>2, <1>3, ProxyKeepsOne, ServeKeepsOne DEF Next, ServiceStep, allvars

\* With the introspection at hand, each message carries a value the variable had.
Valued == state_variables /\ \A m \in wire : m.body \in 0 .. value

LEMMA NotifyBody ==
    ASSUME NEW B, NEW d, NEW w, NEW body, S!NotifySubscribers(B, d, w, body)
    PROVE  \A m \in wire' : m.body = body \/ m \in w
<1>1. wire' = w \cup {S!Message(s, d[s], body) : s \in {t \in B : ~S!CanDelete(d[t])}}
  BY Zenon DEF S!NotifySubscribers
<1>2. \A s : S!Message(s, d[s], body).body = body
  BY DEF S!Message
<1> QED BY <1>1, <1>2

\* What is new on the wire carries the present value.  An attempt to send a
\* message, whatever its outcome, leaves its value.
LEMMA NewBodies ==
    ASSUME Ends, state_variables, [Next]_allvars
    PROVE  /\ state_variables'
           /\ value' \in {value, value + 1}
           /\ \A m \in wire' : \/ m.body = value'
                               \/ \E k \in wire : /\ m.sid = k.sid /\ m.body = k.body
                                                  /\ m.status = "none" => m = k
<1> DEFINE Goal == /\ state_variables'
                   /\ value' \in {value, value + 1}
                   /\ \A m \in wire' : \/ m.body = value'
                                       \/ \E k \in wire : /\ m.sid = k.sid /\ m.body = k.body
                                                          /\ m.status = "none" => m = k
<1> SUFFICES Goal
  OBVIOUS
<1>1. CASE S!NotifyValue
  <2>1. /\ value' = value + 1 /\ state_variables' = state_variables
        /\ S!NotifySubscribers(subscriptions, data, wire, value')
    BY <1>1 DEF S!NotifyValue, S!setup
  <2>2. \A m \in wire' : m.body = value' \/ m \in wire
    BY <2>1, NotifyBody
  <2> QED BY <2>1, <2>2
<1>2. CASE S!ThawNotify
  <2>1. /\ value' = value /\ state_variables' = state_variables
        /\ \/ wire' = wire
           \/ /\ notify_queue # SP!Empty
              /\ S!NotifySubscribers(subscriptions, data, wire, notify_queue)
    BY <1>2 DEF S!ThawNotify, S!setup, S!Empty, SP!Empty
  <2>2. notify_queue # SP!Empty => notify_queue = value
    BY DEF Ends, SP!InOrder
  <2>3. \A m \in wire' : m.body = value' \/ m \in wire
    BY <2>1, <2>2, NotifyBody
  <2> QED BY <2>1, <2>3
<1>3. ASSUME NEW s \in SIDs, S!Subscribe(s, 1)
      PROVE  Goal
  <2>1. /\ value' = value /\ state_variables' = state_variables
        /\ \E d : S!NotifySubscribers({s}, d, wire, S!InitialState(state_variables))
    BY <1>3, Zenon DEF S!Subscribe, S!setup
  <2>2. S!InitialState(state_variables) = value
    BY DEF S!InitialState
  <2>3. \A m \in wire' : m.body = value' \/ m \in wire
    BY <2>1, <2>2, NotifyBody
  <2> QED BY <2>1, <2>3
<1>4. ASSUME NEW m \in wire, NEW st \in {"ok", "failure"}, NEW delivered,
             S!Answer(m, st, delivered)
      PROVE  Goal
  <2>1. /\ value' = value /\ state_variables' = state_variables
        /\ wire' = (wire \ {m}) \cup {[m EXCEPT !.status = st]}
    BY <1>4 DEF S!Answer, S!setup
  <2>2. /\ [m EXCEPT !.status = st].status = st /\ [m EXCEPT !.status = st].sid = m.sid
        /\ [m EXCEPT !.status = st].body = m.body
    BY DEF Ends, SP!IInv, SP!TypeOK, SP!Notification
  <2> QED BY <2>1, <2>2
<1>5. CASE wire' \subseteq wire /\ value' \in {value, value + 1} /\ state_variables' = state_variables
  BY <1>5
<1>6. CASE ServiceStep
  <2>1. CASE S!NotifyFrozen
    BY <1>5, <2>1 DEF S!NotifyFrozen, S!setup
  <2>2. CASE S!FreezeNotify \/ S!RootDeviceUnavailable \/ \E s \in SIDs : S!SubscriptionTimeout(s)
    BY <1>5, <2>2 DEF S!FreezeNotify, S!RootDeviceUnavailable, S!SubscriptionTimeout, S!setup
  <2>3. CASE \E m \in wire : S!Response(m)
    <3>1. wire' \subseteq wire /\ value' = value /\ state_variables' = state_variables
      BY <2>3, NoSecondTry DEF S!Response, S!ResponseCancelled, S!ResponseOk,
         S!ResponsePreconditionFailed, S!ResponseNotifyFailed, S!setup
    <3> QED BY <1>5, <3>1
  <2> QED BY <1>1, <1>2, <1>6, <2>1, <2>2, <2>3, Zenon DEF ServiceStep
<1>7. CASE UNCHANGED svars
  BY <1>5, <1>7 DEF svars
<1>8. CASE Tick
  BY <1>5, <1>8 DEF Tick, S!Tick, S!setup, svars
<1>9. CASE Serve
  <2>1. CASE \E r : S!Resubscribe(r) \/ S!Unsubscribe(r) \/ S!UnsubscribeEarly(r)
    BY <1>5, <2>1 DEF S!Resubscribe, S!Unsubscribe, S!UnsubscribeEarly, S!setup
  <2>2. \/ \E r : S!Resubscribe(r) \/ S!Unsubscribe(r) \/ S!UnsubscribeEarly(r)
        \/ UNCHANGED svars
        \/ \E s \in SIDs : S!Subscribe(s, 1)
    BY <1>9, ServedRequest, Zenon
  <2> QED BY <1>3, <1>7, <2>1, <2>2, Zenon
<1>10. CASE Network
  <2>1. \E m \in wire, st \in {"ok", "failure"} : \E delivered : S!Answer(m, st, delivered)
    BY <1>10, Zenon DEF Network, Deliver, Rejected, NotifyLost
  <2> QED BY <1>4, <2>1
<1>11. CASE ProxyStep \/ UNCHANGED allvars
  BY <1>7, <1>11 DEF ProxyStep, allvars
<1> HIDE DEF Goal
<1> QED BY <1>6, <1>8, <1>9, <1>10, <1>11, Zenon DEF Next

LEMMA ValuedInit == Init => Valued
BY DEF Init, S!InitWith, Valued

LEMMA ValuedStep ==
    ASSUME Ends, Ends', Valued, [Next]_allvars
    PROVE  Valued'
<1>1. value \in Nat /\ value' \in Nat
  BY GenaAssumption DEF Ends, SP!IInv, SP!TypeOK
<1> QED BY <1>1, NewBodies DEF Valued

\* The subscription the proxy has or gets is the one it had, or a new one that
\* has been sent nothing, and the queue of the proxy is empty then.
LEMMA CurrentStep ==
    ASSUME Ends, OneAtATime, [Next]_allvars, NEW s, Current(s)'
    PROVE  \/ Current(s)
           \/ /\ \A m \in wire : m.sid # s
              /\ pending_notifies = <<>> /\ pending_notifies' = <<>>
              /\ ~Used(s) /\ Used(s)'
              /\ \E r \in requests : r.method = "SUBSCRIBE"
<1>1. CASE UNCHANGED <<requests, sid>>
  BY <1>1 DEF Current, Granted
<1>2. CASE ProxyStep
  <2>1. ASSUME NEW r \in requests', r.reply.status = "ok"
        PROVE  r \in requests
    BY <1>2, <2>1, NewRequests, FarewellIsUnanswered
    DEF ProxyStep, P!SetSubscribed, P!SetUnsubscribed, P!Dispose, P!Emit, P!EmitStart,
        P!EmitEvent, P!EmitMissed, P!CallbackReturns, P!EmitDone, P!SubscriptionExpire,
        P!Response, P!ResponseError, P!ResponseUnwanted, P!ResponseOk, P!ResponseLost,
        P!ResponseCancelled, P!GotResponse, P!outbox
  <2>2. Granted(s)' => Granted(s)
    BY <2>1 DEF Granted
  <2>3. \/ sid' \in {sid, NoSid}
        \/ \E r \in requests : P!ResponseOk(r)
    BY <1>2
    DEF ProxyStep, P!SetSubscribed, P!SetUnsubscribed, P!Dispose, P!Emit, P!EmitStart,
        P!EmitEvent, P!EmitMissed, P!CallbackReturns, P!EmitDone, P!SubscriptionExpire,
        P!Response, P!ResponseError, P!ResponseUnwanted, P!ResponseLost,
        P!ResponseCancelled, P!subscription
  <2>4. ASSUME NEW r \in requests, P!ResponseOk(r)
        PROVE  Granted(sid')
    BY <2>4 DEF P!ResponseOk, P!GotResponse, Granted
  <2>5. s \in SIDs /\ s # NoSid
    BY GenaAssumption DEF Current
  <2> QED BY <2>2, <2>3, <2>4, <2>5 DEF Current
<1>3. CASE Serve
  <2>1. PICK r \in requests :
           \/ /\ r.method = "SUBSCRIBE"
              /\ \E t \in SIDs : /\ S!Subscribe(t, 1)
                                 /\ \E reply \in {Ok(t), Error} : P!Answer(r, reply)
           \/ r.method = "RENEW"
           \/ P!Forget(r)
           \/ P!Answer(r, Error)
    BY <1>3, ServedRequest, Zenon
  <2>2. ASSUME NEW reply, P!Answer(r, reply), reply.status # "ok"
        PROVE  Current(s)
    <3>1. /\ \A q \in requests' : q \in requests \/ q.reply = reply
          /\ sid' = sid
      BY <2>2, AnswerChanges
    <3> QED BY <2>2, <3>1 DEF Current, Granted
  <2>3. Error.status # "ok"
    BY DEF Error
  <2>4. CASE P!Forget(r)
    <3>1. requests' \subseteq requests /\ sid' = sid
      BY <2>4 DEF P!Forget, P!subscription
    <3> QED BY <3>1 DEF Current, Granted
  <2>5. ASSUME NEW t \in SIDs, S!Subscribe(t, 1), P!Answer(r, Ok(t)), r.method = "SUBSCRIBE"
        PROVE  \/ Current(s)
               \/ /\ \A m \in wire : m.sid # s
                  /\ pending_notifies = <<>> /\ pending_notifies' = <<>>
                  /\ ~Used(s) /\ Used(s)'
    <3>1. /\ \A q \in requests' : q \in requests \/ q.reply = Ok(t)
          /\ sid' = sid /\ pending_notifies' = pending_notifies
      BY <2>5, AnswerChanges
    <3>2. Ok(t).sid = t
      BY DEF Ok
    <3>3. Current(s) \/ s = t
      BY <3>1, <3>2 DEF Current, Granted
    <3>4. pending_notifies = <<>>
      BY <2>5 DEF OneAtATime, Asked
    <3>5. ~Used(t) /\ Used(t)' /\ \A m \in wire : m.sid # t
      <4>1. t \notin subscriptions \cup cancelled /\ t \in subscriptions'
        BY <2>5 DEF S!Subscribe
      <4>2. sent[t] = 0
        BY <4>1 DEF Ends, SP!IInv, SP!OutsideTable
      <4> QED BY <4>1, <4>2 DEF Used, Ends, SP!IInv, SP!TypeOK, SP!Notification, SP!Consistent
    <3> QED BY <3>1, <3>3, <3>4, <3>5
  <2>6. r.method # "RENEW"
    BY DEF OneAtATime
  <2> QED BY <2>1, <2>2, <2>3, <2>4, <2>5, <2>6
<1>4. CASE ServiceStep \/ Tick \/ Network \/ UNCHANGED allvars
  BY <1>1, <1>4 DEF ServiceStep, Tick, Network, Deliver, Rejected, NotifyLost, P!Notify,
     P!Tick, P!subscription, P!outbox, pvars, allvars
<1> QED BY <1>2, <1>3, <1>4 DEF Next

\* What the application saw last is no newer than what it may see next of the
\* subscription of the proxy, and of each subscription the values rise from the
\* queue of the proxy to the messages that are not sent yet.
NeverBack ==
    LET pn == pending_notifies IN
    /\ shown <= value
    /\ \A i \in 1 .. Len(pn) : pn[i].doc \in 0 .. value
    /\ \A i, j \in 1 .. Len(pn) : i < j /\ pn[i].sid = pn[j].sid => pn[i].doc <= pn[j].doc
    /\ \A m \in wire : m.status = "none" =>
          \A i \in 1 .. Len(pn) : pn[i].sid = m.sid => pn[i].doc <= m.body
    /\ \A s : Current(s) =>
          /\ \A m \in wire : m.status = "none" /\ m.sid = s => shown <= m.body
          /\ \A i \in 1 .. Len(pn) : pn[i].sid = s => shown <= pn[i].doc

LEMMA NeverBackInit == Init => NeverBack
<1> SUFFICES ASSUME Init PROVE NeverBack
  OBVIOUS
<1>1. wire = {} /\ pending_notifies = <<>> /\ shown = -1 /\ value = 0
  BY DEF Init, S!InitWith, P!Init, P!Nothing
<1>2. Len(<<>>) = 0 /\ 1 .. 0 = {}
  OBVIOUS
<1> QED BY <1>1, <1>2 DEF NeverBack

LEMMA DocTypes ==
    ASSUME Ends
    PROVE  /\ pending_notifies \in Seq(PP!Event) /\ Len(pending_notifies) \in Nat
           /\ \A i \in 1 .. Len(pending_notifies) :
                 pending_notifies[i].sid \in SIDs /\ pending_notifies[i].doc \in Int
           /\ shown \in Int /\ value \in Nat
           /\ \A m \in wire : m.sid \in SIDs /\ m.body \in Int
<1>1. pending_notifies \in Seq(PP!Event)
  BY DEF Ends, PP!IInv, PP!TypeOK
<1>2. \A e \in PP!Event : e.sid \in SIDs /\ e.doc \in Int
  BY GenaAssumption DEF PP!Event
<1>3. \A i \in 1 .. Len(pending_notifies) : pending_notifies[i] \in PP!Event
  BY <1>1
<1>4. shown \in Int
  BY GenaAssumption DEF Ends, PP!IInv, PP!TypeOK, PP!Nothing
<1>5. value \in Nat /\ \A m \in wire : m.sid \in SIDs /\ m.body \in Int
  BY GenaAssumption DEF Ends, SP!IInv, SP!TypeOK, SP!Notification, SP!Values
<1> QED BY <1>1, <1>2, <1>3, <1>4, <1>5

\* Nothing is shown, and nothing put on the queue.
LEMMA QueueNeverBack ==
    ASSUME Ends, Ends', Valued, OneAtATime, NeverBack, [Next]_allvars, shown' = shown,
           pending_notifies' \in {pending_notifies, <<>>}
    PROVE  NeverBack'
<1> DEFINE pn == pending_notifies
<1>1. /\ pn \in Seq(PP!Event) /\ Len(pn) \in Nat
      /\ \A i \in 1 .. Len(pn) : pn[i].sid \in SIDs /\ pn[i].doc \in Int
      /\ shown \in Int /\ value \in Nat
  BY DocTypes
<1>2. value' \in {value, value + 1}
  BY NewBodies DEF Valued
<1>3. /\ Len(<<>>) = 0 /\ 1 .. 0 = {}
      /\ \A i \in 1 .. Len(pn') : i \in 1 .. Len(pn) /\ pn'[i] = pn[i]
  BY <1>1
<1>4. \A m \in wire' : m.status = "none" => m \in wire \/ m.body = value'
  BY NewBodies DEF Valued
<1>5. shown <= value' /\ \A i \in 1 .. Len(pn) : pn[i].doc \in 0 .. value'
  BY <1>1, <1>2 DEF NeverBack
<1>6. ASSUME NEW m \in wire', m.status = "none", NEW i \in 1 .. Len(pn), pn[i].sid = m.sid
      PROVE  pn[i].doc <= m.body
  <2>1. CASE m \in wire
    BY <1>6, <2>1 DEF NeverBack
  <2>2. CASE m.body = value'
    BY <1>5, <2>2
  <2> QED BY <1>4, <1>6, <2>1, <2>2
<1>7. ASSUME NEW s, Current(s)'
      PROVE  /\ \A m \in wire' : m.status = "none" /\ m.sid = s => shown <= m.body
             /\ \A i \in 1 .. Len(pn') : pn'[i].sid = s => shown <= pn'[i].doc
  <2>1. CASE Current(s)
    <3>1. \A i \in 1 .. Len(pn) : pn[i].sid = s => shown <= pn[i].doc
      BY <2>1 DEF NeverBack
    <3>2. \A m \in wire : m.status = "none" /\ m.sid = s => shown <= m.body
      BY <2>1 DEF NeverBack
    <3> QED BY <1>3, <1>4, <1>5, <3>1, <3>2
  <2>2. CASE (\A m \in wire : m.sid # s) /\ pn' = <<>>
    BY <1>3, <1>4, <1>5, <2>2
  <2> QED BY <1>7, <2>1, <2>2, CurrentStep
<1>8. ASSUME NEW i \in 1 .. Len(pn), NEW j \in 1 .. Len(pn), i < j, pn[i].sid = pn[j].sid
      PROVE  pn[i].doc <= pn[j].doc
  BY <1>8 DEF NeverBack
<1> HIDE DEF pn
<1>9. shown' <= value'
  BY <1>5
<1> QED BY <1>3, <1>5, <1>6, <1>7, <1>8, <1>9 DEF NeverBack, pn

\* A NOTIFY that is put on the queue
LEMMA DeliverNeverBack ==
    ASSUME Ends, Ends', Valued, OneAtATime, NeverBack, [Next]_allvars, NEW m \in wire,
           Deliver(m)
    PROVE  NeverBack'
<1> DEFINE pn == pending_notifies
           e == EventOf(m)
<1>1. /\ pn \in Seq(PP!Event) /\ Len(pn) \in Nat
      /\ \A i \in 1 .. Len(pn) : pn[i].sid \in SIDs /\ pn[i].doc \in Int
      /\ shown \in Int /\ value \in Nat
      /\ \A k \in wire : k.sid \in SIDs /\ k.body \in Int
  BY DocTypes
<1>2. /\ shown' = shown /\ value' = value /\ UNCHANGED <<sid, requests>>
      /\ pn' = pn \/ pn' = Append(pn, e)
      /\ m.status = "none" /\ S!Before(m) = {}
      /\ \E st \in {"ok", "failure"} : wire' = (wire \ {m}) \cup {[m EXCEPT !.status = st]}
  BY DEF Deliver, P!Notify, P!application, P!subscription, P!outbox, S!Answer
<1>3. CASE pn' = pn
  BY <1>2, <1>3, QueueNeverBack
<1>4. CASE pn' = Append(pn, e)
  <2>1. e.sid = m.sid /\ e.doc = m.body /\ e \in PP!Event
    <3>1. e \in P!Event
      BY EventOfType DEF Ends, SP!IInv
    <3> QED BY <3>1 DEF EventOf, P!Event, PP!Event
  <2>2. /\ Len(pn') = Len(pn) + 1
        /\ \A i \in 1 .. Len(pn) : pn'[i] = pn[i]
        /\ pn'[Len(pn) + 1] = e
        /\ \A i \in 1 .. Len(pn') : i \in 1 .. Len(pn) \/ i = Len(pn) + 1
    BY <1>1, <1>4, <2>1
  <2> HIDE DEF e
  <2>3. \A k \in wire' : k.status = "none" => k \in wire \ {m}
    <3>1. \A st : [m EXCEPT !.status = st].status = st
      BY DEF Ends, SP!IInv, SP!TypeOK, SP!Notification
    <3> QED BY <1>2, <3>1
  <2>4. ASSUME NEW k \in wire \ {m}, k.sid = m.sid
        PROVE  m.body <= k.body
    <3>1. k.cb = 1 /\ m.cb = 1 /\ k.id \in Nat /\ m.id \in Nat
      BY DEF Ends, SP!IInv, SP!TypeOK, SP!Notification
    <3>2. ~(k.id < m.id)
      BY <1>2, <2>4, <3>1 DEF S!Before
    <3>3. k.id # m.id
      BY <2>4 DEF Ends, SP!IInv, SP!Consistent
    <3>4. m.id < k.id
      BY <3>1, <3>2, <3>3
    <3>5. m.body # SP!Empty /\ k.body # SP!Empty
      BY <1>1 DEF Valued, SP!Empty
    <3> QED BY <2>4, <3>4, <3>5 DEF Ends, SP!InOrder
  <2>5. /\ m.body \in 0 .. value
        /\ \A i \in 1 .. Len(pn) : pn[i].sid = m.sid => pn[i].doc <= m.body
        /\ \A i \in 1 .. Len(pn) : pn[i].doc \in 0 .. value
        /\ shown <= value
    BY <1>2 DEF NeverBack, Valued
  <2>6. ASSUME NEW i \in 1 .. Len(pn'), NEW j \in 1 .. Len(pn'), i < j, pn'[i].sid = pn'[j].sid
        PROVE  pn'[i].doc <= pn'[j].doc
    <3>1. i \in 1 .. Len(pn)
      BY <1>1, <2>2, <2>6
    <3>2. CASE j \in 1 .. Len(pn)
      <4>1. pn[i].sid = pn[j].sid
        BY <2>2, <2>6, <3>1, <3>2
      <4>2. pn[i].doc <= pn[j].doc
        BY <2>6, <3>1, <3>2, <4>1 DEF NeverBack
      <4> QED BY <2>2, <3>1, <3>2, <4>2
    <3>3. CASE j = Len(pn) + 1
      BY <2>1, <2>2, <2>5, <2>6, <3>1, <3>3
    <3> QED BY <2>2, <3>2, <3>3
  <2>7. \A i \in 1 .. Len(pn') : pn'[i].doc \in 0 .. value
    BY <2>1, <2>2, <2>5
  <2>8. ASSUME NEW k \in wire', k.status = "none", NEW i \in 1 .. Len(pn'), pn'[i].sid = k.sid
        PROVE  pn'[i].doc <= k.body
    <3>1. k \in wire \ {m}
      BY <2>3, <2>8
    <3>2. CASE i \in 1 .. Len(pn)
      <4>1. pn[i].sid = k.sid
        BY <2>2, <2>8, <3>2
      <4>2. pn[i].doc <= k.body
        BY <2>8, <3>1, <3>2, <4>1 DEF NeverBack
      <4> QED BY <2>2, <3>2, <4>2
    <3>3. CASE i = Len(pn) + 1
      BY <2>1, <2>2, <2>4, <2>8, <3>1, <3>3
    <3> QED BY <2>2, <3>2, <3>3
  <2>9. ASSUME NEW s, Current(s)
        PROVE  /\ \A k \in wire' : k.status = "none" /\ k.sid = s => shown <= k.body
               /\ \A i \in 1 .. Len(pn') : pn'[i].sid = s => shown <= pn'[i].doc
    <3>1. \A k \in wire : k.status = "none" /\ k.sid = s => shown <= k.body
      BY <2>9 DEF NeverBack
    <3>2. \A i \in 1 .. Len(pn) : pn[i].sid = s => shown <= pn[i].doc
      BY <2>9 DEF NeverBack
    <3> QED BY <1>2, <2>1, <2>2, <2>3, <3>1, <3>2
  <2>10. \A s : Current(s)' => Current(s)
    BY <1>2 DEF Current, Granted
  <2> HIDE DEF pn
  <2> QED BY <1>2, <2>5, <2>6, <2>7, <2>8, <2>9, <2>10 DEF NeverBack, pn
<1> QED BY <1>2, <1>3, <1>4

\* The event that is emitted, if one is, is of the one current subscription.
LEMMA EmitNeverBack ==
    ASSUME Ends, OneAtATime, NeverBack, P!EmitEvent, UNCHANGED svars
    PROVE  /\ NeverBack'
           /\ shown' # shown => shown' \in 0 .. value /\ shown' >= shown
<1> DEFINE pn == pending_notifies
           e == Head(pn)
<1>1. /\ pn \in Seq(PP!Event) /\ Len(pn) \in Nat
      /\ \A i \in 1 .. Len(pn) : pn[i].sid \in SIDs /\ pn[i].doc \in Int
      /\ shown \in Int /\ value \in Nat
      /\ \A k \in wire : k.sid \in SIDs /\ k.body \in Int
  BY DocTypes
<1>2. /\ pn # <<>> /\ pn' = Tail(pn) /\ UNCHANGED <<sid, requests, wire, value>>
      /\ (e.sid = sid /\ shown' = e.doc) \/ shown' = shown
  BY DEF P!EmitEvent, P!application, P!subscription, P!outbox, svars
<1>3. /\ Len(pn) >= 1 /\ e = pn[1] /\ 1 \in 1 .. Len(pn) /\ Len(pn') = Len(pn) - 1
      /\ \A i \in 1 .. Len(pn') : pn'[i] = pn[i + 1] /\ i + 1 \in 2 .. Len(pn) /\ i \in Nat
      /\ \A i \in 2 .. Len(pn) : i \in 1 .. Len(pn) /\ 1 < i
  BY <1>1, <1>2
<1>4. /\ e.doc \in 0 .. value /\ e.doc \in Int
      /\ \A i \in 2 .. Len(pn) : pn[i].sid = e.sid => e.doc <= pn[i].doc
      /\ \A m \in wire : m.status = "none" /\ m.sid = e.sid => e.doc <= m.body
  BY <1>1, <1>3 DEF NeverBack
<1> HIDE DEF e
<1>5. \A i \in 1 .. Len(pn') : pn'[i].doc \in 0 .. value
  BY <1>3 DEF NeverBack
<1>6. ASSUME NEW i \in 1 .. Len(pn'), NEW j \in 1 .. Len(pn'), i < j, pn'[i].sid = pn'[j].sid
      PROVE  pn'[i].doc <= pn'[j].doc
  <2>1. i + 1 < j + 1 /\ i + 1 \in 1 .. Len(pn) /\ j + 1 \in 1 .. Len(pn)
    BY <1>3, <1>6
  <2>2. pn'[i] = pn[i + 1] /\ pn'[j] = pn[j + 1]
    BY <1>3
  <2> QED BY <1>6, <2>1, <2>2 DEF NeverBack
<1>7. ASSUME NEW m \in wire, m.status = "none", NEW i \in 1 .. Len(pn'), pn'[i].sid = m.sid
      PROVE  pn'[i].doc <= m.body
  BY <1>3, <1>7 DEF NeverBack
<1>8. \A s : Current(s)' = Current(s)
  BY <1>2 DEF Current, Granted
<1>9. sid # NoSid
  BY <1>2 DEF OneAtATime
<1>10. \A s : Current(s) => s = sid
  <2>1. ~Asked
    BY <1>9 DEF OneAtATime
  <2> QED BY <2>1 DEF Current, Granted, Asked
<1>11. ASSUME NEW s, Current(s)
       PROVE  /\ \A m \in wire : m.status = "none" /\ m.sid = s => shown' <= m.body
              /\ \A i \in 1 .. Len(pn') : pn'[i].sid = s => shown' <= pn'[i].doc
  <2>1. /\ \A m \in wire : m.status = "none" /\ m.sid = s => shown <= m.body
        /\ \A i \in 1 .. Len(pn) : pn[i].sid = s => shown <= pn[i].doc
    BY <1>11 DEF NeverBack
  <2>2. CASE shown' = shown
    BY <1>3, <2>1, <2>2
  <2>3. CASE e.sid = sid /\ shown' = e.doc
    <3>1. e.sid = s
      BY <1>10, <1>11, <2>3
    <3> QED BY <1>3, <1>4, <2>3, <3>1
  <2> QED BY <1>2, <2>2, <2>3
<1>12. shown' <= value
  BY <1>1, <1>2, <1>4 DEF NeverBack
<1>13. e.sid = sid => shown <= e.doc
  <2>1. e.sid \in SIDs
    BY <1>1, <1>3
  <2> QED BY <1>3, <2>1 DEF NeverBack, Current
<1> HIDE DEF pn
<1>14. NeverBack'
  BY <1>2, <1>5, <1>6, <1>7, <1>8, <1>11, <1>12 DEF NeverBack, pn
<1> QED BY <1>1, <1>2, <1>4, <1>13, <1>14

LEMMA NeverBackStep ==
    ASSUME Ends, Ends', Valued, OneAtATime, NeverBack, [Next]_allvars
    PROVE  /\ NeverBack'
           /\ \/ shown' = shown
              \/ value' = value /\ shown' \in 0 .. value /\ shown' >= shown
<1>1. CASE shown' = shown /\ pending_notifies' \in {pending_notifies, <<>>}
  BY <1>1, QueueNeverBack
<1>2. CASE UNCHANGED pvars
  BY <1>1, <1>2 DEF pvars
<1>3. CASE ProxyStep
  <2>1. CASE P!EmitEvent
    <3>1. value' = value
      BY <1>3 DEF ProxyStep, svars
    <3> QED BY <1>3, <2>1, <3>1, EmitNeverBack DEF ProxyStep
  <2>2. CASE ~P!EmitEvent
    <3>1. shown' = shown /\ pending_notifies' \in {pending_notifies, <<>>}
      BY <1>3, <2>2
      DEF ProxyStep, P!SetSubscribed, P!SetUnsubscribed, P!Dispose, P!Emit, P!EmitStart,
          P!EmitMissed, P!CallbackReturns, P!EmitDone, P!SubscriptionExpire, P!Response,
          P!ResponseError, P!ResponseUnwanted, P!ResponseOk, P!ResponseLost,
          P!ResponseCancelled, P!application, P!inbox
    <3> QED BY <1>1, <3>1
  <2> QED BY <2>1, <2>2
<1>4. CASE ServiceStep \/ Tick \/ Serve \/ UNCHANGED allvars
  <2>1. shown' = shown /\ pending_notifies' = pending_notifies
    BY <1>4 DEF ServiceStep, Tick, Serve, ServeSubscribe, ServeRenew, ServeUnsubscribe,
       RequestLost, Answered, P!Answer, P!Forget, P!Tick, P!application, P!inbox, pvars,
       allvars
  <2> QED BY <1>1, <2>1
<1>5. CASE Network
  <2>1. PICK m \in wire : Deliver(m) \/ Rejected(m) \/ NotifyLost(m)
    BY <1>5 DEF Network
  <2>2. CASE Deliver(m)
    <3>1. shown' = shown
      BY <2>2 DEF Deliver, P!Notify, P!application
    <3> QED BY <2>2, <3>1, DeliverNeverBack
  <2>3. CASE Rejected(m) \/ NotifyLost(m)
    BY <1>2, <2>3 DEF Rejected, NotifyLost
  <2> QED BY <2>1, <2>2, <2>3
<1> QED BY <1>3, <1>4, <1>5 DEF Next

LEMMA PromiseInit == Init => Promise!Init
BY DEF Init, S!InitWith, P!Init, P!Nothing, Promise!Init, Promise!Unknown

LEMMA PromiseStep ==
    ASSUME Ends, Ends', Valued, OneAtATime, NeverBack, [Next]_allvars
    PROVE  [Promise!Next]_<<value, [p \in {"proxy"} |-> shown]>>
<1>1. value' \in {value, value + 1} /\ value \in 0 .. MaxValue /\ value' \in 0 .. MaxValue
  BY NewBodies DEF Valued, Ends, SP!IInv, SP!TypeOK
<1>2. \/ shown' = shown
      \/ value' = value /\ shown' \in 0 .. value /\ shown' >= shown
  BY NeverBackStep
<1>3. CASE shown' = shown /\ value' = value + 1
  BY <1>1, <1>3, GenaAssumption DEF Promise!Next, Promise!Change
<1>4. CASE shown' = shown /\ value' = value
  BY <1>4
<1>5. CASE value' = value /\ shown' \in 0 .. value /\ shown' >= shown
  <2>1. [p \in {"proxy"} |-> shown'] = [[p \in {"proxy"} |-> shown] EXCEPT !["proxy"] = shown']
    OBVIOUS
  <2>2. Promise!Tell("proxy")
    BY <1>5, <2>1 DEF Promise!Tell
  <2> QED BY <2>2 DEF Promise!Next
<1> QED BY <1>1, <1>2, <1>3, <1>4, <1>5

\* The exchange implements EventedValue: whatever is lost, frozen, disposed of
\* or overtakes, the application of the control point sees values the variable
\* had, and never an older one than it saw before.
THEOREM ProxyKeepsPromise ==
    ASSUME Happens \cap {"time", "unsubscribe"} = {}, SUBSCRIPTION_TIMEOUT >= 2
    PROVE  Spec => KeepsPromise
<1>1. Init => Valued /\ OneAtATime /\ NeverBack /\ Promise!Init
  BY ValuedInit, OneAtATimeInit, NeverBackInit, PromiseInit
<1>2. Ends /\ Ends' /\ Valued /\ OneAtATime /\ NeverBack /\ [Next]_allvars
         => Valued' /\ OneAtATime' /\ NeverBack'
  BY ValuedStep, OneAtATimeStep, NeverBackStep
<1>3. Ends /\ Ends' /\ Valued /\ OneAtATime /\ NeverBack /\ [Next]_allvars
         => [Promise!Next]_<<value, [p \in {"proxy"} |-> shown]>>
  BY PromiseStep
<1> QED BY <1>1, <1>2, <1>3, EndsHold, PTL DEF Spec, KeepsPromise, Promise!Spec

-----------------------------------------------------------------------------
(* Nothing is lost silently, when events do not overtake the answer to     *)
(* SUBSCRIBE either: the service's books of what the subscriber was told   *)
(* are then those of the proxy.                                            *)

\* The subscription the proxy has or gets is one the service made, and not one
\* that anybody gave up; a SID that was never handed out was told nothing.
Books ==
    /\ \A s : Current(s) => Used(s) /\ ~data[s].to_delete
    /\ \A r \in requests : r.method = "UNSUBSCRIBE" => Used(r.sid) /\ ~Current(r.sid)
    /\ \A s \in SIDs : ~Used(s) => view[s] = SP!Empty

\* What the subscription of the proxy was told is shown, or waits in the queue,
\* and no event in the queue is newer.
UpToDate ==
    LET pn == pending_notifies IN
    /\ \A s \in SIDs : Granted(s) => view[s] = SP!Empty
    /\ \A i \in 1 .. Len(pn) : pn[i].doc <= view[pn[i].sid]
    /\ sid # NoSid /\ view[sid] # SP!Empty =>
          \/ shown = view[sid]
          \/ \E i \in 1 .. Len(pn) : pn[i].sid = sid /\ pn[i].doc = view[sid]

LEMMA BooksInit == Init => Books
<1> SUFFICES ASSUME Init PROVE Books
  OBVIOUS
<1>1. sid = NoSid /\ requests = {} /\ view = [s \in SIDs |-> SP!Empty]
  BY DEF Init, P!Init, S!InitWith, S!Empty, SP!Empty
<1> QED BY <1>1, GenaAssumption DEF Books, Current, Granted

LEMMA UpToDateInit == Init => UpToDate
<1> SUFFICES ASSUME Init PROVE UpToDate
  OBVIOUS
<1>1. sid = NoSid /\ requests = {} /\ pending_notifies = <<>>
  BY DEF Init, P!Init
<1>2. Len(<<>>) = 0 /\ 1 .. 0 = {}
  OBVIOUS
<1> QED BY <1>1, <1>2 DEF UpToDate, Granted

\* A SID that was handed out is not handed out again.
LEMMA UsedStays ==
    ASSUME Ends, [Next]_allvars, NEW s, Used(s)
    PROVE  Used(s)'
<1>1. SP!TypeOK /\ subscriptions \subseteq SIDs
  BY DEF Ends, SP!IInv, SP!TypeOK
<1>2. CASE ServiceStep
  BY <1>1, <1>2, ServiceKeepsTimers
<1>3. CASE UNCHANGED <<subscriptions, cancelled>>
  BY <1>3 DEF Used
<1>4. CASE ProxyStep \/ Tick \/ Network \/ UNCHANGED allvars
  BY <1>3, <1>4 DEF ProxyStep, Tick, S!Tick, Network, Deliver, Rejected, NotifyLost,
     S!Answer, S!table, svars, allvars
<1>5. CASE Serve
  <2>1. \/ \E t \in SIDs : S!Subscribe(t, 1)
        \/ \E t : S!Resubscribe(t) \/ S!Unsubscribe(t) \/ S!UnsubscribeEarly(t)
        \/ UNCHANGED svars
    BY <1>5, ServedRequest, Zenon
  <2>2. CASE \E t : S!Unsubscribe(t)
    BY <2>2 DEF S!Unsubscribe, S!RemoveSubscriptions, Used
  <2>3. CASE \E t \in SIDs : S!Subscribe(t, 1)
    BY <2>3 DEF S!Subscribe, Used
  <2>4. CASE \/ \E t : S!Resubscribe(t) \/ S!UnsubscribeEarly(t)
             \/ UNCHANGED svars
    BY <1>3, <2>4 DEF S!Resubscribe, S!UnsubscribeEarly, S!table, svars
  <2> QED BY <2>1, <2>2, <2>3, <2>4
<1> QED BY <1>2, <1>4, <1>5 DEF Next

\* NOTIFY marks nobody for deletion.
LEMMA NotifyMarksNone ==
    ASSUME NEW B, NEW d \in [SIDs -> SP!SubscriptionData], NEW w, NEW body,
           S!NotifySubscribers(B, d, w, body), NEW s \in SIDs
    PROVE  data'[s].to_delete = d[s].to_delete
BY DEF S!NotifySubscribers, SP!SubscriptionData

\* Only an UNSUBSCRIBE marks a subscription for deletion.
LEMMA OnlyUnsubscribeMarks ==
    ASSUME Ends, [Next]_allvars, NEW s \in SIDs, data'[s].to_delete
    PROVE  \/ data[s].to_delete
           \/ \E r \in requests : r.method = "UNSUBSCRIBE" /\ r.sid = s
<1> DEFINE Goal == \/ data[s].to_delete
                   \/ \E r \in requests : r.method = "UNSUBSCRIBE" /\ r.sid = s
<1> SUFFICES Goal
  OBVIOUS
<1>1. data \in [SIDs -> SP!SubscriptionData] /\ wire \subseteq SP!Notification
  BY DEF Ends, SP!IInv, SP!TypeOK
<1>2. CASE data' = data
  BY <1>2
<1>3. ASSUME NEW B, data' = S!Freed(data, B)
      PROVE  Goal
  BY <1>3 DEF S!Freed, S!Zeroed
<1>4. ASSUME NEW B, NEW w, NEW body, S!NotifySubscribers(B, data, w, body)
      PROVE  Goal
  BY <1>1, <1>4, NotifyMarksNone
<1>5. ASSUME NEW m \in wire, S!Response(m)
      PROVE  Goal
  <2>1. m.sid \in SIDs
    BY <1>1 DEF SP!Notification
  <2>2. CASE S!ResponseCancelled(m)
    BY <1>2, <2>2 DEF S!ResponseCancelled
  <2>3. CASE S!ResponseOk(m)
    <3>1. data' = [S!Unlink(m) EXCEPT ![m.sid].initial_state_sent = TRUE,
                                      ![m.sid].current = 1]
      BY <2>3 DEF S!ResponseOk
    <3>2. data'[s].to_delete = data[s].to_delete
      BY <1>1, <2>1, <3>1 DEF S!Unlink, SP!SubscriptionData
    <3> QED BY <3>2
  <2>4. CASE S!ResponsePreconditionFailed(m)
    BY <1>3, <2>4 DEF S!ResponsePreconditionFailed
  <2>5. CASE S!ResponseNotifyFailed(m)
    <3>1. data' = [S!Unlink(m) EXCEPT ![m.sid].current = 1]
      BY <2>5 DEF S!ResponseNotifyFailed
    <3>2. data'[s].to_delete = data[s].to_delete
      BY <1>1, <2>1, <3>1 DEF S!Unlink, SP!SubscriptionData
    <3> QED BY <3>2
  <2> QED BY <1>5, <2>2, <2>3, <2>4, <2>5, NoSecondTry DEF S!Response
<1>6. CASE ServiceStep
  <2>1. CASE S!NotifyValue \/ S!ThawNotify
    <3>1. \/ data' = data
          \/ \E w, body : S!NotifySubscribers(subscriptions, data, w, body)
      BY <2>1, Zenon DEF S!NotifyValue, S!ThawNotify
    <3> QED BY <1>2, <1>4, <3>1
  <2>2. CASE S!NotifyFrozen \/ S!FreezeNotify
    BY <1>2, <2>2 DEF S!NotifyFrozen, S!FreezeNotify
  <2>3. CASE S!RootDeviceUnavailable \/ \E t \in SIDs : S!SubscriptionTimeout(t)
    <3>1. \E B : data' = S!Freed(data, B)
      BY <2>3, Zenon DEF S!RootDeviceUnavailable, S!SubscriptionTimeout
    <3> QED BY <1>3, <3>1
  <2> QED BY <1>5, <1>6, <2>1, <2>2, <2>3, Zenon DEF ServiceStep
<1>7. CASE Serve
  <2>1. PICK r \in requests :
           \/ \E t \in SIDs : S!Subscribe(t, 1)
           \/ S!Resubscribe(r.sid)
           \/ /\ r.method = "UNSUBSCRIBE"
              /\ S!Unsubscribe(r.sid) \/ S!UnsubscribeEarly(r.sid)
           \/ UNCHANGED svars
    BY <1>7, ServedRequest, Zenon
  <2>2. ASSUME NEW t \in SIDs, S!Subscribe(t, 1)
        PROVE  Goal
    <3> DEFINE new == [S!Zeroed EXCEPT !.callbacks = 1, !.current = 1]
               d   == [data EXCEPT ![t] = new]
    <3>1. \E body : S!NotifySubscribers({t}, d, wire, body)
      BY <2>2, Zenon DEF S!Subscribe
    <3>2. new \in SP!SubscriptionData /\ ~new.to_delete
      <4>1. S!Zeroed \in SP!SubscriptionData /\ ~S!Zeroed.to_delete
        BY GenaAssumption DEF S!Zeroed, SP!SubscriptionData
      <4>2. 1 \in 0 .. 1
        OBVIOUS
      <4> QED BY <4>1, <4>2 DEF SP!SubscriptionData
    <3> HIDE DEF new
    <3>3. d \in [SIDs -> SP!SubscriptionData]
      BY <1>1, <3>2
    <3>4. d[s].to_delete => data[s].to_delete
      BY <1>1, <3>2
    <3> HIDE DEF d
    <3> QED BY <3>1, <3>3, <3>4, NotifyMarksNone
  <2>3. CASE S!Resubscribe(r.sid) \/ UNCHANGED svars
    BY <1>2, <2>3 DEF S!Resubscribe, svars
  <2>4. CASE S!Unsubscribe(r.sid)
    BY <1>3, <2>4 DEF S!Unsubscribe
  <2>5. CASE r.method = "UNSUBSCRIBE" /\ S!UnsubscribeEarly(r.sid)
    BY <1>1, <2>5 DEF S!UnsubscribeEarly
  <2> QED BY <2>1, <2>2, <2>3, <2>4, <2>5
<1>8. CASE ProxyStep \/ Tick \/ Network \/ UNCHANGED allvars
  BY <1>2, <1>8 DEF ProxyStep, Tick, S!Tick, Network, Deliver, Rejected, NotifyLost,
     S!Answer, svars, allvars
<1> HIDE DEF Goal
<1> QED BY <1>6, <1>7, <1>8 DEF Next

\* What the service knows of a subscriber changes when it gets a NOTIFY.
LEMMA ViewStep ==
    ASSUME Ends, Valued, [Next]_allvars
    PROVE  \/ view' = view
           \/ \E m \in wire : Deliver(m) /\ view' = [view EXCEPT ![m.sid] = m.body]
<1>1. CASE Network
  <2>1. PICK m \in wire : Deliver(m) \/ Rejected(m) \/ NotifyLost(m)
    BY <1>1 DEF Network
  <2>2. CASE Rejected(m) \/ NotifyLost(m)
    BY <2>2 DEF Rejected, NotifyLost, S!Answer
  <2>3. CASE Deliver(m)
    <3>1. m.body # S!Empty
      BY GenaAssumption DEF Valued, S!Empty, Ends, SP!IInv, SP!TypeOK
    <3>2. view' = [view EXCEPT ![m.sid] = m.body]
      BY <2>3, <3>1 DEF Deliver, S!Answer
    <3> QED BY <2>3, <3>2
  <2> QED BY <2>1, <2>2, <2>3
<1>2. CASE ServiceStep
  BY <1>2, NoSecondTry
  DEF ServiceStep, S!NotifyValue, S!FreezeNotify, S!NotifyFrozen, S!ThawNotify,
      S!RootDeviceUnavailable, S!SubscriptionTimeout, S!Response, S!ResponseCancelled,
      S!ResponseOk, S!ResponsePreconditionFailed, S!ResponseNotifyFailed
<1>3. CASE ProxyStep \/ Tick \/ UNCHANGED allvars
  BY <1>3 DEF ProxyStep, Tick, S!Tick, svars, allvars
<1>4. CASE Serve
  <2>1. \/ \E t \in SIDs : S!Subscribe(t, 1)
        \/ \E t : S!Resubscribe(t) \/ S!Unsubscribe(t) \/ S!UnsubscribeEarly(t)
        \/ UNCHANGED svars
    BY <1>4, ServedRequest, Zenon
  <2> QED BY <2>1 DEF S!Subscribe, S!Resubscribe, S!Unsubscribe, S!UnsubscribeEarly, svars
<1> QED BY <1>1, <1>2, <1>3, <1>4 DEF Next

\* A NOTIFY is for a subscription that was made.
LEMMA WireIsUsed ==
    ASSUME Ends, NEW m \in wire
    PROVE  m.sid \in SIDs /\ Used(m.sid)
<1>1. /\ m.sid \in SIDs /\ m.id \in Nat \ {0} /\ m.id <= sent[m.sid]
  BY DEF Ends, SP!IInv, SP!TypeOK, SP!Notification, SP!Consistent
<1>2. ~Used(m.sid) => sent[m.sid] = 0
  BY <1>1 DEF Ends, SP!IInv, SP!OutsideTable, Used
<1> QED BY <1>1, <1>2

\* An answer is to a request that was there before.
LEMMA AnswersWereAsked ==
    ASSUME Ends, [Next]_allvars, NEW q \in requests', q.method # "UNSUBSCRIBE",
           q.reply.status = "ok"
    PROVE  Asked
<1>1. CASE q \in requests
  BY <1>1 DEF Asked
<1>2. CASE ProxyStep
  <2>1. q \in requests
    BY <1>2, NewRequests, FarewellIsUnanswered
    DEF ProxyStep, P!SetSubscribed, P!SetUnsubscribed, P!Dispose, P!Emit, P!EmitStart,
        P!EmitEvent, P!EmitMissed, P!CallbackReturns, P!EmitDone, P!SubscriptionExpire,
        P!Response, P!ResponseError, P!ResponseUnwanted, P!ResponseOk, P!ResponseLost,
        P!ResponseCancelled, P!GotResponse, P!outbox
  <2> QED BY <1>1, <2>1
<1>3. CASE Serve
  <2>1. PICK r \in requests :
           P!Forget(r) \/ (r.method # "UNSUBSCRIBE" /\ \E reply : P!Answer(r, reply))
    BY <1>3, ServedRequest
  <2>2. CASE P!Forget(r)
    BY <1>1, <2>2 DEF P!Forget
  <2> QED BY <2>1, <2>2 DEF Asked
<1>4. CASE UNCHANGED requests
  BY <1>1, <1>4
<1>5. CASE ServiceStep \/ Tick \/ Network \/ UNCHANGED allvars
  BY <1>4, <1>5 DEF ServiceStep, Tick, Network, Deliver, Rejected, NotifyLost, P!Notify,
     P!Tick, P!outbox, pvars, allvars
<1> QED BY <1>2, <1>3, <1>5 DEF Next

\* The proxy says farewell to the subscription it had, and has none then.
LEMMA NewFarewells ==
    ASSUME Ends, OneAtATime, [Next]_allvars, NEW r \in requests', r.method = "UNSUBSCRIBE"
    PROVE  r \in requests \/ (r.sid = sid /\ sid # NoSid /\ ~Current(r.sid)')
<1>1. CASE ProxyStep
  <2>1. \/ r \in requests
        \/ r \in P!Farewell /\ sid' = NoSid
    BY <1>1, NewRequests, FarewellIsUnanswered
    DEF ProxyStep, P!SetSubscribed, P!SetUnsubscribed, P!Dispose, P!Emit, P!EmitStart,
        P!EmitEvent, P!EmitMissed, P!CallbackReturns, P!EmitDone, P!SubscriptionExpire,
        P!Response, P!ResponseError, P!ResponseUnwanted, P!ResponseOk, P!ResponseLost,
        P!ResponseCancelled, P!GotResponse, P!outbox
  <2>2. CASE r \in P!Farewell /\ sid' = NoSid
    <3>1. r.sid = sid /\ sid # NoSid
      BY <2>2, NewRequests
    <3>2. ~Asked
      BY <3>1 DEF OneAtATime
    <3>3. ~Granted(r.sid)'
      BY <3>2, AnswersWereAsked DEF Granted
    <3> QED BY <2>2, <3>1, <3>3 DEF Current
  <2> QED BY <2>1, <2>2
<1>2. CASE Serve
  <2>1. PICK q \in requests :
           P!Forget(q) \/ (q.method # "UNSUBSCRIBE" /\ \E reply : P!Answer(q, reply))
    BY <1>2, ServedRequest
  <2>2. CASE P!Forget(q)
    BY <2>2 DEF P!Forget
  <2>3. ASSUME NEW reply, P!Answer(q, reply), q.method # "UNSUBSCRIBE"
        PROVE  r \in requests
    BY <2>3, AnswerChanges
  <2> QED BY <2>1, <2>2, <2>3
<1>3. CASE ServiceStep \/ Tick \/ Network \/ UNCHANGED allvars
  BY <1>3 DEF ServiceStep, Tick, Network, Deliver, Rejected, NotifyLost, P!Notify,
     P!Tick, P!outbox, pvars, allvars
<1> QED BY <1>1, <1>2, <1>3 DEF Next

LEMMA BooksStep ==
    ASSUME Ends, Valued, OneAtATime, Books, [Next]_allvars
    PROVE  Books'
<1>1. ASSUME NEW s, Current(s)'
      PROVE  Used(s)' /\ ~data'[s].to_delete
  <2>1. s \in SIDs
    BY <1>1 DEF Current
  <2>2. \/ Current(s) /\ Used(s) /\ ~data[s].to_delete
        \/ ~Used(s) /\ Used(s)'
    BY <1>1, CurrentStep DEF Books
  <2>3. ~Used(s) => data[s] = SP!Zeroed
    BY <2>1 DEF Ends, SP!IInv, SP!OutsideTable, Used
  <2>4. ~SP!Zeroed.to_delete
    BY DEF SP!Zeroed
  <2>5. ASSUME data'[s].to_delete
        PROVE  FALSE
    <3>1. PICK r \in requests : r.method = "UNSUBSCRIBE" /\ r.sid = s
      BY <2>1, <2>2, <2>3, <2>4, <2>5, OnlyUnsubscribeMarks
    <3>2. Used(s) /\ ~Current(s)
      BY <3>1 DEF Books
    <3> QED BY <2>2, <3>2
  <2> QED BY <2>2, <2>5, UsedStays
<1>2. ASSUME NEW r \in requests', r.method = "UNSUBSCRIBE"
      PROVE  Used(r.sid)' /\ ~Current(r.sid)'
  <2>1. CASE r \in requests
    <3>1. Used(r.sid) /\ ~Current(r.sid)
      BY <1>2, <2>1 DEF Books
    <3>2. ~Current(r.sid)'
      BY <3>1, CurrentStep
    <3> QED BY <3>1, <3>2, UsedStays
  <2>2. CASE r.sid = sid /\ sid # NoSid /\ ~Current(r.sid)'
    <3>1. Current(r.sid)
      BY <2>2 DEF Current, Ends, PP!IInv, PP!TypeOK
    <3>2. Used(r.sid)
      BY <3>1 DEF Books
    <3> QED BY <2>2, <3>2, UsedStays
  <2> QED BY <1>2, <2>1, <2>2, NewFarewells
<1>3. ASSUME NEW s \in SIDs, ~Used(s)'
      PROVE  view'[s] = SP!Empty
  <2>1. ~Used(s)
    BY <1>3, UsedStays
  <2>2. view[s] = SP!Empty
    BY <2>1 DEF Books
  <2>3. view \in [SIDs -> SP!Values]
    BY DEF Ends, SP!IInv, SP!TypeOK
  <2>4. \A m \in wire : m.sid # s
    BY <2>1, WireIsUsed
  <2> QED BY <2>2, <2>3, <2>4, ViewStep
<1> QED BY <1>1, <1>2, <1>3 DEF Books

\* A subscription whose SID is on its way to the proxy was told nothing, as its
\* events do not come before the answer.
LEMMA GrantedIsUntold ==
    ASSUME "early-notify" \notin Happens, Ends, Valued, OneAtATime, Books, UpToDate,
           [Next]_allvars, NEW s \in SIDs, Granted(s)'
    PROVE  view'[s] = SP!Empty
<1>1. Asked
  BY AnswersWereAsked DEF Granted
<1>2. s # sid
  BY <1>1, GenaAssumption DEF OneAtATime
<1>3. Granted(s) \/ (~Used(s) /\ \A m \in wire : m.sid # s)
  BY <1>2, CurrentStep DEF Current
<1>4. view[s] = SP!Empty
  BY <1>3 DEF UpToDate, Books
<1>5. view \in [SIDs -> SP!Values]
  BY DEF Ends, SP!IInv, SP!TypeOK
<1>6. ASSUME NEW m \in wire, Deliver(m), m.sid = s
      PROVE  FALSE
  <2>1. Granted(s)
    BY <1>3, <1>6
  <2>2. PICK r \in requests : r.method # "UNSUBSCRIBE" /\ r.reply.status = "ok" /\ r.reply.sid = s
    BY <2>1 DEF Granted
  <2>3. r.method = "SUBSCRIBE"
    BY <2>2 DEF OneAtATime, Ends, PP!IInv, PP!TypeOK, PP!Request
  <2> QED BY <1>6, <2>2, <2>3 DEF Deliver, Early
<1> QED BY <1>4, <1>5, <1>6, ViewStep

\* The SID of the proxy, when it changes, becomes one that was granted.
LEMMA SidStep ==
    ASSUME [Next]_allvars
    PROVE  \/ sid' \in {sid, NoSid}
           \/ \E s : s = sid' /\ Granted(s)
<1>1. CASE ProxyStep
  <2>1. CASE \E r \in requests : P!ResponseOk(r)
    <3>1. PICK r \in requests : P!ResponseOk(r)
      BY <2>1
    <3>2. sid' = r.reply.sid /\ r.reply.status = "ok" /\ r.method # "UNSUBSCRIBE"
      BY <3>1 DEF P!ResponseOk, P!GotResponse
    <3> QED BY <3>2 DEF Granted
  <2>2. CASE ~\E r \in requests : P!ResponseOk(r)
    <3>1. sid' \in {sid, NoSid}
      BY <1>1, <2>2
      DEF ProxyStep, P!SetSubscribed, P!SetUnsubscribed, P!Dispose, P!Emit, P!EmitStart,
          P!EmitEvent, P!EmitMissed, P!CallbackReturns, P!EmitDone, P!SubscriptionExpire,
          P!Response, P!ResponseError, P!ResponseUnwanted, P!ResponseLost,
          P!ResponseCancelled, P!subscription
    <3> QED BY <3>1
  <2> QED BY <2>1, <2>2
<1>2. CASE ServiceStep \/ Tick \/ Serve \/ Network \/ UNCHANGED allvars
  <2>1. sid' = sid
    BY <1>2
    DEF ServiceStep, Tick, P!Tick, Serve, ServeSubscribe, ServeRenew, ServeUnsubscribe,
        RequestLost, Answered, P!Answer, P!Forget, Network, Deliver, Rejected, NotifyLost,
        P!Notify, P!subscription, pvars, allvars
  <2> QED BY <2>1
<1> QED BY <1>1, <1>2 DEF Next

\* Nothing is shown and nothing queued; the queue is dropped with the SID.
LEMMA QueueUpToDate ==
    ASSUME "early-notify" \notin Happens, Ends, Valued, OneAtATime, Books, UpToDate,
           [Next]_allvars, Ends', shown' = shown, view' = view,
           \/ pending_notifies' = pending_notifies
           \/ pending_notifies' = <<>> /\ sid' = NoSid
    PROVE  UpToDate'
<1> DEFINE pn == pending_notifies
<1>1. \A s \in SIDs : Granted(s)' => view'[s] = SP!Empty
  BY GrantedIsUntold
<1>2. Len(<<>>) = 0 /\ 1 .. 0 = {}
  OBVIOUS
<1>3. \A i \in 1 .. Len(pn') : i \in 1 .. Len(pn) /\ pn'[i] = pn[i]
  BY <1>2
<1>4. \A i \in 1 .. Len(pn') : pn'[i].doc <= view'[pn'[i].sid]
  BY <1>3 DEF UpToDate
<1>5. ASSUME sid' # NoSid, view'[sid'] # SP!Empty
      PROVE  \/ shown' = view'[sid']
             \/ \E i \in 1 .. Len(pn') : pn'[i].sid = sid' /\ pn'[i].doc = view'[sid']
  <2>1. pn' = pn
    BY <1>5
  <2>2. CASE sid' = sid
    BY <1>5, <2>1, <2>2 DEF UpToDate
  <2>3. CASE \E s : s = sid' /\ Granted(s)
    <3>1. PICK s : s = sid' /\ Granted(s)
      BY <2>3
    <3>2. s \in SIDs
      BY <1>5, <3>1 DEF Ends, PP!IInv, PP!TypeOK
    <3> QED BY <1>5, <3>1, <3>2 DEF UpToDate
  <2> QED BY <1>5, <2>2, <2>3, SidStep
<1> HIDE DEF pn
<1> QED BY <1>1, <1>4, <1>5 DEF UpToDate, pn

LEMMA DeliverUpToDate ==
    ASSUME "early-notify" \notin Happens, Ends, Valued, OneAtATime, Books, NeverBack, UpToDate,
           [Next]_allvars, NEW m \in wire, Deliver(m), view' = [view EXCEPT ![m.sid] = m.body]
    PROVE  UpToDate'
<1> DEFINE pn == pending_notifies
           e == EventOf(m)
<1>1. /\ pn \in Seq(PP!Event) /\ Len(pn) \in Nat
      /\ \A i \in 1 .. Len(pn) : pn[i].sid \in SIDs /\ pn[i].doc \in Int
      /\ m.sid \in SIDs /\ m.body \in Int
  BY DocTypes
<1>2. /\ UNCHANGED <<shown, sid>>
      /\ IF sid = NoSid THEN pn' = pn ELSE pn' = Append(pn, e)
      /\ m.status = "none"
  BY DEF Deliver, P!Notify, P!application, P!subscription, S!Answer
<1>3. \A s \in SIDs : Granted(s)' => view'[s] = SP!Empty
  BY GrantedIsUntold
<1>4. /\ view \in [SIDs -> SP!Values]
      /\ view'[m.sid] = m.body /\ \A s \in SIDs : s # m.sid => view'[s] = view[s]
  BY <1>1 DEF Ends, SP!IInv, SP!TypeOK
<1>5. \A i \in 1 .. Len(pn) : pn[i].doc <= view'[pn[i].sid]
  <2>1. ASSUME NEW i \in 1 .. Len(pn), pn[i].sid = m.sid
        PROVE  pn[i].doc <= m.body
    BY <1>2, <2>1 DEF NeverBack
  <2>2. \A i \in 1 .. Len(pn) : pn[i].doc <= view[pn[i].sid]
    BY DEF UpToDate
  <2> QED BY <1>1, <1>4, <2>1, <2>2
<1>6. e.sid = m.sid /\ e.doc = m.body /\ e \in PP!Event
  <2>1. e \in P!Event
    BY EventOfType DEF Ends, SP!IInv
  <2> QED BY <2>1 DEF EventOf, P!Event, PP!Event
<1> HIDE DEF e
<1>7. CASE sid = NoSid
  BY <1>2, <1>3, <1>5, <1>7 DEF UpToDate
<1>8. CASE sid # NoSid
  <2>1. /\ Len(pn') = Len(pn) + 1
        /\ \A i \in 1 .. Len(pn) : pn'[i] = pn[i] /\ i \in 1 .. Len(pn')
        /\ pn'[Len(pn) + 1] = e /\ Len(pn) + 1 \in 1 .. Len(pn')
        /\ \A i \in 1 .. Len(pn') : i \in 1 .. Len(pn) \/ i = Len(pn) + 1
    BY <1>1, <1>2, <1>6, <1>8
  <2>2. \A i \in 1 .. Len(pn') : pn'[i].doc <= view'[pn'[i].sid]
    BY <1>1, <1>4, <1>5, <1>6, <2>1
  <2>3. ASSUME view'[sid] # SP!Empty
        PROVE  \/ shown = view'[sid]
               \/ \E i \in 1 .. Len(pn') : pn'[i].sid = sid /\ pn'[i].doc = view'[sid]
    <3>1. CASE sid = m.sid
      BY <1>4, <1>6, <2>1, <3>1
    <3>2. CASE sid # m.sid
      <4>1. sid \in SIDs
        BY <1>8 DEF Ends, PP!IInv, PP!TypeOK
      <4>2. view'[sid] = view[sid]
        BY <1>4, <3>2, <4>1
      <4>3. \/ shown = view[sid]
            \/ \E i \in 1 .. Len(pn) : pn[i].sid = sid /\ pn[i].doc = view[sid]
        BY <1>8, <2>3, <4>2 DEF UpToDate
      <4> QED BY <2>1, <4>2, <4>3
    <3> QED BY <3>1, <3>2
  <2> HIDE DEF pn
  <2> QED BY <1>2, <1>3, <2>2, <2>3 DEF UpToDate, pn
<1> QED BY <1>7, <1>8

\* What is shown is the newest, or a newer one still waits.
LEMMA EmitUpToDate ==
    ASSUME "early-notify" \notin Happens, Ends, Valued, OneAtATime, Books, NeverBack, UpToDate,
           [Next]_allvars, P!EmitEvent, UNCHANGED svars
    PROVE  UpToDate'
<1> DEFINE pn == pending_notifies
           e == Head(pn)
<1>1. /\ pn \in Seq(PP!Event) /\ Len(pn) \in Nat
      /\ \A i \in 1 .. Len(pn) : pn[i].sid \in SIDs /\ pn[i].doc \in Int
      /\ shown \in Int
  BY DocTypes
<1>2. /\ pn # <<>> /\ pn' = Tail(pn) /\ UNCHANGED <<sid, view>>
      /\ IF e.sid = sid THEN shown' = e.doc ELSE shown' = shown
  BY DEF P!EmitEvent, P!application, P!subscription, svars
<1>3. /\ Len(pn) >= 1 /\ e = pn[1] /\ 1 \in 1 .. Len(pn) /\ Len(pn') = Len(pn) - 1
      /\ \A i \in 1 .. Len(pn') : pn'[i] = pn[i + 1] /\ i + 1 \in 1 .. Len(pn)
      /\ \A i \in 1 .. Len(pn) : i = 1 \/ (i - 1 \in 1 .. Len(pn') /\ pn'[i - 1] = pn[i])
  BY <1>1, <1>2
<1>4. \A s \in SIDs : Granted(s)' => view'[s] = SP!Empty
  BY GrantedIsUntold
<1>5. \A i \in 1 .. Len(pn') : pn'[i].doc <= view'[pn'[i].sid]
  BY <1>2, <1>3 DEF UpToDate
<1> HIDE DEF e
<1>6. ASSUME sid # NoSid, view[sid] # SP!Empty
      PROVE  \/ shown' = view[sid]
             \/ \E i \in 1 .. Len(pn') : pn'[i].sid = sid /\ pn'[i].doc = view[sid]
  <2>1. sid \in SIDs /\ view[sid] \in Int
    BY <1>6, GenaAssumption DEF Ends, PP!IInv, PP!TypeOK, SP!IInv, SP!TypeOK, SP!Values
  <2>2. CASE shown = view[sid]
    <3>1. CASE e.sid = sid
      <4>1. shown <= e.doc
        BY <1>3, <2>1, <3>1 DEF NeverBack, Current
      <4>2. e.doc <= view[sid] /\ e.doc \in Int
        BY <1>1, <1>3, <3>1 DEF UpToDate
      <4>3. e.doc = view[sid]
        BY <1>1, <2>1, <2>2, <4>1, <4>2
      <4> QED BY <1>2, <3>1, <4>3
    <3>2. CASE e.sid # sid
      BY <1>2, <2>2, <3>2
    <3> QED BY <3>1, <3>2
  <2>3. ASSUME NEW i \in 1 .. Len(pn), pn[i].sid = sid, pn[i].doc = view[sid]
        PROVE  \/ shown' = view[sid]
               \/ \E j \in 1 .. Len(pn') : pn'[j].sid = sid /\ pn'[j].doc = view[sid]
    <3>1. CASE i = 1
      BY <1>2, <1>3, <2>3, <3>1
    <3>2. CASE i # 1
      <4>1. i - 1 \in 1 .. Len(pn') /\ pn'[i - 1] = pn[i]
        BY <1>3, <3>2
      <4> QED BY <2>3, <4>1
    <3> QED BY <3>1, <3>2
  <2> QED BY <1>6, <2>2, <2>3 DEF UpToDate
<1> HIDE DEF pn
<1> QED BY <1>2, <1>4, <1>5, <1>6 DEF UpToDate, pn

LEMMA UpToDateStep ==
    ASSUME "early-notify" \notin Happens, Ends, Valued, OneAtATime, Books, NeverBack, UpToDate,
           Ends', [Next]_allvars
    PROVE  UpToDate'
<1>1. CASE ProxyStep
  <2>1. CASE P!EmitEvent
    BY <1>1, <2>1, EmitUpToDate DEF ProxyStep
  <2>2. CASE ~P!EmitEvent
    <3>1. view' = view
      BY <1>1 DEF ProxyStep, svars
    <3>2. /\ shown' = shown
          /\ \/ pending_notifies' = pending_notifies
             \/ pending_notifies' = <<>> /\ sid' = NoSid
      <4>1. ~subscribed => sid = NoSid
        BY DEF OneAtATime
      <4> QED
        BY <1>1, <2>2, <4>1
        DEF ProxyStep, P!SetSubscribed, P!SetUnsubscribed, P!Dispose, P!Emit, P!EmitStart,
            P!EmitMissed, P!CallbackReturns, P!EmitDone, P!SubscriptionExpire, P!Response,
            P!ResponseError, P!ResponseUnwanted, P!ResponseOk, P!ResponseLost,
            P!ResponseCancelled, P!application, P!inbox
    <3> QED BY <3>1, <3>2, QueueUpToDate
  <2> QED BY <2>1, <2>2
<1>2. CASE ServiceStep \/ Tick \/ Serve \/ UNCHANGED allvars
  <2>1. shown' = shown /\ pending_notifies' = pending_notifies
    BY <1>2 DEF ServiceStep, Tick, Serve, ServeSubscribe, ServeRenew, ServeUnsubscribe,
       RequestLost, Answered, P!Answer, P!Forget, P!Tick, P!application, P!inbox, pvars,
       allvars
  <2>2. CASE view' = view
    BY <2>1, <2>2, QueueUpToDate
  <2>3. CASE \E m \in wire : Deliver(m) /\ view' = [view EXCEPT ![m.sid] = m.body]
    BY <2>3, DeliverUpToDate
  <2> QED BY <2>2, <2>3, ViewStep
<1>3. CASE Network
  <2>1. PICK m \in wire : Deliver(m) \/ Rejected(m) \/ NotifyLost(m)
    BY <1>3 DEF Network
  <2>2. CASE Deliver(m)
    <3>1. m.body # S!Empty
      BY GenaAssumption DEF Valued, S!Empty, Ends, SP!IInv, SP!TypeOK
    <3>2. view' = [view EXCEPT ![m.sid] = m.body]
      BY <2>2, <3>1 DEF Deliver, S!Answer
    <3> QED BY <2>2, <3>2, DeliverUpToDate
  <2>3. CASE Rejected(m) \/ NotifyLost(m)
    <3>1. UNCHANGED <<shown, pending_notifies, view>>
      BY <2>3 DEF Rejected, NotifyLost, S!Answer, pvars
    <3> QED BY <3>1, QueueUpToDate
  <2> QED BY <2>1, <2>2, <2>3
<1> QED BY <1>1, <1>2, <1>3 DEF Next

\* When all is quiet, the queue is empty: the newest the subscription was told
\* is shown.  What the service has not told it, it has reported.
LEMMA UpToDateWhenQuiet ==
    ASSUME Ends, Valued, Books, UpToDate
    PROVE  ShownOrReported
<1> SUFFICES ASSUME Quiet PROVE value \in {shown, failed[sid]}
  BY DEF ShownOrReported
<1>1. /\ sid \in subscriptions /\ sid \in SIDs /\ sid # NoSid
      /\ wire = {} /\ pending_notifies = <<>> /\ ~notify_frozen
  BY GenaAssumption DEF Quiet, Ends, SP!IInv, SP!TypeOK
<1>2. notify_queue = SP!Empty /\ state_variables
  BY <1>1 DEF Ends, SP!InOrder, Valued
<1>3. ~data[sid].to_delete
  BY <1>1 DEF Books, Current
<1>4. SP!Informed(sid)
  BY <1>1 DEF Ends, SP!AllInformed
<1>5. value \in {view[sid], failed[sid]}
  BY <1>1, <1>2, <1>3, <1>4 DEF SP!Informed, SP!WireOf
<1>6. value # SP!Empty
  BY GenaAssumption DEF SP!Empty, Ends, SP!IInv, SP!TypeOK
<1>7. Len(<<>>) = 0 /\ 1 .. 0 = {}
  OBVIOUS
<1>8. value = view[sid] => shown = view[sid]
  BY <1>1, <1>6, <1>7 DEF UpToDate
<1> QED BY <1>5, <1>8

\* When nothing is under way between a subscribed proxy and its service, the
\* application of the control point has the present value, or that of the
\* device was told that it has not: whatever messages, requests and answers
\* were lost, and however often the service was frozen or its device away.
THEOREM QuietIsUpToDate ==
    ASSUME Happens \cap {"time", "unsubscribe", "early-notify"} = {},
           SUBSCRIPTION_TIMEOUT >= 2
    PROVE  Spec => []ShownOrReported
<1>1. Init => Valued /\ OneAtATime /\ NeverBack /\ Books /\ UpToDate
  BY ValuedInit, OneAtATimeInit, NeverBackInit, BooksInit, UpToDateInit
<1>2. Ends /\ Ends' /\ Valued /\ OneAtATime /\ NeverBack /\ Books /\ UpToDate /\ [Next]_allvars
         => Valued' /\ OneAtATime' /\ NeverBack' /\ Books' /\ UpToDate'
  BY ValuedStep, OneAtATimeStep, NeverBackStep, BooksStep, UpToDateStep
<1>3. Ends /\ Valued /\ Books /\ UpToDate => ShownOrReported
  BY UpToDateWhenQuiet
<1> QED BY <1>1, <1>2, <1>3, EndsHold, PTL DEF Spec
=============================================================================
