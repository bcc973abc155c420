---------------------------- MODULE ServiceProofs ----------------------------
(***************************************************************************)
(* Proofs about Service, for every set of SIDs, every number of callback   *)
(* URLs, every lifetime of a subscription and every number of changes.     *)
(***************************************************************************)
EXTENDS Service, TLAPS

-----------------------------------------------------------------------------
(* Helpers.                                                                *)

\* The event key stays a guint that is at most G_MAXINT32.
LEMMA NextSeqType ==
    ASSUME NEW q \in 0 .. G_MAXINT32
    PROVE  NextSeq(q) \in 0 .. G_MAXINT32
BY ServiceAssumption DEF NextSeq

\* What a NOTIFY to the subscribers S leaves behind is well-formed, and their
\* callback lists are those of d.
LEMMA NotifyType ==
    ASSUME NEW S \in SUBSET SIDs, NEW d \in [SIDs -> SubscriptionData],
           NEW w \in SUBSET Notification, NEW body \in Values,
           sent \in [SIDs -> Nat],
           \A s \in S : d[s].current # 0,
           NotifySubscribers(S, d, w, body)
    PROVE  /\ data' \in [SIDs -> SubscriptionData]
           /\ \A s \in SIDs : /\ data'[s].current = d[s].current
                              /\ data'[s].callbacks = d[s].callbacks
           /\ wire' \subseteq Notification
           /\ sent' \in [SIDs -> Nat]
<1> DEFINE to == {s \in S : ~CanDelete(d[s])}
<1>1. \A s \in SIDs :
        /\ d[s] \in SubscriptionData
        /\ [d[s] EXCEPT !.seq = NextSeq(@),
                        !.pending_messages = @ \cup {sent[s] + 1}] \in SubscriptionData
  <2> TAKE s \in SIDs
  <2>1. d[s] \in SubscriptionData
    OBVIOUS
  <2>2. NextSeq(d[s].seq) \in 0 .. G_MAXINT32
    BY <2>1, NextSeqType DEF SubscriptionData
  <2>3. d[s].pending_messages \cup {sent[s] + 1} \in SUBSET (Nat \ {0})
    BY <2>1 DEF SubscriptionData
  <2> HIDE DEF to
  <2> QED BY <2>1, <2>2, <2>3 DEF SubscriptionData
<1>2. \A s \in S : Message(s, d[s], body) \in Notification
  <2> TAKE s \in S
  <2>1. d[s] \in SubscriptionData /\ s \in SIDs /\ sent[s] \in Nat
    BY <1>1
  <2>2. d[s].current \in 1 .. MaxCallbacks /\ d[s].seq \in 0 .. G_MAXINT32
    BY <2>1, ServiceAssumption DEF SubscriptionData
  <2> QED BY <2>1, <2>2 DEF Message, Notification, Statuses
<1>3. /\ data' \in [SIDs -> SubscriptionData]
      /\ \A s \in SIDs : /\ data'[s].current = d[s].current
                         /\ data'[s].callbacks = d[s].callbacks
  BY <1>1 DEF NotifySubscribers, SubscriptionData
<1>4. wire' \subseteq Notification
  BY <1>2 DEF NotifySubscribers
<1>5. sent' \in [SIDs -> Nat]
  <2>1. sent' = [s \in SIDs |-> IF s \in to THEN sent[s] + 1 ELSE sent[s]]
    BY DEF NotifySubscribers
  <2> HIDE DEF to
  <2> QED BY <2>1
<1> QED BY <1>3, <1>4, <1>5

\* A record that was freed is well-formed, as any other.
LEMMA FreedType ==
    ASSUME NEW d \in [SIDs -> SubscriptionData], NEW S \in SUBSET SIDs
    PROVE  /\ Freed(d, S) \in [SIDs -> SubscriptionData]
           /\ \A s \in SIDs \ S : Freed(d, S)[s] = d[s]
<1>1. Zeroed \in SubscriptionData
  BY ServiceAssumption DEF Zeroed, SubscriptionData
<1> QED BY <1>1 DEF Freed

\* Removing subscriptions touches the table, its timers and cancellables only.
LEMMA RemoveType ==
    ASSUME NEW S \in SUBSET SIDs, RemoveSubscriptions(S),
           subscriptions \subseteq SIDs, cancelled \subseteq SIDs,
           timeout_src \in [SIDs -> {Unarmed} \cup (0 .. SUBSCRIPTION_TIMEOUT)]
    PROVE  /\ subscriptions' \subseteq SIDs
           /\ subscriptions' \cap S = {}
           /\ cancelled' \subseteq SIDs
           /\ timeout_src' \in [SIDs -> {Unarmed} \cup (0 .. SUBSCRIPTION_TIMEOUT)]
BY DEF RemoveSubscriptions

-----------------------------------------------------------------------------
(* Type correctness.                                                       *)

LEMMA TypeInit ==
    ASSUME NEW known \in BOOLEAN, NEW pending \in BOOLEAN, InitWith(known, pending)
    PROVE  TypeOK
<1>1. data \in [SIDs -> SubscriptionData]
  BY ServiceAssumption DEF InitWith, Zeroed, SubscriptionData
<1>2. timeout_src \in [SIDs -> {Unarmed} \cup (0 .. SUBSCRIPTION_TIMEOUT)]
  BY DEF InitWith
<1>3. /\ value \in 0 .. MaxValue
      /\ renewals \in [SIDs -> 0 .. MaxRenewals]
      /\ sent \in [SIDs -> Nat]
  BY ServiceAssumption DEF InitWith
<1>4. notify_queue \in Values /\ view \in [SIDs -> Values] /\ failed \in [SIDs -> Values]
  BY ServiceAssumption DEF InitWith, Values, Empty
<1> QED
  BY <1>1, <1>2, <1>3, <1>4 DEF InitWith, TypeOK

LEMMA TypeStep == TypeOK /\ [Next]_vars => TypeOK'
<1> SUFFICES ASSUME TypeOK, [Next]_vars PROVE TypeOK'
  OBVIOUS
<1> USE ServiceAssumption
<1>0. /\ wire \in SUBSET Notification
      /\ sent \in [SIDs -> Nat]
      /\ data \in [SIDs -> SubscriptionData]
      /\ subscriptions \in SUBSET SIDs
      /\ \A s \in subscriptions : data[s].current # 0
  BY DEF TypeOK, SubscriptionData
<1>1. ASSUME NEW s \in SIDs, NEW n \in 1 .. MaxCallbacks, Subscribe(s, n) PROVE TypeOK'
  <2> DEFINE d == [data EXCEPT ![s] = [Zeroed EXCEPT !.callbacks = n, !.current = 1]]
  <2>1. [Zeroed EXCEPT !.callbacks = n, !.current = 1] \in SubscriptionData
    <3>1. Zeroed \in SubscriptionData
      BY DEF Zeroed, SubscriptionData
    <3>2. n \in 0 .. MaxCallbacks /\ 1 \in 0 .. MaxCallbacks
      OBVIOUS
    <3> QED BY <3>1, <3>2 DEF SubscriptionData
  <2>2. d \in [SIDs -> SubscriptionData]
    BY <1>0, <2>1
  <2>3. d[s].current = 1 /\ d[s].callbacks = n /\ \A r \in SIDs \ {s} : d[r] = data[r]
    BY <1>0 DEF Zeroed
  <2>4. InitialState(state_variables) \in Values
    BY DEF TypeOK, InitialState, Values, Empty
  <2>5. NotifySubscribers({s}, d, wire, InitialState(state_variables))
    BY <1>1 DEF Subscribe
  <2> HIDE DEF d
  <2>6. {s} \in SUBSET SIDs /\ \A r \in {s} : d[r].current # 0
    BY <2>3
  <2>7. /\ data' \in [SIDs -> SubscriptionData]
        /\ \A r \in SIDs : /\ data'[r].current = d[r].current
                           /\ data'[r].callbacks = d[r].callbacks
        /\ wire' \subseteq Notification
        /\ sent' \in [SIDs -> Nat]
    BY <1>0, <2>2, <2>4, <2>5, <2>6, NotifyType
  <2>8. subscriptions' = subscriptions \cup {s}
    BY <1>1 DEF Subscribe
  <2>9. \A r \in subscriptions' : data'[r].current \in 1 .. data'[r].callbacks
    BY <1>0, <2>3, <2>7, <2>8 DEF TypeOK
  <2>10. timeout_src' \in [SIDs -> {Unarmed} \cup (0 .. SUBSCRIPTION_TIMEOUT)]
    BY <1>1 DEF Subscribe, TypeOK
  <2> QED
    BY <1>1, <2>7, <2>8, <2>9, <2>10 DEF TypeOK, Subscribe, queues, setup
<1>2. ASSUME NEW s \in SIDs, Resubscribe(s) PROVE TypeOK'
  <2>1. timeout_src' \in [SIDs -> {Unarmed} \cup (0 .. SUBSCRIPTION_TIMEOUT)]
    BY <1>2 DEF TypeOK, Resubscribe
  <2>2. renewals' \in [SIDs -> 0 .. MaxRenewals]
    BY <1>2 DEF TypeOK, Resubscribe
  <2> QED
    BY <1>2, <2>1, <2>2 DEF TypeOK, Resubscribe, queues, setup
<1>3. ASSUME NEW S \in SUBSET SIDs,
             RemoveSubscriptions(S), data' = Freed(data, S),
             UNCHANGED <<queues, state_variables, introspecting, value, sent, renewals,
                         view, failed>>,
             disposed' \in BOOLEAN,
             wire' \subseteq Notification
      PROVE  TypeOK'
  <2>1. /\ data' \in [SIDs -> SubscriptionData]
        /\ \A r \in SIDs \ S : data'[r] = data[r]
    BY <1>0, <1>3, FreedType
  <2>2. /\ subscriptions' = subscriptions \ S
        /\ cancelled' \subseteq SIDs
        /\ timeout_src' \in [SIDs -> {Unarmed} \cup (0 .. SUBSCRIPTION_TIMEOUT)]
    BY <1>3, RemoveType DEF TypeOK, RemoveSubscriptions
  <2> QED
    BY <1>3, <2>1, <2>2 DEF TypeOK, queues
<1>4. ASSUME NEW s \in SIDs, Unsubscribe(s) PROVE TypeOK'
  BY <1>0, <1>3, <1>4 DEF Unsubscribe, setup, TypeOK
<1>5. ASSUME NEW s \in SIDs, UnsubscribeEarly(s) PROVE TypeOK'
  <2>1. data' \in [SIDs -> SubscriptionData]
    BY <1>0, <1>5 DEF UnsubscribeEarly, SubscriptionData
  <2>2. \A r \in SIDs : data'[r].current = data[r].current
                         /\ data'[r].callbacks = data[r].callbacks
    BY <1>0, <1>5 DEF UnsubscribeEarly, SubscriptionData
  <2> QED
    BY <1>5, <2>1, <2>2 DEF TypeOK, UnsubscribeEarly, table, queues, setup
<1>6. CASE NotifyFrozen
  <2>1. value' \in 0 .. MaxValue /\ notify_queue' \in Values
    BY <1>6 DEF TypeOK, NotifyFrozen, Values
  <2> QED
    BY <1>6, <2>1 DEF TypeOK, NotifyFrozen, table, setup
<1>7. ASSUME NEW body \in Values, NotifySubscribers(subscriptions, data, wire, body)
      PROVE  /\ data' \in [SIDs -> SubscriptionData]
             /\ \A r \in SIDs : /\ data'[r].current = data[r].current
                                /\ data'[r].callbacks = data[r].callbacks
             /\ wire' \subseteq Notification
             /\ sent' \in [SIDs -> Nat]
  BY <1>0, <1>7, NotifyType
<1>8. CASE NotifyValue
  <2>1. value' \in 0 .. MaxValue /\ value' \in Values
    BY <1>8 DEF TypeOK, NotifyValue, Values
  <2>2. NotifySubscribers(subscriptions, data, wire, value')
    BY <1>8 DEF NotifyValue
  <2> QED
    BY <1>7, <1>8, <2>1, <2>2 DEF TypeOK, NotifyValue, table, queues, setup
<1>9. CASE FreezeNotify
  BY <1>9 DEF TypeOK, FreezeNotify, table, setup
<1>10. CASE ThawNotify
  <2>1. notify_queue \in Values /\ notify_queue' \in Values
    BY <1>10 DEF TypeOK, ThawNotify, Values, Empty
  <2>2. CASE notify_queue = Empty
    BY <1>10, <2>1, <2>2 DEF TypeOK, ThawNotify, table, setup
  <2>3. CASE notify_queue # Empty
    <3>1. NotifySubscribers(subscriptions, data, wire, notify_queue)
      BY <1>10, <2>3 DEF ThawNotify
    <3> QED
      BY <1>7, <1>10, <2>1, <3>1 DEF TypeOK, ThawNotify, table, setup
  <2> QED BY <2>2, <2>3
<1>11. CASE RootDeviceUnavailable
  BY <1>0, <1>3, <1>11 DEF RootDeviceUnavailable, setup, TypeOK
<1>12. CASE Dispose
  BY <1>0, <1>3, <1>12 DEF Dispose, TypeOK
<1>13. ASSUME NEW ok \in BOOLEAN, GotIntrospection(ok) PROVE TypeOK'
  <2> DEFINE gone == {s \in subscriptions : CanDelete(data[s])}
             d    == Freed(data, gone)
  <2>1. gone \in SUBSET SIDs /\ subscriptions \ gone \in SUBSET SIDs
    BY <1>0
  <2>2. /\ introspecting' = FALSE /\ state_variables' = ok
        /\ NotifySubscribers(subscriptions \ gone, d, wire, InitialState(ok))
        /\ RemoveSubscriptions(gone)
        /\ UNCHANGED <<queues, disposed, value, renewals, view, failed>>
    BY <1>13 DEF GotIntrospection
  <2> HIDE DEF gone, d
  <2>3. InitialState(ok) \in Values
    BY DEF TypeOK, InitialState, Values, Empty
  <2>4. d \in [SIDs -> SubscriptionData] /\ \A s \in SIDs \ gone : d[s] = data[s]
    BY <1>0, <2>1, FreedType DEF d
  <2>5. \A s \in subscriptions \ gone : d[s].current # 0
    BY <1>0, <2>1, <2>4
  <2>6. /\ data' \in [SIDs -> SubscriptionData]
        /\ \A r \in SIDs : /\ data'[r].current = d[r].current
                           /\ data'[r].callbacks = d[r].callbacks
        /\ wire' \subseteq Notification
        /\ sent' \in [SIDs -> Nat]
    BY <1>0, <2>1, <2>2, <2>3, <2>4, <2>5, NotifyType
  <2>7. /\ subscriptions' = subscriptions \ gone
        /\ cancelled' \subseteq SIDs
        /\ timeout_src' \in [SIDs -> {Unarmed} \cup (0 .. SUBSCRIPTION_TIMEOUT)]
    BY <2>1, <2>2, RemoveType DEF TypeOK, RemoveSubscriptions
  <2>8. \A s \in subscriptions' : data'[s].current \in 1 .. data'[s].callbacks
    BY <1>0, <2>4, <2>6, <2>7 DEF TypeOK
  <2> QED
    BY <2>2, <2>6, <2>7, <2>8 DEF TypeOK, queues
<1>14. CASE Tick
  <2>1. timeout_src' \in [SIDs -> {Unarmed} \cup (0 .. SUBSCRIPTION_TIMEOUT)]
    BY <1>14 DEF TypeOK, Tick, Unarmed
  <2> QED
    BY <1>14, <2>1 DEF TypeOK, Tick, queues, setup
<1>15. ASSUME NEW s \in SIDs, SubscriptionTimeout(s) PROVE TypeOK'
  BY <1>0, <1>3, <1>15 DEF SubscriptionTimeout, setup, TypeOK
<1>16. ASSUME NEW m \in wire, Response(m) PROVE TypeOK'
  <2>1. m \in Notification /\ m.sid \in SIDs /\ m.body \in Values
    BY <1>0 DEF Notification
  <2> DEFINE u == Unlink(m)
  <2>2. u \in [SIDs -> SubscriptionData]
    BY <1>0, <2>1 DEF Unlink, SubscriptionData
  <2>3. \A r \in SIDs : /\ u[r].callbacks = data[r].callbacks
                        /\ u[r].current = data[r].current
    BY <1>0, <2>1 DEF Unlink, SubscriptionData
  <2>4. \A r \in subscriptions : /\ r \in SIDs
                                  /\ data[r].current \in 1 .. data[r].callbacks
                                  /\ 1 \in 1 .. data[r].callbacks
    <3> TAKE r \in subscriptions
    <3>1. r \in SIDs /\ data[r] \in SubscriptionData
      BY <1>0
    <3>2. data[r].current \in 1 .. data[r].callbacks /\ data[r].callbacks \in 0 .. MaxCallbacks
      BY <3>1 DEF TypeOK, SubscriptionData
    <3> QED BY <3>1, <3>2
  <2>5. CASE ResponseCancelled(m)
    BY <2>5 DEF TypeOK, ResponseCancelled, table, queues, setup
  <2>6. CASE ResponseOk(m)
    <3>1. m.sid \notin cancelled /\ wire' = wire \ {m}
          /\ data' = [u EXCEPT ![m.sid].initial_state_sent = TRUE, ![m.sid].current = 1]
      BY <2>6 DEF ResponseOk, GotResponse
    <3> HIDE DEF u
    <3>2. data' = [u EXCEPT ![m.sid] = [@ EXCEPT !.initial_state_sent = TRUE, !.current = 1]]
      BY <2>1, <2>2, <3>1 DEF SubscriptionData
    <3>3. [u[m.sid] EXCEPT !.initial_state_sent = TRUE, !.current = 1] \in SubscriptionData
      <4>1. u[m.sid] \in SubscriptionData /\ 1 \in 0 .. MaxCallbacks
        BY <2>1, <2>2
      <4> QED BY <4>1 DEF SubscriptionData
    <3>4. data' \in [SIDs -> SubscriptionData]
      BY <2>1, <2>2, <3>2, <3>3
    <3>5. \A r \in SIDs : /\ data'[r].callbacks = data[r].callbacks
                          /\ data'[r].current \in {data[r].current, 1}
      BY <1>0, <2>1, <2>2, <2>3, <3>2, <3>3 DEF SubscriptionData
    <3>6. \A r \in subscriptions : data'[r].current \in 1 .. data'[r].callbacks
      BY <2>4, <3>5
    <3> QED
      BY <2>6, <3>4, <3>6 DEF TypeOK, ResponseOk, table, queues, setup
  <2>7. CASE ResponsePreconditionFailed(m)
    <3>1. {m.sid} \in SUBSET SIDs /\ wire' \subseteq Notification
      BY <1>0, <2>1, <2>7 DEF ResponsePreconditionFailed
    <3> QED
      BY <1>3, <2>7, <3>1 DEF ResponsePreconditionFailed, setup, TypeOK
  <2>8. CASE ResponseTryNext(m)
    <3> DEFINE d == [u EXCEPT ![m.sid].current = @ + 1]
    <3>1. NotifySubscribers({m.sid}, d, wire \ {m}, m.body)
      BY <2>8 DEF ResponseTryNext
    <3>2. data[m.sid].current < data[m.sid].callbacks
      BY <2>8 DEF ResponseTryNext
    <3> HIDE DEF u
    <3>3. u[m.sid].current \in Nat /\ u[m.sid].current + 1 \in 1 .. u[m.sid].callbacks
          /\ u[m.sid].callbacks \in 0 .. MaxCallbacks
      BY <1>0, <2>1, <2>2, <2>3, <3>2 DEF SubscriptionData
    <3>4. d \in [SIDs -> SubscriptionData]
      BY <2>1, <2>2, <3>3 DEF SubscriptionData
    <3>5. \A r \in SIDs : /\ d[r].callbacks = data[r].callbacks
                          /\ d[r].current = IF r = m.sid THEN data[r].current + 1
                                            ELSE data[r].current
      BY <1>0, <2>1, <2>2, <2>3, <3>3 DEF SubscriptionData
    <3> HIDE DEF d
    <3>6. /\ {m.sid} \in SUBSET SIDs
          /\ wire \ {m} \in SUBSET Notification
          /\ \A r \in {m.sid} : d[r].current # 0
      BY <1>0, <2>1, <2>3, <3>3, <3>5
    <3>7. /\ data' \in [SIDs -> SubscriptionData]
          /\ \A r \in SIDs : /\ data'[r].current = d[r].current
                             /\ data'[r].callbacks = d[r].callbacks
          /\ wire' \subseteq Notification
          /\ sent' \in [SIDs -> Nat]
      BY <1>0, <2>1, <3>1, <3>4, <3>6, NotifyType
    <3>8. \A r \in subscriptions : data'[r].current \in 1 .. data'[r].callbacks
      BY <1>0, <2>3, <3>3, <3>5, <3>7 DEF TypeOK
    <3> QED
      BY <2>8, <3>7, <3>8 DEF TypeOK, ResponseTryNext, table, queues, setup
  <2>9. CASE ResponseNotifyFailed(m)
    <3>1. wire' = wire \ {m} /\ data' = [u EXCEPT ![m.sid].current = 1]
          /\ failed' = [failed EXCEPT ![m.sid] = m.body]
      BY <2>9 DEF ResponseNotifyFailed
    <3> HIDE DEF u
    <3>2. data' \in [SIDs -> SubscriptionData]
      BY <2>1, <2>2, <3>1 DEF SubscriptionData
    <3>3. \A r \in SIDs : /\ data'[r].callbacks = data[r].callbacks
                          /\ data'[r].current \in {data[r].current, 1}
      BY <1>0, <2>1, <2>2, <2>3, <3>1 DEF SubscriptionData
    <3>4. \A r \in subscriptions : data'[r].current \in 1 .. data'[r].callbacks
      BY <2>4, <3>3
    <3>5. failed' \in [SIDs -> Values]
      BY <2>1, <3>1 DEF TypeOK
    <3> QED
      BY <2>9, <3>1, <3>2, <3>4, <3>5 DEF TypeOK, ResponseNotifyFailed, table, queues, setup
  <2> QED
    BY <1>16, <2>5, <2>6, <2>7, <2>8, <2>9 DEF Response
<1>17. ASSUME NEW m \in wire, NEW st \in Statuses \ {"none"}, NEW delivered \in BOOLEAN,
              Answer(m, st, delivered)
       PROVE  TypeOK'
  <2>1. m \in Notification /\ m.sid \in SIDs /\ m.body \in Values
    BY <1>0 DEF Notification
  <2>2. [m EXCEPT !.status = st] \in Notification
    BY <2>1 DEF Notification
  <2>3. wire' \subseteq Notification
    BY <1>0, <1>17, <2>2 DEF Answer
  <2>4. view' \in [SIDs -> Values]
    BY <1>17, <2>1 DEF TypeOK, Answer
  <2> QED
    BY <1>17, <2>3, <2>4 DEF TypeOK, Answer, table, queues, setup
<1>18. CASE UNCHANGED vars
  BY <1>18 DEF TypeOK, vars
<1> QED
  BY <1>1, <1>2, <1>4, <1>5, <1>6, <1>8, <1>9, <1>10, <1>11, <1>12, <1>13, <1>14,
     <1>15, <1>16, <1>17, <1>18
  DEF Next, Requests, Application, MainLoop, Network

\* The table, the messages and the histories are always well-formed: every
\* subscription points into its own callback list and no key is out of range.
THEOREM TypeCorrect == Spec => []TypeOK
<1>1. Init => TypeOK
  BY TypeInit DEF Init
<1> QED BY <1>1, TypeStep, PTL DEF Spec

-----------------------------------------------------------------------------
(* The inductive invariant.                                                *)

\* What the table T with the records d, the messages w and the numbers n of
\* messages so far have in common.  The messages of one SID have numbers of
\* their own: without that, taking one message off pending_messages would not
\* take off exactly one.
Consistent(T, d, w, n) ==
    /\ \A s \in T : d[s].pending_messages = {m.id : m \in {x \in w : x.sid = s}}
    /\ \A s \in T : d[s].seq = Key(n[s])
    /\ \A m \in w : m.id <= n[m.sid] /\ m.seq = Key(m.id - 1)
    /\ \A m, k \in w : m.sid = k.sid /\ m.id = k.id => m = k

\* A SID outside the table is as it was before its SUBSCRIBE, or cancelled.
OutsideTable ==
    /\ subscriptions \cap cancelled = {}
    /\ \A s \in SIDs \ subscriptions :
          /\ data[s] = Zeroed
          /\ s \notin cancelled => sent[s] = 0

IInv ==
    /\ TypeOK
    /\ TimersMatchTable
    /\ OutsideTable
    /\ Consistent(subscriptions, data, wire, sent)

\* Remainders of consecutive numbers.
LEMMA ModIsRemainder ==
    ASSUME NEW a \in Nat, NEW g \in Nat \ {0}
    PROVE  /\ a % g \in 0 .. g - 1
           /\ a \div g \in Int
           /\ a = g * (a \div g) + (a % g)
OBVIOUS

LEMMA ProductBound ==
    ASSUME NEW g \in Nat \ {0}, NEW x \in Int
    PROVE  (x >= 1 => g * x >= g) /\ (x <= -1 => g * x <= -g)
OBVIOUS

LEMMA ModOfNext ==
    ASSUME NEW a \in Nat, NEW g \in Nat \ {0}
    PROVE  (a + 1) % g = IF (a % g) + 1 < g THEN (a % g) + 1 ELSE 0
<1> DEFINE q1 == a \div g
           r1 == a % g
           q2 == (a + 1) \div g
           r2 == (a + 1) % g
<1>1. r1 \in 0 .. g - 1 /\ a = g * q1 + r1 /\ q1 \in Int
  BY ModIsRemainder
<1>2. r2 \in 0 .. g - 1 /\ a + 1 = g * q2 + r2 /\ q2 \in Int
  BY ModIsRemainder
<1> HIDE DEF r1, r2, q1, q2
<1>3. g * (q2 - q1) = 1 + r1 - r2
  BY <1>1, <1>2
<1>4. /\ q2 - q1 >= 1 => g * (q2 - q1) >= g
      /\ q2 - q1 <= -1 => g * (q2 - q1) <= -g
      /\ q2 - q1 >= 2 => g * (q2 - q1 - 1) >= g
  BY <1>1, <1>2, ProductBound
<1>5. (q2 - q1 = 0 => g * (q2 - q1) = 0) /\ (q2 - q1 = 1 => g * (q2 - q1) = g)
  BY <1>1, <1>2
<1>6. r2 = IF r1 + 1 < g THEN r1 + 1 ELSE 0
  BY <1>1, <1>2, <1>3, <1>4, <1>5
<1> QED BY <1>6 DEF r1, r2

\* The code's wrap is the key of the next message, however many there were.
LEMMA NextSeqIsKey ==
    ASSUME NEW n \in Nat
    PROVE  NextSeq(Key(n)) = Key(n + 1)
<1> USE ServiceAssumption
<1>1. CASE n < G_MAXINT32
  BY <1>1 DEF NextSeq, Key
<1>2. CASE n = G_MAXINT32
  <2>1. n % G_MAXINT32 = 0
    <3>1. (n - 1) % G_MAXINT32 = n - 1
      BY <1>2
    <3> QED BY <1>2, <3>1, ModOfNext
  <2> QED BY <1>2, <2>1 DEF NextSeq, Key
<1>3. CASE n > G_MAXINT32
  <2>1. n - 1 \in Nat /\ (n - 1) + 1 = n
    BY <1>3
  <2>2. (n - 1) % G_MAXINT32 \in 0 .. G_MAXINT32 - 1
    BY <2>1, ModIsRemainder
  <2>3. n % G_MAXINT32 = IF ((n - 1) % G_MAXINT32) + 1 < G_MAXINT32
                         THEN ((n - 1) % G_MAXINT32) + 1 ELSE 0
    BY <2>1, ModOfNext
  <2> QED BY <1>3, <2>2, <2>3 DEF NextSeq, Key
<1> QED BY <1>1, <1>2, <1>3

\* What is consistent stays so with fewer subscriptions and fewer messages, as
\* long as the subscriptions that are left keep theirs.
LEMMA ConsistentShrink ==
    ASSUME NEW T, NEW d, NEW w, NEW n, Consistent(T, d, w, n),
           NEW T2 \in SUBSET T, NEW d2, NEW w2 \in SUBSET w,
           \A s \in T2 : /\ d2[s].pending_messages = {m.id : m \in {x \in w2 : x.sid = s}}
                         /\ d2[s].seq = d[s].seq
    PROVE  Consistent(T2, d2, w2, n)
BY DEF Consistent

\* A NOTIFY to some of the table keeps everything consistent.
LEMMA ConsistentNotify ==
    ASSUME NEW T \in SUBSET SIDs, NEW S \in SUBSET T,
           NEW d \in [SIDs -> SubscriptionData], NEW w \in SUBSET Notification,
           NEW body, sent \in [SIDs -> Nat],
           Consistent(T, d, w, sent), NotifySubscribers(S, d, w, body)
    PROVE  Consistent(T, data', wire', sent')
<1> DEFINE to == {s \in S : ~CanDelete(d[s])}
           new(s) == Message(s, d[s], body)
<1>1. data' = [s \in SIDs |->
                 IF s \in to
                 THEN [d[s] EXCEPT !.seq = NextSeq(@),
                                   !.pending_messages = @ \cup {sent[s] + 1}]
                 ELSE d[s]]
  BY DEF NotifySubscribers
<1>2. wire' = w \cup {new(s) : s \in to}
  BY DEF NotifySubscribers
<1>3. sent' = [s \in SIDs |-> IF s \in to THEN sent[s] + 1 ELSE sent[s]]
  BY DEF NotifySubscribers
<1>4. \A s \in to : /\ s \in T
                    /\ new(s).sid = s
                    /\ new(s).id = sent[s] + 1
                    /\ new(s).seq = d[s].seq
  BY DEF Message
<1> HIDE DEF to, new
<1>5. \A m \in w : m.sid \in SIDs /\ m.id \in Nat \ {0} /\ m.id <= sent[m.sid]
  BY DEF Notification, Consistent
<1>6. \A s \in T : data'[s].pending_messages = {m.id : m \in {x \in wire' : x.sid = s}}
  <2> TAKE s \in T
  <2>1. d[s].pending_messages = {m.id : m \in {x \in w : x.sid = s}}
    BY DEF Consistent
  <2>2. CASE s \in to
    <3>1. data'[s].pending_messages = d[s].pending_messages \cup {sent[s] + 1}
      BY <1>1, <2>2 DEF SubscriptionData
    <3>2. {x \in wire' : x.sid = s} = {x \in w : x.sid = s} \cup {new(s)}
      BY <1>2, <1>4, <2>2
    <3> QED BY <1>4, <2>1, <2>2, <3>1, <3>2
  <2>3. CASE s \notin to
    <3>1. data'[s] = d[s]
      BY <1>1, <2>3
    <3>2. {x \in wire' : x.sid = s} = {x \in w : x.sid = s}
      BY <1>2, <1>4, <2>3
    <3> QED BY <2>1, <3>1, <3>2
  <2> QED BY <2>2, <2>3
<1>7. \A s \in T : data'[s].seq = Key(sent'[s])
  <2> TAKE s \in T
  <2>1. d[s].seq = Key(sent[s]) /\ sent[s] \in Nat /\ s \in SIDs
    BY DEF Consistent
  <2>2. CASE s \in to
    <3>1. data'[s].seq = NextSeq(d[s].seq) /\ sent'[s] = sent[s] + 1
      BY <1>1, <1>3, <2>1, <2>2 DEF SubscriptionData
    <3> QED BY <2>1, <3>1, NextSeqIsKey
  <2>3. CASE s \notin to
    BY <1>1, <1>3, <2>1, <2>3
  <2> QED BY <2>2, <2>3
<1>8. \A m \in wire' : m.id <= sent'[m.sid] /\ m.seq = Key(m.id - 1)
  <2> TAKE m \in wire'
  <2>1. CASE m \in w
    <3>1. m.id <= sent[m.sid] /\ sent[m.sid] \in Nat /\ m.id \in Nat /\ m.sid \in SIDs
      BY <1>5, <2>1
    <3>2. sent'[m.sid] \in {sent[m.sid], sent[m.sid] + 1}
      BY <1>3, <3>1
    <3>3. m.seq = Key(m.id - 1)
      BY <2>1 DEF Consistent
    <3> QED BY <3>1, <3>2, <3>3
  <2>2. ASSUME NEW s \in to, m = new(s) PROVE m.id <= sent'[m.sid] /\ m.seq = Key(m.id - 1)
    <3>1. sent[s] \in Nat /\ s \in SIDs /\ d[s].seq = Key(sent[s])
      BY <1>4 DEF Consistent
    <3>2. sent'[s] = sent[s] + 1
      BY <1>3, <2>2, <3>1
    <3>3. m.sid = s /\ m.id = sent[s] + 1 /\ m.seq = d[s].seq
      BY <1>4, <2>2
    <3> QED BY <3>1, <3>2, <3>3
  <2> QED BY <1>2, <2>1, <2>2
<1>9. \A m, k \in wire' : m.sid = k.sid /\ m.id = k.id => m = k
  <2>1. \A m \in w, s \in to : ~(m.sid = s /\ m.id = sent[s] + 1)
    <3> TAKE m \in w, s \in to
    <3>1. m.id <= sent[m.sid] /\ m.id \in Nat /\ s \in SIDs /\ sent[s] \in Nat
      BY <1>4, <1>5
    <3> QED BY <3>1
  <2>2. \A m, k \in w : m.sid = k.sid /\ m.id = k.id => m = k
    BY DEF Consistent
  <2>3. \A m \in wire' : m \in w \/ \E s \in to : m = new(s) /\ m.sid = s /\ m.id = sent[s] + 1
    BY <1>2, <1>4
  <2> QED BY <2>1, <2>2, <2>3
<1> QED BY <1>6, <1>7, <1>8, <1>9 DEF Consistent

\* The handlers that remove subscriptions keep the invariant, if at most
\* messages of removed subscriptions leave the session.
LEMMA RemoveKeeps ==
    ASSUME IInv, NEW S \in SUBSET subscriptions,
           RemoveSubscriptions(S), data' = Freed(data, S), sent' = sent,
           wire' \in SUBSET wire, \A x \in wire : x.sid \notin S => x \in wire'
    PROVE  TimersMatchTable' /\ OutsideTable' /\ Consistent(subscriptions', data', wire', sent')
<1>1. /\ subscriptions \in SUBSET SIDs
      /\ S \in SUBSET SIDs
      /\ data \in [SIDs -> SubscriptionData]
  BY DEF IInv, TypeOK
<1>2. /\ subscriptions' = subscriptions \ S
      /\ cancelled' = cancelled \cup S
      /\ timeout_src' = [s \in SIDs |-> IF s \in S THEN Unarmed ELSE timeout_src[s]]
  BY DEF RemoveSubscriptions
<1>3. data' = [s \in SIDs |-> IF s \in S THEN Zeroed ELSE data[s]]
  BY DEF Freed
<1>4. TimersMatchTable'
  BY <1>1, <1>2 DEF IInv, TimersMatchTable
<1>5. OutsideTable'
  <2>1. subscriptions' \cap cancelled' = {}
    BY <1>1, <1>2 DEF IInv, OutsideTable
  <2>2. \A s \in SIDs \ subscriptions' : data'[s] = Zeroed
    BY <1>1, <1>2, <1>3 DEF IInv, OutsideTable
  <2>3. \A s \in SIDs \ subscriptions' : s \notin cancelled' => sent'[s] = 0
    BY <1>1, <1>2 DEF IInv, OutsideTable
  <2> QED BY <2>1, <2>2, <2>3 DEF OutsideTable
<1>6. Consistent(subscriptions', data', wire', sent')
  <2>1. Consistent(subscriptions, data, wire, sent)
    BY DEF IInv
  <2>2. subscriptions' \in SUBSET subscriptions
    BY <1>2
  <2>3. \A s \in subscriptions' :
           /\ data'[s].pending_messages = {m.id : m \in {x \in wire' : x.sid = s}}
           /\ data'[s].seq = data[s].seq
    <3> TAKE s \in subscriptions'
    <3>1. s \in SIDs /\ s \in subscriptions /\ data'[s] = data[s]
      BY <1>1, <1>2, <1>3
    <3>2. {x \in wire' : x.sid = s} = {x \in wire : x.sid = s}
      BY <1>2
    <3>3. data[s].pending_messages = {m.id : m \in {x \in wire : x.sid = s}}
      BY <2>1, <3>1 DEF Consistent
    <3> QED BY <3>1, <3>2, <3>3
  <2>4. Consistent(subscriptions', data', wire', sent)
    BY <2>1, <2>2, <2>3, ConsistentShrink
  <2> QED BY <2>4
<1> QED BY <1>4, <1>5, <1>6

\* So do those that send a NOTIFY and leave the table as it is.
LEMMA NotifyKeeps ==
    ASSUME IInv, NEW S \in SUBSET subscriptions, NEW body,
           NEW d \in [SIDs -> SubscriptionData], NEW w \in SUBSET Notification,
           \A s \in SIDs \ subscriptions : d[s] = Zeroed,
           Consistent(subscriptions, d, w, sent),
           NotifySubscribers(S, d, w, body), UNCHANGED table
    PROVE  TimersMatchTable' /\ OutsideTable' /\ Consistent(subscriptions', data', wire', sent')
<1>1. /\ subscriptions \in SUBSET SIDs
      /\ sent \in [SIDs -> Nat]
  BY DEF IInv, TypeOK
<1>2. subscriptions' = subscriptions /\ timeout_src' = timeout_src /\ cancelled' = cancelled
  BY DEF table
<1>3. \A s \in SIDs \ S : data'[s] = d[s] /\ sent'[s] = sent[s]
  BY DEF NotifySubscribers
<1>4. TimersMatchTable'
  BY <1>2 DEF IInv, TimersMatchTable
<1>5. OutsideTable'
  BY <1>1, <1>2, <1>3 DEF IInv, OutsideTable
<1>6. Consistent(subscriptions, data', wire', sent')
  BY <1>1, ConsistentNotify
<1> QED BY <1>2, <1>4, <1>5, <1>6

\* The others leave the table, or at most move a timer, and keep the messages
\* and keys of every subscription.
LEMMA OthersKeep ==
    ASSUME IInv, subscriptions' = subscriptions, cancelled' = cancelled, sent' = sent,
           \A s \in SIDs : timeout_src'[s] # Unarmed <=> timeout_src[s] # Unarmed,
           \A s \in SIDs \ subscriptions : data'[s] = Zeroed,
           Consistent(subscriptions, data', wire', sent)
    PROVE  TimersMatchTable' /\ OutsideTable' /\ Consistent(subscriptions', data', wire', sent')
BY DEF IInv, TimersMatchTable, OutsideTable

\* A message the session calls back for is of a subscription in the table,
\* unless that was cancelled.
LEMMA CallbackHasData ==
    ASSUME IInv, NEW m \in wire, m.sid \notin cancelled
    PROVE  m.sid \in subscriptions
<1>1. m.sid \in SIDs /\ m.id \in Nat \ {0}
  BY DEF IInv, TypeOK, Notification
<1>2. m.id <= sent[m.sid]
  BY DEF IInv, Consistent
<1> QED BY <1>1, <1>2 DEF IInv, OutsideTable

\* Taking one answered message off keeps everything consistent.
LEMMA UnlinkKeeps ==
    ASSUME IInv, NEW m \in wire
    PROVE  /\ Unlink(m) \in [SIDs -> SubscriptionData]
           /\ \A s \in SIDs : s # m.sid => Unlink(m)[s] = data[s]
           /\ Consistent(subscriptions, Unlink(m), wire \ {m}, sent)
<1> DEFINE u == Unlink(m)
<1>1. /\ m.sid \in SIDs
      /\ data \in [SIDs -> SubscriptionData]
      /\ subscriptions \in SUBSET SIDs
  BY DEF IInv, TypeOK, Notification
<1>2. /\ u \in [SIDs -> SubscriptionData]
      /\ \A s \in SIDs : s # m.sid => u[s] = data[s]
      /\ u[m.sid].pending_messages = data[m.sid].pending_messages \ {m.id}
      /\ u[m.sid].seq = data[m.sid].seq
  BY <1>1 DEF Unlink, SubscriptionData
<1> HIDE DEF u
<1>3. Consistent(subscriptions, data, wire, sent)
  BY DEF IInv
<1>4. \A s \in subscriptions :
         /\ u[s].pending_messages = {x.id : x \in {y \in wire \ {m} : y.sid = s}}
         /\ u[s].seq = data[s].seq
  <2> TAKE s \in subscriptions
  <2>1. data[s].pending_messages = {x.id : x \in {y \in wire : y.sid = s}} /\ s \in SIDs
    BY <1>1, <1>3 DEF Consistent
  <2>2. CASE s # m.sid
    <3>1. {y \in wire \ {m} : y.sid = s} = {y \in wire : y.sid = s}
      BY <2>2
    <3> QED BY <1>2, <2>1, <2>2, <3>1
  <2>3. CASE s = m.sid
    <3>1. \A x \in {y \in wire : y.sid = s} : x.id = m.id => x = m
      BY <1>3, <2>3 DEF Consistent
    <3>2. {x.id : x \in {y \in wire : y.sid = s}} \ {m.id}
            = {x.id : x \in {y \in wire \ {m} : y.sid = s}}
      BY <2>3, <3>1
    <3> QED BY <1>2, <2>1, <2>3, <3>2
  <2> QED BY <2>2, <2>3
<1>5. Consistent(subscriptions, u, wire \ {m}, sent)
  BY <1>3, <1>4, ConsistentShrink
<1> QED BY <1>2, <1>5 DEF u

LEMMA IInvInit ==
    ASSUME NEW known \in BOOLEAN, NEW pending \in BOOLEAN, InitWith(known, pending)
    PROVE  IInv
<1>1. TypeOK
  BY TypeInit
<1>2. TimersMatchTable /\ OutsideTable
  BY DEF InitWith, TimersMatchTable, OutsideTable
<1>3. Consistent(subscriptions, data, wire, sent)
  BY DEF InitWith, Consistent
<1> QED BY <1>1, <1>2, <1>3 DEF IInv

LEMMA IInvStep == IInv /\ [Next]_vars => IInv'
<1> SUFFICES ASSUME IInv, [Next]_vars
             PROVE  TimersMatchTable' /\ OutsideTable'
                    /\ Consistent(subscriptions', data', wire', sent')
  BY TypeStep DEF IInv
<1> DEFINE Kept == TimersMatchTable' /\ OutsideTable'
                   /\ Consistent(subscriptions', data', wire', sent')
<1>0. /\ wire \in SUBSET Notification
      /\ sent \in [SIDs -> Nat]
      /\ data \in [SIDs -> SubscriptionData]
      /\ subscriptions \in SUBSET SIDs
      /\ timeout_src \in [SIDs -> {Unarmed} \cup (0 .. SUBSCRIPTION_TIMEOUT)]
      /\ Consistent(subscriptions, data, wire, sent)
      /\ \A s \in SIDs \ subscriptions : data[s] = Zeroed
      /\ SUBSCRIPTION_TIMEOUT # Unarmed
  BY ServiceAssumption DEF IInv, TypeOK, OutsideTable, Unarmed
<1>1. ASSUME NEW s \in SIDs, NEW n \in 1 .. MaxCallbacks, Subscribe(s, n) PROVE Kept
  <2> DEFINE d == [data EXCEPT ![s] = [Zeroed EXCEPT !.callbacks = n, !.current = 1]]
             T == subscriptions \cup {s}
  <2>1. /\ s \notin subscriptions \cup cancelled
        /\ subscriptions' = T
        /\ cancelled' = cancelled
        /\ timeout_src' = [timeout_src EXCEPT ![s] = SUBSCRIPTION_TIMEOUT]
        /\ NotifySubscribers({s}, d, wire, InitialState(state_variables))
    BY <1>1 DEF Subscribe
  <2>2. sent[s] = 0
    BY <2>1 DEF IInv, OutsideTable
  <2>3. /\ d[s].pending_messages = {} /\ d[s].seq = 0
        /\ \A r \in SIDs : r # s => d[r] = data[r]
    BY <1>0 DEF Zeroed
  <2>4. d \in [SIDs -> SubscriptionData]
    <3>1. Zeroed \in SubscriptionData
      BY ServiceAssumption DEF Zeroed, SubscriptionData
    <3>2. n \in 0 .. MaxCallbacks /\ 1 \in 0 .. MaxCallbacks
      BY ServiceAssumption
    <3>3. [Zeroed EXCEPT !.callbacks = n, !.current = 1] \in SubscriptionData
      BY <3>1, <3>2 DEF SubscriptionData
    <3> QED BY <1>0, <3>3
  <2> HIDE DEF d
  <2>5. {x \in wire : x.sid = s} = {}
    <3>1. \A x \in wire : x.id \in Nat \ {0} /\ x.id <= sent[x.sid]
      BY <1>0 DEF Notification, Consistent
    <3> QED BY <2>2, <3>1
  <2>6. Consistent(T, d, wire, sent)
    <3>1. \A r \in T : d[r].pending_messages = {m.id : m \in {x \in wire : x.sid = r}}
      BY <1>0, <2>3, <2>5 DEF Consistent
    <3>2. 0 = Key(0)
      BY ServiceAssumption DEF Key
    <3>3. \A r \in T : d[r].seq = Key(sent[r])
      BY <1>0, <2>2, <2>3, <3>2 DEF Consistent
    <3> QED BY <1>0, <3>1, <3>3 DEF Consistent
  <2>7. T \in SUBSET SIDs /\ {s} \in SUBSET T
    BY <1>0
  <2>8. Consistent(subscriptions', data', wire', sent')
    <3> HIDE DEF T
    <3> QED BY <1>0, <2>1, <2>4, <2>6, <2>7, ConsistentNotify
  <2>9. \A r \in SIDs \ {s} : data'[r] = data[r] /\ sent'[r] = sent[r]
    BY <2>1, <2>3 DEF NotifySubscribers
  <2>10. OutsideTable'
    BY <1>0, <2>1, <2>9 DEF IInv, OutsideTable
  <2>11. TimersMatchTable'
    BY <1>0, <2>1 DEF IInv, TimersMatchTable
  <2> QED BY <2>8, <2>10, <2>11
<1>2. ASSUME NEW s \in SIDs, Resubscribe(s) PROVE Kept
  <2>1. \A r \in SIDs : timeout_src'[r] # Unarmed <=> timeout_src[r] # Unarmed
    BY <1>0, <1>2 DEF Resubscribe, IInv, TimersMatchTable
  <2> QED
    BY <1>0, <1>2, <2>1, OthersKeep DEF Resubscribe
<1>3. ASSUME NEW s \in SIDs, Unsubscribe(s) PROVE Kept
  <2>1. {s} \in SUBSET subscriptions
    BY <1>3 DEF Unsubscribe
  <2> QED
    BY <1>3, <2>1, RemoveKeeps DEF Unsubscribe
<1>4. ASSUME NEW s \in SIDs, UnsubscribeEarly(s) PROVE Kept
  <2>1. /\ \A r \in SIDs \ subscriptions : data'[r] = Zeroed
        /\ \A r \in subscriptions : /\ data'[r].pending_messages = data[r].pending_messages
                                     /\ data'[r].seq = data[r].seq
    BY <1>0, <1>4 DEF UnsubscribeEarly, SubscriptionData
  <2>2. Consistent(subscriptions, data', wire, sent)
    BY <1>0, <2>1 DEF Consistent
  <2> QED
    BY <1>4, <2>1, <2>2, OthersKeep DEF UnsubscribeEarly, table
<1>5. CASE NotifyFrozen
  BY <1>0, <1>5, OthersKeep DEF NotifyFrozen, table
<1>6. CASE NotifyValue
  <2>1. NotifySubscribers(subscriptions, data, wire, value') /\ UNCHANGED table
    BY <1>6 DEF NotifyValue
  <2> QED BY <1>0, <2>1, NotifyKeeps
<1>7. CASE FreezeNotify
  BY <1>0, <1>7, OthersKeep DEF FreezeNotify, table
<1>8. CASE ThawNotify
  <2>1. CASE notify_queue = Empty
    BY <1>0, <1>8, <2>1, OthersKeep DEF ThawNotify, table
  <2>2. CASE notify_queue # Empty
    <3>1. NotifySubscribers(subscriptions, data, wire, notify_queue) /\ UNCHANGED table
      BY <1>8, <2>2 DEF ThawNotify
    <3> QED BY <1>0, <3>1, NotifyKeeps
  <2> QED BY <2>1, <2>2
<1>9. CASE RootDeviceUnavailable
  BY <1>9, RemoveKeeps DEF RootDeviceUnavailable
<1>10. CASE Dispose
  BY <1>10, RemoveKeeps DEF Dispose
<1>11. ASSUME NEW ok \in BOOLEAN, GotIntrospection(ok) PROVE Kept
  <2> DEFINE gone == {s \in subscriptions : CanDelete(data[s])}
             d    == Freed(data, gone)
             T    == subscriptions \ gone
  <2>1. /\ NotifySubscribers(T, d, wire, InitialState(ok))
        /\ RemoveSubscriptions(gone)
    BY <1>11 DEF GotIntrospection
  <2>2. /\ gone \in SUBSET SIDs /\ gone \in SUBSET subscriptions
        /\ T \in SUBSET SIDs /\ T \in SUBSET T
    BY <1>0
  <2> HIDE DEF gone
  <2>3. /\ d \in [SIDs -> SubscriptionData]
        /\ \A s \in SIDs \ gone : d[s] = data[s]
        /\ \A s \in gone : d[s] = Zeroed
    BY <1>0, <2>2, FreedType DEF Freed
  <2>4. /\ subscriptions' = T
        /\ cancelled' = cancelled \cup gone
        /\ timeout_src' = [s \in SIDs |-> IF s \in gone THEN Unarmed ELSE timeout_src[s]]
    BY <2>1 DEF RemoveSubscriptions
  <2> HIDE DEF d
  <2>5. Consistent(T, d, wire, sent)
    <3>1. \A s \in T : /\ d[s].pending_messages = {m.id : m \in {x \in wire : x.sid = s}}
                       /\ d[s].seq = data[s].seq
      BY <1>0, <2>3 DEF Consistent
    <3>2. T \in SUBSET subscriptions /\ wire \in SUBSET wire
      OBVIOUS
    <3> HIDE DEF T
    <3> QED BY <1>0, <3>1, <3>2, ConsistentShrink
  <2>6. \A s \in SIDs \ T : data'[s] = d[s] /\ sent'[s] = sent[s]
    BY <2>1 DEF NotifySubscribers
  <2>7. OutsideTable'
    <3>1. subscriptions' \cap cancelled' = {}
      BY <2>4 DEF IInv, OutsideTable
    <3>2. \A s \in SIDs \ subscriptions' : data'[s] = Zeroed
      BY <1>0, <2>3, <2>4, <2>6
    <3>3. \A s \in SIDs \ subscriptions' : s \notin cancelled' => sent'[s] = 0
      BY <2>4, <2>6 DEF IInv, OutsideTable
    <3> QED BY <3>1, <3>2, <3>3 DEF OutsideTable
  <2>8. TimersMatchTable'
    BY <1>0, <2>2, <2>4 DEF IInv, TimersMatchTable
  <2>9. Consistent(subscriptions', data', wire', sent')
    <3> HIDE DEF T
    <3> QED BY <1>0, <2>1, <2>2, <2>3, <2>4, <2>5, ConsistentNotify
  <2> QED BY <2>7, <2>8, <2>9
<1>12. CASE Tick
  <2>1. \A r \in SIDs : timeout_src'[r] # Unarmed <=> timeout_src[r] # Unarmed
    BY <1>0, <1>12 DEF Tick, Unarmed
  <2> QED
    BY <1>0, <1>12, <2>1, OthersKeep DEF Tick
<1>13. ASSUME NEW s \in SIDs, SubscriptionTimeout(s) PROVE Kept
  <2>1. {s} \in SUBSET subscriptions
    BY <1>13 DEF SubscriptionTimeout, IInv, TimersMatchTable, Unarmed
  <2> QED
    BY <1>13, <2>1, RemoveKeeps DEF SubscriptionTimeout
<1>14. ASSUME NEW m \in wire, Response(m) PROVE Kept
  <2> DEFINE u == Unlink(m)
  <2>1. /\ u \in [SIDs -> SubscriptionData]
        /\ \A s \in SIDs : s # m.sid => u[s] = data[s]
        /\ Consistent(subscriptions, u, wire \ {m}, sent)
        /\ m.sid \in SIDs
    BY <1>0, UnlinkKeeps DEF Notification
  <2> HIDE DEF u
  <2>2. CASE ResponseCancelled(m)
    <3>1. /\ m.sid \in cancelled
          /\ wire' = wire \ {x \in wire : x.sid = m.sid}
          /\ UNCHANGED table /\ data' = data /\ sent' = sent
      BY <2>2 DEF ResponseCancelled
    <3>2. m.sid \notin subscriptions
      BY <3>1 DEF IInv, OutsideTable
    <3>3. \A s \in subscriptions :
             /\ data[s].pending_messages = {x.id : x \in {y \in wire' : y.sid = s}}
             /\ data[s].seq = data[s].seq
      <4> TAKE s \in subscriptions
      <4>1. {y \in wire' : y.sid = s} = {y \in wire : y.sid = s}
        BY <3>1, <3>2
      <4> QED BY <1>0, <4>1 DEF Consistent
    <3>4. wire' \in SUBSET wire /\ subscriptions \in SUBSET subscriptions
      BY <3>1
    <3>5. Consistent(subscriptions, data, wire', sent)
      BY <1>0, <3>3, <3>4, ConsistentShrink
    <3> QED BY <1>0, <3>1, <3>5, OthersKeep DEF table
  <2>3. ASSUME m.sid \notin cancelled, wire' = wire \ {m}, UNCHANGED <<table, sent>>,
               \A s \in SIDs : s # m.sid => data'[s] = u[s],
               /\ data'[m.sid].pending_messages = u[m.sid].pending_messages
               /\ data'[m.sid].seq = u[m.sid].seq
        PROVE  Kept
    <3>1. m.sid \in subscriptions
      BY <2>3, CallbackHasData
    <3>2. \A s \in SIDs \ subscriptions : data'[s] = Zeroed
      BY <1>0, <2>1, <2>3, <3>1
    <3>3. \A s \in subscriptions : /\ data'[s].pending_messages = u[s].pending_messages
                                   /\ data'[s].seq = u[s].seq
      BY <1>0, <2>3
    <3>4. Consistent(subscriptions, data', wire', sent)
      BY <2>1, <2>3, <3>3 DEF Consistent
    <3> QED BY <2>3, <3>2, <3>4, OthersKeep DEF table
  <2>4. CASE ResponseOk(m)
    BY <2>1, <2>3, <2>4 DEF ResponseOk, GotResponse, u, SubscriptionData
  <2>5. CASE ResponsePreconditionFailed(m)
    <3>1. {m.sid} \in SUBSET subscriptions
      BY <2>5, CallbackHasData DEF ResponsePreconditionFailed, GotResponse
    <3> QED BY <2>5, <3>1, RemoveKeeps DEF ResponsePreconditionFailed
  <2>6. CASE ResponseTryNext(m)
    <3> DEFINE d == [u EXCEPT ![m.sid].current = @ + 1]
    <3>1. /\ m.sid \notin cancelled
          /\ NotifySubscribers({m.sid}, d, wire \ {m}, m.body)
          /\ UNCHANGED table
          /\ data[m.sid].current < data[m.sid].callbacks
      BY <2>6 DEF ResponseTryNext, GotResponse, u
    <3>2. m.sid \in subscriptions
      BY <3>1, CallbackHasData
    <3>3. data[m.sid].current + 1 \in 0 .. MaxCallbacks /\ u[m.sid].current = data[m.sid].current
      BY <1>0, <2>1, <3>1 DEF u, Unlink, SubscriptionData
    <3>4. d \in [SIDs -> SubscriptionData]
      BY <2>1, <3>3 DEF SubscriptionData
    <3>5. /\ \A s \in SIDs : s # m.sid => d[s] = u[s]
          /\ d[m.sid].pending_messages = u[m.sid].pending_messages
          /\ d[m.sid].seq = u[m.sid].seq
      BY <2>1 DEF SubscriptionData
    <3> HIDE DEF d
    <3>6. Consistent(subscriptions, d, wire \ {m}, sent)
      BY <1>0, <2>1, <3>5 DEF Consistent
    <3>7. \A s \in SIDs \ subscriptions : d[s] = Zeroed
      BY <1>0, <2>1, <3>2, <3>5
    <3>8. {m.sid} \in SUBSET subscriptions /\ wire \ {m} \in SUBSET Notification
      BY <1>0, <3>2
    <3> QED BY <3>1, <3>4, <3>6, <3>7, <3>8, NotifyKeeps
  <2>7. CASE ResponseNotifyFailed(m)
    BY <2>1, <2>3, <2>7 DEF ResponseNotifyFailed, GotResponse, u, SubscriptionData
  <2> QED
    BY <1>14, <2>2, <2>4, <2>5, <2>6, <2>7 DEF Response
<1>15. ASSUME NEW m \in wire, NEW st \in Statuses \ {"none"}, NEW delivered \in BOOLEAN,
              Answer(m, st, delivered)
       PROVE  Kept
  <2> DEFINE a == [m EXCEPT !.status = st]
  <2>1. /\ wire' = (wire \ {m}) \cup {a}
        /\ UNCHANGED <<table, data, sent>>
    BY <1>15 DEF Answer
  <2>2. a.sid = m.sid /\ a.id = m.id /\ a.seq = m.seq
    BY <1>0 DEF Notification
  <2> HIDE DEF a
  <2>3. \A s \in subscriptions : {x.id : x \in {y \in wire' : y.sid = s}}
                                 = {x.id : x \in {y \in wire : y.sid = s}}
    BY <2>1, <2>2
  <2>4. \A x \in wire' : x.id <= sent[x.sid] /\ x.seq = Key(x.id - 1)
    BY <1>0, <2>1, <2>2 DEF Consistent
  <2>5. \A x, k \in wire' : x.sid = k.sid /\ x.id = k.id => x = k
    BY <1>0, <2>1, <2>2 DEF Consistent
  <2>6. Consistent(subscriptions, data, wire', sent)
    BY <1>0, <2>3, <2>4, <2>5 DEF Consistent
  <2> QED BY <1>0, <2>1, <2>6, OthersKeep DEF table
<1>16. CASE UNCHANGED vars
  BY <1>0, <1>16, OthersKeep DEF vars
<1> QED
  BY <1>1, <1>2, <1>3, <1>4, <1>5, <1>6, <1>7, <1>8, <1>9, <1>10, <1>11, <1>12, <1>13,
     <1>14, <1>15, <1>16
  DEF Next, Requests, Application, MainLoop, Network

LEMMA Invariance == Spec => []IInv
<1>1. Init => IInv
  BY IInvInit DEF Init
<1> QED BY <1>1, IInvStep, PTL DEF Spec

-----------------------------------------------------------------------------
(* What follows from it.                                                   *)

LEMMA IInvImplies == IInv => PendingIsWire /\ TimersMatchTable /\ KeysAreConsecutive
<1> SUFFICES ASSUME IInv PROVE PendingIsWire /\ TimersMatchTable /\ KeysAreConsecutive
  OBVIOUS
<1>1. \A m \in wire : m.sid \in SIDs /\ m.id \in Nat \ {0} /\ m.id <= sent[m.sid]
  BY DEF IInv, TypeOK, Notification, Consistent
<1>2. ASSUME NEW s \in SIDs, s \notin subscriptions \cup cancelled PROVE WireOf(s) = {}
  <2>1. sent[s] = 0
    BY <1>2 DEF IInv, OutsideTable
  <2> QED BY <1>1, <2>1 DEF WireOf
<1>3. \A s \in subscriptions :
         /\ s \notin cancelled
         /\ data[s].pending_messages = {m.id : m \in WireOf(s)}
  BY DEF IInv, OutsideTable, Consistent, WireOf
<1>4. PendingIsWire
  BY <1>2, <1>3 DEF PendingIsWire
<1>5. TimersMatchTable
  BY DEF IInv
<1>6. KeysAreConsecutive
  BY DEF IInv, Consistent, KeysAreConsecutive
<1> QED BY <1>4, <1>5, <1>6

\* notify_got_response() never finds its SubscriptionData freed: a message in
\* flight is in the pending_messages of its subscription, or was cancelled.
THEOREM CallbacksFindTheirData == Spec => []PendingIsWire
<1>1. IInv => PendingIsWire
  BY IInvImplies
<1> QED BY <1>1, Invariance, PTL

\* subscription_timeout() never finds its SubscriptionData freed, and no
\* subscription is without a timer that ends it.
THEOREM TimersFindTheirData == Spec => []TimersMatchTable
<1>1. IInv => TimersMatchTable
  BY IInvImplies
<1> QED BY <1>1, Invariance, PTL

\* The event keys of a subscription count its messages, wherever they wrap
\* and whatever is sent again.
THEOREM KeysCountMessages == Spec => []KeysAreConsecutive
<1>1. IInv => KeysAreConsecutive
  BY IInvImplies
<1> QED BY <1>1, Invariance, PTL

LEMMA NotifySilent ==
    ASSUME NEW S \in SUBSET SIDs, NEW d, NEW w, NEW body, sent \in [SIDs -> Nat],
           NotifySubscribers(S, d, w, body)
    PROVE  \A s \in SIDs : s \notin S \/ CanDelete(d[s]) => sent'[s] = sent[s]
<1>1. sent' = [s \in SIDs |-> IF s \in {r \in S : ~CanDelete(d[r])} THEN sent[s] + 1
                             ELSE sent[s]]
  BY DEF NotifySubscribers
<1> QED BY <1>1

LEMMA SilentStep ==
    ASSUME IInv, [Next]_vars, NEW s \in SIDs,
           s \in cancelled \/ (data[s].to_delete /\ data[s].initial_state_sent)
    PROVE  sent'[s] = sent[s]
<1>0. /\ subscriptions \in SUBSET SIDs
      /\ sent \in [SIDs -> Nat]
      /\ data \in [SIDs -> SubscriptionData]
  BY DEF IInv, TypeOK
<1>1. s \notin subscriptions \/ CanDelete(data[s])
  BY DEF IInv, OutsideTable, CanDelete
<1>2. ASSUME NEW r \in SIDs, NEW n \in 1 .. MaxCallbacks, Subscribe(r, n)
      PROVE  sent'[s] = sent[s]
  <2>1. s # r
    BY <1>0, <1>2 DEF Subscribe, IInv, OutsideTable, Zeroed
  <2>2. {r} \in SUBSET SIDs
    OBVIOUS
  <2>3. NotifySubscribers({r}, [data EXCEPT ![r] = [Zeroed EXCEPT !.callbacks = n, !.current = 1]],
                          wire, InitialState(state_variables))
    BY <1>2 DEF Subscribe
  <2> QED BY <1>0, <2>1, <2>2, <2>3, NotifySilent
<1>3. ASSUME NEW body, NotifySubscribers(subscriptions, data, wire, body)
      PROVE  sent'[s] = sent[s]
  BY <1>0, <1>1, <1>3, NotifySilent
<1>4. CASE NotifyValue
  BY <1>3, <1>4 DEF NotifyValue
<1>5. CASE ThawNotify
  BY <1>3, <1>5 DEF ThawNotify
<1>6. ASSUME NEW ok \in BOOLEAN, GotIntrospection(ok) PROVE sent'[s] = sent[s]
  <2> DEFINE gone == {r \in subscriptions : CanDelete(data[r])}
             T    == subscriptions \ gone
  <2>1. NotifySubscribers(T, Freed(data, gone), wire, InitialState(ok))
    BY <1>6 DEF GotIntrospection
  <2>2. T \in SUBSET SIDs /\ s \notin T
    BY <1>0, <1>1
  <2> HIDE DEF T
  <2> QED BY <1>0, <2>1, <2>2, NotifySilent
<1>7. ASSUME NEW m \in wire, Response(m) PROVE sent'[s] = sent[s]
  <2>1. CASE ResponseTryNext(m)
    <3> DEFINE d == [Unlink(m) EXCEPT ![m.sid].current = @ + 1]
    <3>1. NotifySubscribers({m.sid}, d, wire \ {m}, m.body) /\ m.sid \notin cancelled
      BY <2>1 DEF ResponseTryNext, GotResponse
    <3>2. m.sid \in SIDs /\ {m.sid} \in SUBSET SIDs
      BY DEF IInv, TypeOK, Notification
    <3>3. d[m.sid].to_delete = data[m.sid].to_delete
          /\ d[m.sid].initial_state_sent = data[m.sid].initial_state_sent
      BY <1>0, <3>2 DEF Unlink, SubscriptionData
    <3> HIDE DEF d
    <3>4. s = m.sid => CanDelete(d[s])
      BY <3>1, <3>3 DEF CanDelete
    <3> QED BY <1>0, <3>1, <3>2, <3>4, NotifySilent
  <2> QED
    BY <1>7, <2>1
    DEF Response, ResponseCancelled, ResponseOk, ResponsePreconditionFailed,
        ResponseNotifyFailed
<1>8. CASE \/ \E r \in SIDs : Resubscribe(r) \/ Unsubscribe(r) \/ UnsubscribeEarly(r)
                             \/ SubscriptionTimeout(r)
           \/ NotifyFrozen \/ FreezeNotify \/ RootDeviceUnavailable \/ Dispose \/ Tick
           \/ Network \/ UNCHANGED vars
  BY <1>8 DEF Resubscribe, Unsubscribe, UnsubscribeEarly, SubscriptionTimeout, NotifyFrozen,
     FreezeNotify, RootDeviceUnavailable, Dispose, Tick, Network, Answer, vars
<1> QED
  BY <1>2, <1>4, <1>5, <1>6, <1>7, <1>8 DEF Next, Requests, Application, MainLoop

\* A subscriber that is gone, or wants to be, is sent nothing more.
THEOREM GoneIsSilent == Spec => SilentAfterUnsubscribe
<1>1. IInv /\ [Next]_vars =>
        [\A s \in SIDs :
            s \in cancelled \/ (data[s].to_delete /\ data[s].initial_state_sent)
               => sent'[s] = sent[s]]_vars
  BY SilentStep
<1> QED BY <1>1, Invariance, PTL DEF Spec, SilentAfterUnsubscribe

-----------------------------------------------------------------------------
(* The promise.  It holds for subscribers with one callback URL: a message *)
(* that is sent again to a second one overtakes nothing and is overtaken.  *)

\* The messages of a subscriber carry what the variable was when they were
\* queued, none of them is older than what the subscriber knows, and what waits
\* for a thaw is the present value.
InOrder ==
    /\ \A m \in wire : m.body <= value
    /\ \A m, k \in wire :
          m.sid = k.sid /\ m.id < k.id /\ m.body # Empty /\ k.body # Empty
             => m.body <= k.body
    /\ \A m \in wire : m.status = "none" /\ m.body # Empty => view[m.sid] <= m.body
    /\ \A s \in SIDs : view[s] <= value
    /\ notify_queue # Empty => notify_frozen /\ notify_queue = value

LEMMA InOrderInit ==
    ASSUME NEW known \in BOOLEAN, NEW pending \in BOOLEAN, InitWith(known, pending)
    PROVE  InOrder
BY ServiceAssumption DEF InitWith, InOrder, Empty

\* A property set is always of the present value when it is queued.
LEMMA NotifyInOrder ==
    ASSUME IInv, IInv', InOrder, NEW S \in SUBSET SIDs,
           NEW d, NEW w \in SUBSET wire, NEW body,
           NotifySubscribers(S, d, w, body),
           body \in {value', Empty}, value' \in {value, value + 1}, view' = view,
           notify_queue' # Empty => notify_frozen' /\ notify_queue' = value'
    PROVE  InOrder'
<1> DEFINE to == {s \in S : ~CanDelete(d[s])}
           new(s) == Message(s, d[s], body)
<1>1. wire' = w \cup {new(s) : s \in to}
  BY DEF NotifySubscribers
<1>2. \A s \in to : /\ s \in SIDs
                    /\ new(s).sid = s
                    /\ new(s).id = sent[s] + 1
                    /\ new(s).body = body
  BY DEF Message
<1> HIDE DEF to, new
<1>3. /\ value \in Int /\ value' \in Int /\ value' >= value /\ value >= 0 /\ Empty <= value'
      /\ \A s \in SIDs : view[s] \in Int /\ view[s] <= value'
  BY ServiceAssumption DEF IInv, TypeOK, InOrder, Values, Empty
<1>4. \A m \in wire : /\ m.sid \in SIDs /\ m.id \in Nat /\ m.body \in Int
                      /\ m.id <= sent[m.sid] /\ sent[m.sid] \in Nat
                      /\ m.body <= value'
  <2> TAKE m \in wire
  <2>1. m \in Notification
    BY DEF IInv, TypeOK
  <2>2. m.sid \in SIDs /\ m.id \in Nat /\ m.body \in Int
    BY <2>1, ServiceAssumption DEF Notification, Values
  <2>3. m.id <= sent[m.sid] /\ sent[m.sid] \in Nat
    BY <2>2 DEF IInv, TypeOK, Consistent
  <2>4. m.body <= value
    BY DEF InOrder
  <2> QED BY <1>3, <2>2, <2>3, <2>4
<1>5. \A m \in wire' : m \in wire \/ \E s \in to : m = new(s)
  BY <1>1
<1>6. \A m \in wire' : m.body <= value'
  BY <1>2, <1>3, <1>4, <1>5
<1>7. ASSUME NEW m \in wire', NEW k \in wire',
             m.sid = k.sid, m.id < k.id, m.body # Empty, k.body # Empty
      PROVE  m.body <= k.body
  <2>1. CASE k \in wire
    <3>1. ASSUME NEW s \in to, m = new(s) PROVE FALSE
      <4>1. k.id <= sent[s] /\ sent[s] \in Nat /\ k.id \in Nat
        BY <1>2, <1>4, <1>7, <2>1, <3>1
      <4>2. m.id = sent[s] + 1
        BY <1>2, <3>1
      <4> QED BY <1>7, <4>1, <4>2
    <3>2. m \in wire
      BY <1>5, <3>1
    <3> QED BY <1>7, <2>1, <3>2 DEF InOrder
  <2>2. CASE k \notin wire
    <3>1. k.body = value'
      BY <1>2, <1>5, <1>7, <2>2
    <3> QED BY <1>6, <3>1
  <2> QED BY <2>1, <2>2
<1>8. ASSUME NEW m \in wire', m.status = "none", m.body # Empty PROVE view[m.sid] <= m.body
  <2>1. CASE m \in wire
    BY <1>8, <2>1 DEF InOrder
  <2>2. CASE m \notin wire
    BY <1>2, <1>3, <1>5, <1>8, <2>2
  <2> QED BY <2>1, <2>2
<1> QED BY <1>3, <1>6, <1>7, <1>8 DEF InOrder

\* Steps that queue nothing and change neither the variable nor what anybody
\* knows of it.
LEMMA QuietInOrder ==
    ASSUME InOrder, wire' \in SUBSET wire, value' = value, view' = view,
           notify_queue' # Empty => notify_frozen' /\ notify_queue' = value'
    PROVE  InOrder'
BY DEF InOrder

LEMMA InOrderStep ==
    ASSUME MaxCallbacks = 1, IInv, IInv', InOrder, [Next]_vars
    PROVE  InOrder'
<1>0. /\ subscriptions \in SUBSET SIDs
      /\ wire \in SUBSET wire
      /\ value \in Int
  BY DEF IInv, TypeOK
<1>1. ASSUME NEW s \in SIDs, NEW n \in 1 .. MaxCallbacks, Subscribe(s, n) PROVE InOrder'
  <2> DEFINE d == [data EXCEPT ![s] = [Zeroed EXCEPT !.callbacks = n, !.current = 1]]
  <2>1. /\ NotifySubscribers({s}, d, wire, InitialState(state_variables))
        /\ UNCHANGED <<queues, value, view>>
    BY <1>1 DEF Subscribe
  <2>2. InitialState(state_variables) \in {value', Empty}
    BY <2>1 DEF InitialState
  <2>3. {s} \in SUBSET SIDs
    OBVIOUS
  <2>4. notify_queue' # Empty => notify_frozen' /\ notify_queue' = value'
    BY <2>1 DEF InOrder, queues
  <2> HIDE DEF d
  <2> QED BY <1>0, <2>1, <2>2, <2>3, <2>4, NotifyInOrder
<1>2. ASSUME NEW s \in SIDs,
             Resubscribe(s) \/ Unsubscribe(s) \/ UnsubscribeEarly(s) \/ SubscriptionTimeout(s)
      PROVE  InOrder'
  BY <1>0, <1>2, QuietInOrder
  DEF Resubscribe, Unsubscribe, UnsubscribeEarly, SubscriptionTimeout, queues, InOrder
<1>3. CASE NotifyFrozen
  <2>1. wire' = wire /\ value' = value + 1 /\ view' = view /\ notify_queue' = value'
        /\ notify_frozen'
    BY <1>3 DEF NotifyFrozen
  <2>2. /\ \A m \in wire : m.body \in Int
        /\ \A s \in SIDs : view[s] \in Int
    BY ServiceAssumption DEF IInv, TypeOK, Notification, Values
  <2> QED BY <1>0, <2>1, <2>2 DEF InOrder
<1>4. CASE NotifyValue
  <2>1. NotifySubscribers(subscriptions, data, wire, value') /\ view' = view
        /\ value' = value + 1 /\ notify_queue' = notify_queue /\ ~notify_frozen
    BY <1>4 DEF NotifyValue, queues
  <2>2. notify_queue' # Empty => notify_frozen' /\ notify_queue' = value'
    BY <2>1 DEF InOrder
  <2>3. value' \in {value', Empty} /\ value' \in {value, value + 1}
    BY <2>1
  <2> QED BY <1>0, <2>1, <2>2, <2>3, NotifyInOrder
<1>5. CASE FreezeNotify
  BY <1>0, <1>5, QuietInOrder DEF FreezeNotify, InOrder
<1>6. CASE ThawNotify
  <2>1. value' = value /\ view' = view /\ notify_queue' = Empty
    BY <1>6 DEF ThawNotify
  <2>2. CASE notify_queue = Empty
    <3>1. wire' = wire
      BY <1>6, <2>2 DEF ThawNotify
    <3> QED BY <1>0, <2>1, <3>1, QuietInOrder
  <2>3. CASE notify_queue # Empty
    <3>1. NotifySubscribers(subscriptions, data, wire, notify_queue)
      BY <1>6, <2>3 DEF ThawNotify
    <3>2. notify_queue \in {value', Empty} /\ value' \in {value, value + 1}
      BY <2>1, <2>3 DEF InOrder
    <3> QED BY <1>0, <2>1, <3>1, <3>2, NotifyInOrder
  <2> QED BY <2>2, <2>3
<1>7. CASE RootDeviceUnavailable \/ Dispose \/ Tick \/ UNCHANGED vars
  BY <1>0, <1>7, QuietInOrder DEF RootDeviceUnavailable, Dispose, Tick, vars, queues, InOrder
<1>8. ASSUME NEW ok \in BOOLEAN, GotIntrospection(ok) PROVE InOrder'
  <2> DEFINE gone == {s \in subscriptions : CanDelete(data[s])}
             S    == subscriptions \ gone
             d    == Freed(data, gone)
  <2>1. NotifySubscribers(S, d, wire, InitialState(ok)) /\ UNCHANGED <<queues, value, view>>
    BY <1>8 DEF GotIntrospection
  <2>2. InitialState(ok) \in {value', Empty} /\ S \in SUBSET SIDs
    BY <1>0, <2>1 DEF InitialState
  <2>3. notify_queue' # Empty => notify_frozen' /\ notify_queue' = value'
    BY <2>1 DEF InOrder, queues
  <2> HIDE DEF d, S
  <2> QED BY <1>0, <2>1, <2>2, <2>3, NotifyInOrder
<1>9. ASSUME NEW m \in wire, Response(m) PROVE InOrder'
  <2>1. ~ResponseTryNext(m)
    <3>1. SUFFICES ASSUME ResponseTryNext(m) PROVE FALSE
      OBVIOUS
    <3>2. m.sid \in subscriptions
      BY <3>1, CallbackHasData DEF ResponseTryNext, GotResponse
    <3>3. data[m.sid].current \in 1 .. data[m.sid].callbacks
          /\ data[m.sid].callbacks \in 0 .. MaxCallbacks
      BY <3>2 DEF IInv, TypeOK, SubscriptionData
    <3> QED BY <3>1, <3>3 DEF ResponseTryNext
  <2> QED
    BY <1>0, <1>9, <2>1, QuietInOrder
    DEF Response, ResponseCancelled, ResponseOk, ResponsePreconditionFailed,
        ResponseNotifyFailed, queues, InOrder
<1>10. ASSUME NEW m \in wire, NEW st \in Statuses \ {"none"}, NEW delivered \in BOOLEAN,
              Answer(m, st, delivered)
       PROVE  InOrder'
  <2> DEFINE a == [m EXCEPT !.status = st]
  <2>1. /\ wire' = (wire \ {m}) \cup {a}
        /\ UNCHANGED <<notify_queue, notify_frozen, value>>
        /\ m.status = "none" /\ Before(m) = {}
    BY <1>10 DEF Answer, queues
  <2>2. /\ m \in Notification /\ m.sid \in SIDs
        /\ a.sid = m.sid /\ a.id = m.id /\ a.body = m.body /\ a.status = st
    BY DEF IInv, TypeOK, Notification
  <2>3. \A k \in wire : k.sid = m.sid /\ k # m => m.id < k.id
    <3> TAKE k \in wire
    <3> HAVE k.sid = m.sid /\ k # m
    <3>1. k.cb = 1 /\ m.cb = 1 /\ k.id \in Nat /\ m.id \in Nat
      BY DEF IInv, TypeOK, Notification
    <3>2. k.id # m.id
      BY DEF IInv, Consistent
    <3>3. ~(k.id < m.id)
      BY <2>1, <3>1 DEF Before
    <3> QED BY <3>1, <3>2, <3>3
  <2> HIDE DEF a
  <2>4. \A k \in wire' : (k \in wire /\ k # m) \/ k = a
    BY <2>1
  <2>5. st # "none"
    OBVIOUS
  <2>6. /\ \A k \in wire' : k.body <= value'
        /\ \A k, l \in wire' :
              k.sid = l.sid /\ k.id < l.id /\ k.body # Empty /\ l.body # Empty
                 => k.body <= l.body
    BY <2>1, <2>2, <2>4 DEF InOrder
  <2>7. notify_queue' # Empty => notify_frozen' /\ notify_queue' = value'
    BY <2>1 DEF InOrder
  <2>8. CASE ~(delivered /\ m.body # Empty)
    <3>1. view' = view
      BY <1>10, <2>8 DEF Answer
    <3>2. \A k \in wire' : k.status = "none" /\ k.body # Empty => view'[k.sid] <= k.body
      BY <2>2, <2>4, <2>5, <3>1 DEF InOrder
    <3> QED BY <2>1, <2>6, <2>7, <3>1, <3>2 DEF InOrder
  <2>9. CASE delivered /\ m.body # Empty
    <3>1. view' = [view EXCEPT ![m.sid] = m.body] /\ view \in [SIDs -> Values]
      BY <1>10, <2>9 DEF Answer, IInv, TypeOK
    <3>2. \A k \in wire' : k.status = "none" /\ k.body # Empty => view'[k.sid] <= k.body
      <4> TAKE k \in wire'
      <4> HAVE k.status = "none" /\ k.body # Empty
      <4>1. k \in wire /\ k # m /\ k.sid \in SIDs
        BY <2>2, <2>4, <2>5 DEF IInv, TypeOK, Notification
      <4>2. CASE k.sid = m.sid
        BY <2>2, <2>3, <2>9, <3>1, <4>1, <4>2 DEF InOrder
      <4>3. CASE k.sid # m.sid
        BY <3>1, <4>1, <4>3 DEF InOrder
      <4> QED BY <4>2, <4>3
    <3>3. \A s \in SIDs : view'[s] <= value'
      BY <2>1, <3>1 DEF InOrder
    <3> QED BY <2>6, <2>7, <3>2, <3>3 DEF InOrder
  <2> QED BY <2>8, <2>9
<1> QED
  BY <1>1, <1>2, <1>3, <1>4, <1>5, <1>6, <1>7, <1>8, <1>9, <1>10
  DEF Next, Requests, Application, MainLoop, Network

LEMMA PromiseInit == Init => Promise!Init
BY DEF Init, InitWith, Promise!Init, Promise!Unknown, Empty

LEMMA PromiseStep ==
    ASSUME IInv, InOrder, [Next]_vars
    PROVE  [Promise!Next]_<<value, view>>
<1>1. CASE NotifyFrozen \/ NotifyValue
  BY <1>1 DEF NotifyFrozen, NotifyValue, Promise!Next, Promise!Change
<1>2. ASSUME NEW m \in wire, NEW st \in Statuses \ {"none"}, NEW delivered \in BOOLEAN,
             Answer(m, st, delivered)
      PROVE  [Promise!Next]_<<value, view>>
  <2>1. CASE delivered /\ m.body # Empty
    <3>1. m.sid \in SIDs /\ m.body \in -1 .. MaxValue
      BY DEF IInv, TypeOK, Notification, Values
    <3>2. m.body \in 0 .. value /\ m.body >= view[m.sid]
      BY <1>2, <2>1, <3>1, ServiceAssumption DEF Answer, InOrder, Empty, IInv, TypeOK
    <3>3. value' = value /\ view' = [view EXCEPT ![m.sid] = m.body]
      BY <1>2, <2>1 DEF Answer
    <3>4. Promise!Tell(m.sid)
      BY <3>2, <3>3 DEF Promise!Tell
    <3> QED BY <3>1, <3>4 DEF Promise!Next
  <2>2. CASE ~(delivered /\ m.body # Empty)
    BY <1>2, <2>2 DEF Answer
  <2> QED BY <2>1, <2>2
<1>3. CASE ~Network /\ ~NotifyFrozen /\ ~NotifyValue
  <2>1. UNCHANGED <<value, view>>
    BY <1>3 DEF Next, Requests, Application, MainLoop, Subscribe, Resubscribe, Unsubscribe,
       UnsubscribeEarly, FreezeNotify, ThawNotify, RootDeviceUnavailable, Dispose,
       GotIntrospection, Tick, SubscriptionTimeout, Response, ResponseCancelled, ResponseOk,
       ResponsePreconditionFailed, ResponseTryNext, ResponseNotifyFailed, vars
  <2> QED BY <2>1
<1> QED
  BY <1>1, <1>2, <1>3 DEF Network

\* To subscribers with one callback URL the service keeps the promise of
\* EventedValue: what a subscriber is told is a value the variable had, and
\* never older than what it was told before.
THEOREM OneCallbackKeepsPromise ==
    ASSUME MaxCallbacks = 1
    PROVE  Spec => KeepsPromise
<1>1. Init => InOrder /\ Promise!Init
  BY InOrderInit, PromiseInit DEF Init
<1>2. IInv /\ IInv' /\ InOrder /\ [Next]_vars => InOrder'
  BY InOrderStep
<1>3. IInv /\ InOrder /\ [Next]_vars => [Promise!Next]_<<value, view>>
  BY PromiseStep
<1> QED
  BY <1>1, <1>2, <1>3, Invariance, PTL DEF Spec, KeepsPromise, Promise!Spec

-----------------------------------------------------------------------------
(* Nothing is lost silently, with one callback URL again: with two, a      *)
(* message that is sent again may bring back an old value.                 *)

\* What the service and the network still have for subscriber s: the newest
\* message is in flight while any is, only the oldest may have been answered, and the
\* newest carries the present value.  When none is left, the subscriber has
\* been told, or the application has.
Informed(s) ==
    /\ WireOf(s) # {} => \E m \in WireOf(s) : m.id = sent[s]
    /\ \A m, k \in WireOf(s) : m.status # "none" => m.id <= k.id
    /\ ~data[s].to_delete /\ state_variables /\ notify_queue = Empty =>
          /\ \A m \in WireOf(s) :
                m.id = sent[s] => m.body = value /\ (m.status = "ok" => view[s] = value)
          /\ WireOf(s) = {} => value \in {view[s], failed[s]}

AllInformed == \A s \in subscriptions : Informed(s)

\* Steps that change nothing of a subscriber leave it informed.
LEMMA StillInformed ==
    ASSUME NEW s, Informed(s),
           {m \in wire' : m.sid = s} = {m \in wire : m.sid = s}, sent'[s] = sent[s],
           data[s].to_delete => data'[s].to_delete, state_variables' = state_variables,
           notify_queue' = Empty => notify_queue = Empty /\ value' = value,
           view'[s] = view[s], failed'[s] = failed[s]
    PROVE  Informed(s)'
BY DEF Informed, WireOf

\* A subscriber that is sent the present value is informed.
LEMMA NowInformed ==
    ASSUME IInv, NEW S \in SUBSET SIDs, NEW d \in [SIDs -> SubscriptionData], NEW body,
           NotifySubscribers(S, d, wire, body),
           NEW s \in S, ~CanDelete(d[s]),
           s \in subscriptions => Informed(s), s \notin subscriptions => s \notin cancelled,
           state_variables' => body = value'
    PROVE  Informed(s)'
<1> DEFINE to == {r \in S : ~CanDelete(d[r])}
           new == Message(s, d[s], body)
<1>1. /\ wire' = wire \cup {Message(r, d[r], body) : r \in to}
      /\ sent' = [r \in SIDs |-> IF r \in to THEN sent[r] + 1 ELSE sent[r]]
  BY Zenon DEF NotifySubscribers
<1>2. /\ new.sid = s /\ new.id = sent[s] + 1 /\ new.body = body /\ new.status = "none"
      /\ \A r : Message(r, d[r], body).sid = r
  BY DEF Message
<1>3. s \in SIDs /\ s \in to
  OBVIOUS
<1>4. \A m \in WireOf(s) : m.id <= sent[s] /\ m.id \in Nat /\ sent[s] \in Nat
  BY <1>3 DEF WireOf, IInv, TypeOK, Notification, Consistent
<1>5. sent[s] \in Nat /\ sent'[s] = sent[s] + 1
  BY <1>1, <1>3 DEF IInv, TypeOK
<1> HIDE DEF to, new
<1>6. \A m : m \in WireOf(s)' <=> m \in WireOf(s) \/ m = new
  BY <1>1, <1>2, <1>3 DEF WireOf, new
<1>7. \A m, k \in WireOf(s) : m.status # "none" => m.id <= k.id
  <2>1. CASE s \in subscriptions
    BY <2>1 DEF Informed
  <2>2. CASE s \notin subscriptions
    <3>1. sent[s] = 0
      BY <1>3, <2>2 DEF IInv, OutsideTable
    <3>2. WireOf(s) = {}
      BY <1>3, <3>1 DEF WireOf, IInv, TypeOK, Notification, Consistent
    <3> QED BY <3>2
  <2> QED BY <2>1, <2>2
<1>8. \E m \in WireOf(s)' : m.id = sent'[s]
  BY <1>2, <1>5, <1>6
<1>9. \A m, k \in WireOf(s)' : m.status # "none" => m.id <= k.id
  BY <1>2, <1>4, <1>5, <1>6, <1>7
<1>10. \A m \in WireOf(s)' : m.id = sent'[s] => m = new
  BY <1>4, <1>5, <1>6
<1> QED BY <1>2, <1>8, <1>9, <1>10 DEF Informed

\* Who is not sent a message has the messages, and the record, he had.
LEMMA OthersNotNotified ==
    ASSUME NEW S, NEW d, NEW w, NEW body, NotifySubscribers(S, d, w, body),
           NEW s \in SIDs, s \notin S \/ CanDelete(d[s])
    PROVE  /\ {m \in wire' : m.sid = s} = {m \in w : m.sid = s}
           /\ sent'[s] = sent[s] /\ data'[s] = d[s]
<1> DEFINE to == {r \in S : ~CanDelete(d[r])}
<1>1. s \notin to
  OBVIOUS
<1>2. \A r : Message(r, d[r], body).sid = r
  BY DEF Message
<1>3. wire' = w \cup {Message(r, d[r], body) : r \in to}
  BY Zenon DEF NotifySubscribers
<1>4. sent'[s] = sent[s] /\ data'[s] = d[s]
  <2>1. /\ sent' = [r \in SIDs |-> IF r \in to THEN sent[r] + 1 ELSE sent[r]]
        /\ data' = [r \in SIDs |->
                       IF r \in to
                       THEN [d[r] EXCEPT !.seq = NextSeq(@),
                                         !.pending_messages = @ \cup {sent[r] + 1}]
                       ELSE d[r]]
    BY Zenon DEF NotifySubscribers
  <2> HIDE DEF to
  <2> QED BY <1>1, <2>1
<1> HIDE DEF to
<1> QED BY <1>1, <1>2, <1>3, <1>4

LEMMA InformedStep ==
    ASSUME MaxCallbacks = 1, IInv, IInv', InOrder, AllInformed, [Next]_vars
    PROVE  AllInformed'
<1> SUFFICES ASSUME NEW s \in subscriptions' PROVE Informed(s)'
  BY DEF AllInformed
<1>0. /\ s \in SIDs /\ subscriptions \in SUBSET SIDs
      /\ data \in [SIDs -> SubscriptionData] /\ sent \in [SIDs -> Nat]
      /\ view \in [SIDs -> Values] /\ failed \in [SIDs -> Values]
      /\ \A m \in wire : m \in Notification
      /\ value \in Nat
  BY ServiceAssumption DEF IInv, TypeOK
<1>1. s \in subscriptions => Informed(s)
  BY DEF AllInformed
<1>2. ASSUME NEW r \in SIDs, NEW n \in 1 .. MaxCallbacks, Subscribe(r, n) PROVE Informed(s)'
  <2> DEFINE d == [data EXCEPT ![r] = [Zeroed EXCEPT !.callbacks = n, !.current = 1]]
  <2>1. /\ NotifySubscribers({r}, d, wire, InitialState(state_variables))
        /\ UNCHANGED <<queues, setup, value, view, failed>>
        /\ subscriptions' = subscriptions \cup {r} /\ r \notin subscriptions \cup cancelled
    BY <1>2 DEF Subscribe
  <2>2. d \in [SIDs -> SubscriptionData] /\ ~CanDelete(d[r]) /\ \A k \in SIDs : k # r => d[k] = data[k]
    <3>1. Zeroed \in SubscriptionData /\ n \in 0 .. MaxCallbacks /\ 1 \in 0 .. MaxCallbacks
      BY ServiceAssumption DEF Zeroed, SubscriptionData
    <3>2. [Zeroed EXCEPT !.callbacks = n, !.current = 1] \in SubscriptionData
      BY <3>1 DEF SubscriptionData
    <3> QED BY <1>0, <3>2 DEF CanDelete, Zeroed
  <2> HIDE DEF d
  <2>3. CASE s = r
    <3>1. state_variables' => InitialState(state_variables) = value'
      BY <2>1 DEF setup, InitialState
    <3>2. {r} \in SUBSET SIDs /\ s \in {r}
      BY <2>3
    <3>3. s \notin subscriptions /\ s \notin cancelled
      BY <2>1, <2>3
    <3> QED BY <2>1, <2>2, <2>3, <3>1, <3>2, <3>3, NowInformed
  <2>4. CASE s # r
    <3>1. /\ {m \in wire' : m.sid = s} = {m \in wire : m.sid = s}
          /\ sent'[s] = sent[s] /\ data'[s] = data[s]
      BY <1>0, <2>1, <2>2, <2>4, OthersNotNotified
    <3> QED BY <1>1, <2>1, <2>4, <3>1, StillInformed DEF queues, setup
  <2> QED BY <2>3, <2>4
<1>3. ASSUME wire' = wire, UNCHANGED <<notify_queue, state_variables, value, sent, view, failed>>,
             subscriptions' \in SUBSET subscriptions,
             data[s].to_delete => data'[s].to_delete
      PROVE  Informed(s)'
  BY <1>1, <1>3, StillInformed
<1>4. ASSUME NEW S \in SUBSET SIDs, RemoveSubscriptions(S), data' = Freed(data, S)
      PROVE  /\ subscriptions' \in SUBSET subscriptions
             /\ data'[s] = data[s] /\ s \notin S
  BY <1>0, <1>4 DEF RemoveSubscriptions, Freed
<1>5. ASSUME NEW r \in SIDs, Unsubscribe(r) \/ SubscriptionTimeout(r) PROVE Informed(s)'
  <2>1. {r} \in SUBSET SIDs
    OBVIOUS
  <2> QED BY <1>3, <1>4, <1>5, <2>1 DEF Unsubscribe, SubscriptionTimeout, queues, setup
<1>6. CASE RootDeviceUnavailable \/ Dispose
  BY <1>0, <1>3, <1>4, <1>6 DEF RootDeviceUnavailable, Dispose, queues, setup
<1>7. ASSUME NEW r \in SIDs, Resubscribe(r) PROVE Informed(s)'
  BY <1>3, <1>7 DEF Resubscribe, queues, setup
<1>8. ASSUME NEW r \in SIDs, UnsubscribeEarly(r) PROVE Informed(s)'
  <2>1. data' = [data EXCEPT ![r].to_delete = TRUE] /\ UNCHANGED table
    BY <1>8 DEF UnsubscribeEarly
  <2>2. data[s].to_delete => data'[s].to_delete
    BY <1>0, <2>1 DEF SubscriptionData
  <2> QED BY <1>3, <1>8, <2>1, <2>2 DEF UnsubscribeEarly, table, queues, setup
<1>9. CASE FreezeNotify \/ Tick \/ UNCHANGED vars
  BY <1>3, <1>9 DEF FreezeNotify, Tick, vars, table, queues, setup
<1>10. CASE NotifyFrozen
  <2>1. /\ wire' = wire /\ data' = data /\ sent' = sent /\ view' = view /\ failed' = failed
        /\ state_variables' = state_variables /\ subscriptions' = subscriptions
        /\ notify_queue' = value + 1
    BY <1>10 DEF NotifyFrozen, table, setup
  <2>2. notify_queue' # Empty
    BY <1>0, <2>1 DEF Empty
  <2> QED BY <1>1, <2>1, <2>2, StillInformed
<1>11. ASSUME NEW body, body = value', NotifySubscribers(subscriptions, data, wire, body),
              subscriptions' = subscriptions
       PROVE  ~CanDelete(data[s]) => Informed(s)'
  BY <1>0, <1>1, <1>11, NowInformed
<1>12. ASSUME NEW body, NotifySubscribers(subscriptions, data, wire, body), CanDelete(data[s])
       PROVE  /\ {m \in wire' : m.sid = s} = {m \in wire : m.sid = s}
              /\ sent'[s] = sent[s] /\ data'[s] = data[s]
  BY <1>0, <1>12, OthersNotNotified
<1>13. ASSUME CanDelete(data[s]), subscriptions' = subscriptions,
              {m \in wire' : m.sid = s} = {m \in wire : m.sid = s},
              sent'[s] = sent[s], data'[s] = data[s]
       PROVE  Informed(s)'
  BY <1>1, <1>13 DEF Informed, WireOf, CanDelete
<1>14. CASE NotifyValue
  <2>1. NotifySubscribers(subscriptions, data, wire, value') /\ subscriptions' = subscriptions
    BY <1>14 DEF NotifyValue, table
  <2> QED BY <2>1, <1>11, <1>12, <1>13
<1>15. CASE ThawNotify
  <2>1. CASE notify_queue = Empty
    BY <1>3, <1>15, <2>1 DEF ThawNotify, table, setup
  <2>2. CASE notify_queue # Empty
    <3>1. /\ NotifySubscribers(subscriptions, data, wire, notify_queue)
          /\ subscriptions' = subscriptions /\ value' = value
      BY <1>15, <2>2 DEF ThawNotify, table
    <3>2. notify_queue = value'
      BY <2>2, <3>1 DEF InOrder
    <3> QED BY <3>1, <3>2, <1>11, <1>12, <1>13
  <2> QED BY <2>1, <2>2
<1>16. ASSUME NEW ok \in BOOLEAN, GotIntrospection(ok) PROVE Informed(s)'
  <2> DEFINE gone == {r \in subscriptions : CanDelete(data[r])}
             S    == subscriptions \ gone
             d    == Freed(data, gone)
  <2>1. /\ NotifySubscribers(S, d, wire, InitialState(ok)) /\ RemoveSubscriptions(gone)
        /\ state_variables' = ok /\ value' = value
    BY <1>16 DEF GotIntrospection
  <2>2. s \in S /\ ~CanDelete(data[s]) /\ s \in subscriptions /\ d[s] = data[s]
    BY <1>0, <2>1 DEF RemoveSubscriptions, Freed
  <2>3. S \in SUBSET SIDs /\ d \in [SIDs -> SubscriptionData]
    <3>1. gone \in SUBSET SIDs
      BY <1>0
    <3> QED BY <1>0, <3>1, FreedType
  <2>4. state_variables' => InitialState(ok) = value'
    BY <2>1 DEF InitialState
  <2> HIDE DEF S, d, gone
  <2> QED BY <1>1, <2>1, <2>2, <2>3, <2>4, NowInformed
<1>17. ASSUME NEW m \in wire, Response(m) PROVE Informed(s)'
  <2>1. ~ResponseTryNext(m)
    <3>1. SUFFICES ASSUME ResponseTryNext(m) PROVE FALSE
      OBVIOUS
    <3>2. m.sid \in subscriptions
      BY <3>1, CallbackHasData DEF ResponseTryNext, GotResponse
    <3>3. data[m.sid].current \in 1 .. data[m.sid].callbacks
          /\ data[m.sid].callbacks \in 0 .. MaxCallbacks
      BY <3>2 DEF IInv, TypeOK, SubscriptionData
    <3> QED BY <3>1, <3>3 DEF ResponseTryNext
  <2>2. m.sid \in SIDs /\ m.id \in Nat /\ \A k \in WireOf(s) : k.id \in Nat
    BY <1>0 DEF Notification, WireOf
  <2>3. CASE m.sid # s
    <3>1. {k \in wire' : k.sid = s} = {k \in wire : k.sid = s} /\ sent'[s] = sent[s]
          /\ state_variables' = state_variables /\ notify_queue' = notify_queue
          /\ value' = value /\ view' = view
      BY <1>17, <2>1, <2>3 DEF Response, ResponseCancelled, ResponseOk,
         ResponsePreconditionFailed, ResponseNotifyFailed, queues, setup
    <3>2. failed'[s] = failed[s]
      BY <1>0, <1>17, <2>1, <2>3 DEF Response, ResponseCancelled, ResponseOk,
         ResponsePreconditionFailed, ResponseNotifyFailed
    <3>3. data'[s] = data[s]
      BY <1>0, <1>17, <2>1, <2>2, <2>3 DEF Response, ResponseCancelled, ResponseOk, Unlink,
         ResponsePreconditionFailed, ResponseNotifyFailed, Freed
    <3>4. s \in subscriptions
      BY <1>17, <2>1 DEF Response, ResponseCancelled, ResponseOk, table,
         ResponsePreconditionFailed, ResponseNotifyFailed, RemoveSubscriptions
    <3> QED BY <1>1, <3>1, <3>2, <3>3, <3>4, StillInformed
  <2>4. CASE m.sid = s
    <3>1. ~ResponseCancelled(m)
      BY <2>4 DEF ResponseCancelled, table, IInv, OutsideTable
    <3>2. ~ResponsePreconditionFailed(m)
      BY <2>4 DEF ResponsePreconditionFailed, RemoveSubscriptions
    <3>3. /\ wire' = wire \ {m} /\ sent' = sent /\ value' = value /\ view' = view
          /\ state_variables' = state_variables /\ notify_queue' = notify_queue
          /\ s \in subscriptions /\ m.status # "none"
      BY <1>17, <2>1, <3>1, <3>2 DEF Response, ResponseOk, ResponseNotifyFailed, GotResponse,
         table, queues, setup
    <3>4. data[s].to_delete => data'[s].to_delete
      BY <1>0, <1>17, <2>1, <2>2, <2>4, <3>1, <3>2 DEF Response, ResponseOk,
         ResponseNotifyFailed, Unlink, SubscriptionData
    <3>5. /\ m \in WireOf(s) /\ \A k : k \in WireOf(s)' <=> k \in WireOf(s) /\ k # m
          /\ \A k \in WireOf(s) : k.id = m.id => k = m
      BY <2>4, <3>3 DEF WireOf, IInv, Consistent
    <3>6. \A k \in WireOf(s) : m.id <= k.id
      BY <1>1, <3>3, <3>5 DEF Informed
    <3>7. PICK last \in WireOf(s) : last.id = sent[s]
      BY <1>1, <3>3, <3>5 DEF Informed
    <3>8. \A k \in WireOf(s) : k.id <= sent[s]
      BY <2>4 DEF WireOf, IInv, Consistent
    <3>9. WireOf(s)' # {} => \E k \in WireOf(s)' : k.id = sent'[s]
      <4>1. CASE last = m
        <5>1. \A k \in WireOf(s) : k.id = m.id
          BY <1>0, <2>2, <3>6, <3>7, <3>8, <4>1
        <5> QED BY <3>5, <5>1
      <4>2. CASE last # m
        BY <3>3, <3>5, <3>7, <4>2
      <4> QED BY <4>1, <4>2
    <3>10. \A k, l \in WireOf(s)' : k.status # "none" => k.id <= l.id
      BY <1>1, <3>3, <3>5 DEF Informed
    <3>11. ASSUME ~data'[s].to_delete, state_variables', notify_queue' = Empty
           PROVE  /\ \A k \in WireOf(s)' :
                        k.id = sent'[s] => k.body = value' /\ (k.status = "ok" => view'[s] = value')
                  /\ WireOf(s)' = {} => value' \in {view'[s], failed'[s]}
      <4>1. \A k \in WireOf(s) :
                k.id = sent[s] => k.body = value /\ (k.status = "ok" => view[s] = value)
        BY <1>1, <3>3, <3>4, <3>11 DEF Informed
      <4>2. ASSUME WireOf(s)' = {} PROVE value' \in {view'[s], failed'[s]}
        <5>1. last = m
          BY <3>5, <3>7, <4>2
        <5>2. m.body = value /\ (m.status = "ok" => view[s] = value)
          BY <3>7, <4>1, <5>1
        <5>3. CASE ResponseOk(m)
          BY <3>3, <5>2, <5>3 DEF ResponseOk, GotResponse
        <5>4. CASE ResponseNotifyFailed(m)
          BY <1>0, <2>4, <3>3, <5>2, <5>4 DEF ResponseNotifyFailed
        <5> QED BY <1>17, <2>1, <3>1, <3>2, <5>3, <5>4 DEF Response
      <4> QED BY <3>3, <3>5, <4>1, <4>2
    <3> QED BY <3>9, <3>10, <3>11 DEF Informed
  <2> QED BY <2>3, <2>4
<1>18. ASSUME NEW m \in wire, NEW st \in Statuses \ {"none"}, NEW delivered \in BOOLEAN,
              Answer(m, st, delivered)
       PROVE  Informed(s)'
  <2> DEFINE a == [m EXCEPT !.status = st]
  <2>1. /\ wire' = (wire \ {m}) \cup {a}
        /\ UNCHANGED <<table, data, queues, setup, value, sent, failed>>
        /\ m.status = "none" /\ Before(m) = {} /\ (st = "ok" => delivered)
        /\ view' = IF delivered /\ m.body # Empty THEN [view EXCEPT ![m.sid] = m.body] ELSE view
    BY <1>18 DEF Answer
  <2>2. /\ m.sid \in SIDs /\ m.id \in Nat
        /\ a.sid = m.sid /\ a.id = m.id /\ a.body = m.body /\ a.status = st
    BY <1>0 DEF Notification
  <2>3. \A k \in wire : k.sid = m.sid => m.id <= k.id
    <3> TAKE k \in wire
    <3> HAVE k.sid = m.sid
    <3>1. k.cb = 1 /\ m.cb = 1 /\ k.id \in Nat /\ m.id \in Nat
      BY <1>0 DEF Notification
    <3> QED BY <2>1, <3>1 DEF Before
  <2> HIDE DEF a
  <2>4. CASE m.sid # s
    <3>1. {k \in wire' : k.sid = s} = {k \in wire : k.sid = s} /\ view'[s] = view[s]
      BY <1>0, <2>1, <2>2, <2>4
    <3> QED BY <1>1, <2>1, <3>1, StillInformed DEF table, queues, setup
  <2>5. CASE m.sid = s
    <3>1. /\ m \in WireOf(s) /\ s \in subscriptions
          /\ \A k : k \in WireOf(s)' <=> (k \in WireOf(s) /\ k # m) \/ k = a
      BY <2>1, <2>2, <2>5 DEF WireOf, table
    <3>2. \A k \in WireOf(s) : k # m => k.status = "none" /\ m.id <= k.id /\ k.id # m.id
      <4> SUFFICES ASSUME NEW k \in WireOf(s), k # m
                   PROVE  k.status = "none" /\ m.id <= k.id /\ k.id # m.id
        OBVIOUS
      <4>1. k \in wire /\ k.sid = m.sid /\ k.id \in Nat
        BY <1>0, <2>5 DEF WireOf, Notification
      <4>2. k.id # m.id
        BY <4>1 DEF IInv, Consistent
      <4>3. k.status # "none" => k.id <= m.id
        BY <1>1, <3>1 DEF Informed
      <4> QED BY <2>2, <2>3, <4>1, <4>2, <4>3
    <3>3. WireOf(s) # {} /\ \E k \in WireOf(s) : k.id = sent[s]
      BY <1>1, <3>1 DEF Informed
    <3>4. \E k \in WireOf(s)' : k.id = sent'[s]
      BY <2>1, <2>2, <3>1, <3>3
    <3>5. \A k, l \in WireOf(s)' : k.status # "none" => k.id <= l.id
      BY <2>2, <3>1, <3>2
    <3>6. ASSUME ~data'[s].to_delete, state_variables', notify_queue' = Empty,
                 NEW k \in WireOf(s)', k.id = sent'[s]
          PROVE  k.body = value' /\ (k.status = "ok" => view'[s] = value')
      <4>1. \A l \in WireOf(s) :
                l.id = sent[s] => l.body = value /\ (l.status = "ok" => view[s] = value)
        BY <1>1, <2>1, <3>1, <3>6 DEF Informed, queues, setup
      <4>2. CASE k = a
        <5>1. m.body = value
          BY <2>1, <2>2, <3>1, <3>6, <4>1, <4>2
        <5>2. m.body # Empty
          BY <1>0, <5>1 DEF Empty
        <5>3. st = "ok" => view'[s] = value
          BY <1>0, <2>1, <2>5, <5>1, <5>2
        <5> QED BY <2>1, <2>2, <4>2, <5>1, <5>3
      <4>3. CASE k # a
        BY <2>1, <3>1, <3>2, <3>6, <4>1, <4>3
      <4> QED BY <4>2, <4>3
    <3> QED BY <3>1, <3>4, <3>5, <3>6 DEF Informed
  <2> QED BY <2>4, <2>5
<1> QED
  BY <1>2, <1>5, <1>6, <1>7, <1>8, <1>9, <1>10, <1>14, <1>15, <1>16, <1>17, <1>18
  DEF Next, Requests, Application, MainLoop, Network

\* With one callback URL, a subscriber for whom nothing is in flight has the
\* present value, or the application has been told that it has not: whatever
\* was frozen, failed, or was sent before the introspection.
THEOREM OneCallbackLosesNothing ==
    ASSUME MaxCallbacks = 1
    PROVE  Spec => []NothingLostSilently
<1>1. Init => InOrder /\ AllInformed
  BY InOrderInit DEF Init, InitWith, AllInformed
<1>2. IInv /\ IInv' /\ InOrder /\ AllInformed /\ [Next]_vars => InOrder' /\ AllInformed'
  BY InOrderStep, InformedStep
<1>3. IInv /\ InOrder /\ AllInformed => NothingLostSilently
  BY DEF AllInformed, Informed, InOrder, NothingLostSilently, Settled
<1> QED
  BY <1>1, <1>2, <1>3, Invariance, PTL DEF Spec

-----------------------------------------------------------------------------
(* What a step adds to the wire.                                           *)

LEMMA NotifyIsNew ==
    ASSUME sent \in [SIDs -> Nat], NEW B \in SUBSET SIDs, NEW d, NEW w \in SUBSET wire, NEW body,
           NotifySubscribers(B, d, w, body)
    PROVE  /\ \A m \in wire' : m \in wire \/ m.id = sent[m.sid] + 1
           /\ \A s \in SIDs : sent'[s] \in {sent[s], sent[s] + 1}
<1> DEFINE to == {s \in B : ~CanDelete(d[s])}
<1>1. /\ wire' = w \cup {Message(s, d[s], body) : s \in to}
      /\ sent' = [s \in SIDs |-> IF s \in to THEN sent[s] + 1 ELSE sent[s]]
  BY Zenon DEF NotifySubscribers
<1>2. \A s : Message(s, d[s], body).sid = s /\ Message(s, d[s], body).id = sent[s] + 1
  BY DEF Message
<1> HIDE DEF to
<1> QED BY <1>1, <1>2

\* A message that no attempt was made for yet is an old one, or the next of its
\* subscription.  No step sends a subscription more than one.
LEMMA NewMessages ==
    ASSUME IInv, [Next]_vars
    PROVE  /\ \A m \in wire' : m.status = "none" => m \in wire \/ m.id = sent[m.sid] + 1
           /\ \A s \in SIDs : sent'[s] \in {sent[s], sent[s] + 1}
<1>0. /\ sent \in [SIDs -> Nat] /\ wire \subseteq Notification
      /\ subscriptions \in SUBSET SIDs /\ wire \in SUBSET wire
  BY DEF IInv, TypeOK
<1>1. ASSUME NEW s \in SIDs, NEW n \in 1 .. MaxCallbacks, Subscribe(s, n)
      PROVE  \E d, body : NotifySubscribers({s}, d, wire, body)
  BY <1>1, Zenon DEF Subscribe
<1>2. CASE NotifyValue \/ (ThawNotify /\ notify_queue # Empty)
  <2>1. \E d, body : NotifySubscribers(subscriptions, d, wire, body)
    BY <1>2, Zenon DEF NotifyValue, ThawNotify
  <2> QED BY <1>0, <2>1, NotifyIsNew
<1>3. ASSUME NEW ok \in BOOLEAN, GotIntrospection(ok)
      PROVE  \E B \in SUBSET subscriptions : \E d, body : NotifySubscribers(B, d, wire, body)
  <2> DEFINE gone == {s \in subscriptions : CanDelete(data[s])}
  <2>1. NotifySubscribers(subscriptions \ gone, Freed(data, gone), wire, InitialState(ok))
    BY <1>3, Zenon DEF GotIntrospection
  <2>2. subscriptions \ gone \in SUBSET subscriptions
    OBVIOUS
  <2> HIDE DEF gone
  <2> QED BY <2>1, <2>2, Zenon
<1>4. ASSUME NEW m \in wire, ResponseTryNext(m)
      PROVE  \E d, body : NotifySubscribers({m.sid}, d, wire \ {m}, body)
  BY <1>4, Zenon DEF ResponseTryNext
<1>5. ASSUME NEW m \in wire, NEW st \in Statuses \ {"none"}, NEW delivered \in BOOLEAN,
             Answer(m, st, delivered)
      PROVE  /\ \A k \in wire' : k.status = "none" => k \in wire
             /\ sent' = sent
  <2>1. wire' = (wire \ {m}) \cup {[m EXCEPT !.status = st]} /\ sent' = sent
    BY <1>5 DEF Answer
  <2>2. [m EXCEPT !.status = st].status = st
    BY <1>0 DEF Notification
  <2> QED BY <2>1, <2>2
<1>6. CASE \/ \E r \in SIDs : Resubscribe(r) \/ Unsubscribe(r) \/ UnsubscribeEarly(r)
                             \/ SubscriptionTimeout(r)
           \/ NotifyFrozen \/ FreezeNotify \/ RootDeviceUnavailable \/ Dispose \/ Tick
           \/ (ThawNotify /\ notify_queue = Empty) \/ UNCHANGED vars
  <2>1. wire' = wire /\ sent' = sent
    BY <1>6 DEF Resubscribe, Unsubscribe, UnsubscribeEarly, SubscriptionTimeout, NotifyFrozen,
       FreezeNotify, RootDeviceUnavailable, Dispose, Tick, ThawNotify, vars
  <2> QED BY <2>1
<1>7. ASSUME NEW m \in wire, ResponseCancelled(m) \/ ResponseOk(m)
                \/ ResponsePreconditionFailed(m) \/ ResponseNotifyFailed(m)
      PROVE  wire' \subseteq wire /\ sent' = sent
  BY <1>7 DEF ResponseCancelled, ResponseOk, ResponsePreconditionFailed, ResponseNotifyFailed
<1>8. ASSUME NEW s \in SIDs, NEW n \in 1 .. MaxCallbacks, Subscribe(s, n)
      PROVE  /\ \A m \in wire' : m \in wire \/ m.id = sent[m.sid] + 1
             /\ \A t \in SIDs : sent'[t] \in {sent[t], sent[t] + 1}
  <2>1. {s} \in SUBSET SIDs
    OBVIOUS
  <2> QED BY <1>0, <1>1, <1>8, <2>1, NotifyIsNew
<1>9. ASSUME NEW ok \in BOOLEAN, GotIntrospection(ok)
      PROVE  /\ \A m \in wire' : m \in wire \/ m.id = sent[m.sid] + 1
             /\ \A t \in SIDs : sent'[t] \in {sent[t], sent[t] + 1}
  <2>1. SUBSET subscriptions \subseteq SUBSET SIDs
    BY <1>0
  <2> QED BY <1>0, <1>3, <1>9, <2>1, NotifyIsNew
<1>10. ASSUME NEW m \in wire, ResponseTryNext(m)
       PROVE  /\ \A k \in wire' : k \in wire \/ k.id = sent[k.sid] + 1
              /\ \A t \in SIDs : sent'[t] \in {sent[t], sent[t] + 1}
  <2>1. {m.sid} \in SUBSET SIDs /\ wire \ {m} \in SUBSET wire
    BY <1>0 DEF Notification
  <2> QED BY <1>0, <1>4, <1>10, <2>1, NotifyIsNew
<1> QED
  BY <1>2, <1>5, <1>6, <1>7, <1>8, <1>9, <1>10
  DEF Next, Requests, Application, MainLoop, Network, Response
=============================================================================
