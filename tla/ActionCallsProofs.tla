------------------------- MODULE ActionCallsProofs -------------------------
(***************************************************************************)
(* Proofs about ActionCalls, for any number of actions, messages and       *)
(* strangers, against this service and against any other.                  *)
(***************************************************************************)
EXTENDS ActionCalls, TLAPS

-----------------------------------------------------------------------------
(* The inductive invariant.                                                *)

\* The message in slot s was sent for the last call of a.
IsOf(s, a) ==
    /\ msgs[s].at # "free"
    /\ msgs[s].from = a
    /\ msgs[s].call = action[a].calls

\* No message is of a call that is still to be made.
MessagesArePast ==
    \A s \in Slots, a \in Actions :
        msgs[s].at # "free" /\ msgs[s].from = a =>
            msgs[s].call <= action[a].calls /\ msgs[s].body = "action"

\* A call has one message at a time: M-POST takes the place of POST.
OneMessage ==
    \A a \in Actions : \A s, t \in Slots : IsOf(s, a) /\ IsOf(t, a) => s = t

\* A call that waits for an answer has its message, and knows nothing yet.
CallIsOpen(a) ==
    /\ action[a].stage = "sent" => action[a].msg \in Slots /\ IsOf(action[a].msg, a)
    /\ action[a].stage = "failed" => action[a].method = "none"
    /\ action[a].stage # "idle" =>
          ~action[a].doc /\ action[a].error = "none" /\ action[a].told = "none"

\* What the answer to a message says of what became, e, of its call.
Tells(status, content, e) ==
    /\ status = 200 => e = "success" /\ content \in {"result", "no-soap", "garbage"}
    /\ status = 500 => e = "fault" /\ content \in {"fault", "bad-fault", "garbage"}
    /\ status = 405 => e \in {"no", "invoked"}

\* A message m that is not answered was not carried out.
AnswerTells(m, e) ==
    IF m.at = "answered" THEN Tells(m.status, m.content, e) ELSE e \in {"no", "invoked"}

AnswersTell ==
    \A s \in Slots, a \in Actions : IsOf(s, a) => AnswerTells(msgs[s], executed[a])

IInv ==
    /\ TypeOK
    /\ OnlyAllowed
    /\ MessagesArePast
    /\ OneMessage
    /\ \A a \in Actions : CallIsOpen(a)
    /\ AnswersTell
    /\ OutcomeIsThePeers
    /\ ExecutedOnce

-----------------------------------------------------------------------------
(* The operators of the model.                                             *)

\* The statuses are statuses.
LEMMA StatusValues ==
    /\ 0 \in Statuses /\ 200 \in Statuses /\ 401 \in Statuses /\ 405 \in Statuses
    /\ 500 \in Statuses
    /\ \A status \in {405, 501} : status \in Statuses /\ Tells(status, "no-soap", "no")
BY DEF Statuses, Tells

\* An action object stays one when a field changes.
LEMMA ActionFields ==
    ASSUME NEW act \in ProxyAction
    PROVE  /\ \A x \in {"idle", "failed", "sent"} : [act EXCEPT !.stage = x] \in ProxyAction
           /\ \A x \in BOOLEAN : [act EXCEPT !.sync = x] \in ProxyAction
           /\ \A x \in BOOLEAN : [act EXCEPT !.pending = x] \in ProxyAction
           /\ \A x \in Nat : [act EXCEPT !.calls = x] \in ProxyAction
           /\ \A x \in {"none", "POST", "M-POST"} : [act EXCEPT !.method = x] \in ProxyAction
           /\ \A x \in Slots \cup {Free} : [act EXCEPT !.msg = x] \in ProxyAction
           /\ \A x \in Statuses : [act EXCEPT !.status = x] \in ProxyAction
           /\ \A x \in Contents : [act EXCEPT !.response = x] \in ProxyAction
           /\ \A x \in BOOLEAN : [act EXCEPT !.doc = x] \in ProxyAction
           /\ \A x \in Outcomes : [act EXCEPT !.error = x] \in ProxyAction
           /\ \A x \in Outcomes : [act EXCEPT !.told = x] \in ProxyAction
BY DEF ProxyAction

\* So does a message.
LEMMA MessageFields ==
    ASSUME NEW m \in Messages
    PROVE  /\ \A x \in {"network", "acl", "application", "answered", "undefined"} :
                  [m EXCEPT !.at = x] \in Messages
           /\ \A x \in BOOLEAN : [m EXCEPT !.authenticated = x] \in Messages
           /\ \A x \in BOOLEAN : [m EXCEPT !.allowed = x] \in Messages
           /\ \A x \in Statuses : [m EXCEPT !.status = x] \in Messages
           /\ \A x \in Contents : [m EXCEPT !.content = x] \in Messages
BY DEF Messages

LEMMA ResetType ==
    ASSUME NEW act \in ProxyAction
    PROVE  /\ Reset(act) \in ProxyAction
           /\ Reset(act).calls = act.calls /\ Reset(act).told = act.told
           /\ Reset(act).stage = act.stage /\ Reset(act).method = "none"
           /\ ~Reset(act).doc /\ Reset(act).error = "none"
<1>1. "none" \in Outcomes /\ "none" \in Contents /\ 0 \in Statuses
  BY StatusValues DEF Outcomes, Contents
<1>2. Reset(act) \in ProxyAction
  BY <1>1, ActionFields DEF Reset
<1>3. /\ Reset(act).calls = act.calls /\ Reset(act).told = act.told
      /\ Reset(act).stage = act.stage /\ Reset(act).method = "none"
      /\ Reset(act).doc = FALSE /\ Reset(act).error = "none"
  BY DEF ProxyAction, Reset
<1> QED BY <1>2, <1>3

LEMMA PrepareType ==
    ASSUME NEW act \in ProxyAction, NEW s \in Slots, NEW method \in {"POST", "M-POST"}
    PROVE  /\ Prepare(act, method, s) \in ProxyAction
           /\ Prepare(act, method, s).calls = act.calls
           /\ Prepare(act, method, s).told = act.told
           /\ Prepare(act, method, s).stage = "sent"
           /\ Prepare(act, method, s).msg = s
           /\ ~Prepare(act, method, s).doc /\ Prepare(act, method, s).error = "none"
<1> DEFINE r == Reset(act)
<1>1. /\ r \in ProxyAction /\ r.calls = act.calls /\ r.told = act.told
      /\ ~r.doc /\ r.error = "none"
  BY ResetType
<1>2. Prepare(act, method, s) = [r EXCEPT !.method = method, !.msg = s, !.stage = "sent"]
  BY DEF Prepare
<1> HIDE DEF r
<1>3. [r EXCEPT !.method = method, !.msg = s, !.stage = "sent"] \in ProxyAction
  BY <1>1, ActionFields
<1>4. \A p : p = [r EXCEPT !.method = method, !.msg = s, !.stage = "sent"] =>
         /\ p.calls = r.calls /\ p.told = r.told /\ p.stage = "sent" /\ p.msg = s
         /\ p.doc = r.doc /\ p.error = r.error
  BY <1>1 DEF ProxyAction
<1> QED BY <1>1, <1>2, <1>3, <1>4

LEMMA ReturnType ==
    ASSUME NEW act \in ProxyAction, NEW outcome \in Outcomes
    PROVE  /\ Return(act, outcome) \in ProxyAction
           /\ Return(act, outcome).calls = act.calls
           /\ Return(act, outcome).stage = "idle"
           /\ Return(act, outcome).told = outcome
           /\ Return(act, outcome).doc = act.doc
           /\ Return(act, outcome).error = act.error
           /\ Return(act, outcome).method = act.method
           /\ Return(act, outcome).status = act.status
<1>1. Return(act, outcome) \in ProxyAction
  BY ActionFields DEF Return
<1> QED BY <1>1 DEF Return, ProxyAction

\* Checking a response comes to a result or an error, and changes nothing when
\* done again; a result and an UPnP error come only of an answer that has one.
LEMMA CheckResponseType ==
    ASSUME NEW act \in ProxyAction
    PROVE  /\ CheckResponse(act) \in ProxyAction
           /\ CheckResponse(act).calls = act.calls
           /\ CheckResponse(act).doc \/ CheckResponse(act).error # "none"
           /\ act.doc \/ act.error # "none" => CheckResponse(act) = act
           /\ ~act.doc /\ act.error = "none" /\ CheckResponse(act).error = "none" =>
                 act.status = 200 /\ act.method # "none" /\ act.response \notin {"none", "garbage", "no-soap"}
           /\ ~act.doc /\ act.error = "none" /\ CheckResponse(act).error = "control" =>
                 act.status = 500 /\ act.response = "fault"
           /\ ~act.doc /\ act.error = "none" => CheckResponse(act).error # "result"
<1>1. {"none", "failed", "control"} \subseteq Outcomes /\ "none" \in Contents
  BY DEF Outcomes, Contents
<1>2. CASE act.doc \/ act.error # "none"
  BY <1>2 DEF CheckResponse
<1>3. CASE ~(act.doc \/ act.error # "none")
  <2>1. CASE act.method = "none" \/ act.response = "none" \/ act.status \notin {200, 500}
    <3>1. CheckResponse(act) = [act EXCEPT !.error = "failed"]
      BY <1>3, <2>1 DEF CheckResponse
    <3>2. [act EXCEPT !.error = "failed"].calls = act.calls /\ [act EXCEPT !.error = "failed"].error = "failed"
      BY DEF ProxyAction
    <3> QED BY <1>1, <1>3, <3>1, <3>2, ActionFields
  <2>2. CASE ~(act.method = "none" \/ act.response = "none" \/ act.status \notin {200, 500})
    <3>1. CASE act.status = 200 /\ act.response \notin {"garbage", "no-soap"}
      <4> DEFINE c == [act EXCEPT !.doc = TRUE, !.response = "none"]
      <4>1. CheckResponse(act) = c
        BY <1>3, <2>2, <3>1 DEF CheckResponse
      <4>2. c \in ProxyAction
        BY <1>1, ActionFields
      <4>3. c.calls = act.calls /\ c.error = act.error /\ c.doc = TRUE
        BY DEF ProxyAction
      <4> HIDE DEF c
      <4> QED BY <1>3, <2>2, <3>1, <4>1, <4>2, <4>3
    <3>2. CASE act.status = 500 /\ act.response = "fault"
      <4> DEFINE c == [act EXCEPT !.error = "control", !.response = "none"]
      <4>1. CheckResponse(act) = c
        BY <1>3, <2>2, <3>2 DEF CheckResponse
      <4>2. c \in ProxyAction
        BY <1>1, ActionFields
      <4>3. c.calls = act.calls /\ c.error = "control"
        BY DEF ProxyAction
      <4> HIDE DEF c
      <4> QED BY <1>3, <2>2, <3>2, <4>1, <4>2, <4>3
    <3>3. CASE /\ ~(act.status = 200 /\ act.response \notin {"garbage", "no-soap"})
               /\ ~(act.status = 500 /\ act.response = "fault")
      <4> DEFINE c == [act EXCEPT !.error = "failed", !.response = "none"]
      <4>1. CheckResponse(act) = c
        BY <1>3, <2>2, <3>3 DEF CheckResponse
      <4>2. c \in ProxyAction
        BY <1>1, ActionFields
      <4>3. c.calls = act.calls /\ c.error = "failed"
        BY DEF ProxyAction
      <4> HIDE DEF c
      <4> QED BY <1>3, <2>2, <3>3, <4>1, <4>2, <4>3
    <3> QED BY <3>1, <3>2, <3>3
  <2> QED BY <2>1, <2>2
<1> QED BY <1>2, <1>3

LEMMA RequestType ==
    ASSUME NEW a \in Actions, NEW act \in ProxyAction, NEW method \in {"POST", "M-POST"}
    PROVE  /\ Request(a, act, method) \in Messages
           /\ Request(a, act, method).at = "network"
           /\ Request(a, act, method).from = a
           /\ Request(a, act, method).call = act.calls
           /\ Request(a, act, method).body = "action"
<1>1. act.calls \in Nat /\ a \in Actions \cup {"stranger"} /\ (method = "POST") \in BOOLEAN
  BY DEF ProxyAction
<1>2. "action" \in Bodies /\ "none" \in Contents /\ 0 \in Statuses
  BY StatusValues DEF Bodies, Contents
<1>3. Request(a, act, method) \in Messages
  BY <1>1, <1>2, Zenon DEF Request, Messages
<1> QED BY <1>3 DEF Request

\* An answer is kept with its message, or the message is gone and nobody waits.
LEMMA AnsweredType ==
    ASSUME NEW m \in Messages, NEW status \in Statuses, NEW content \in Contents
    PROVE  \/ /\ Answered(m, status, content) = Free
              /\ \A a \in Actions :
                    m.from = a /\ m.call = action[a].calls => action[a].stage # "sent"
           \/ /\ Answered(m, status, content) \in Messages
              /\ Answered(m, status, content).at = "answered"
              /\ Answered(m, status, content).from = m.from
              /\ Answered(m, status, content).call = m.call
              /\ Answered(m, status, content).body = m.body
              /\ Answered(m, status, content).status = status
              /\ Answered(m, status, content).content = content
<1> DEFINE waited ==
      \E a \in Actions : a = m.from /\ m.call = action[a].calls /\ action[a].stage = "sent"
           ans == [m EXCEPT !.at = "answered", !.status = status, !.content = content]
<1>1. CASE ~waited
  BY <1>1 DEF Answered
<1>2. CASE waited
  <2>1. Answered(m, status, content) = ans
    BY <1>2 DEF Answered
  <2>2. ans \in Messages
    BY MessageFields
  <2>3. /\ ans.at = "answered" /\ ans.from = m.from /\ ans.call = m.call
        /\ ans.body = m.body /\ ans.status = status /\ ans.content = content
    BY DEF Messages
  <2> HIDE DEF ans
  <2> QED BY <2>1, <2>2, <2>3
<1> QED BY <1>1, <1>2

\* Only the call of a message that is still of interest is carried out.
LEMMA ExecutedIs ==
    ASSUME IInv, NEW s \in Slots, msgs[s].at \in {"network", "acl", "application"},
           NEW m, m.from = msgs[s].from, m.call = msgs[s].call,
           NEW state, NEW a \in Actions
    PROVE  Executed(m, state)[a] = IF IsOf(s, a) THEN state ELSE executed[a]
<1>1. IsOf(s, a) => executed[a] \in {"no", "invoked"}
  BY DEF IInv, AnswersTell, AnswerTells
<1> QED BY <1>1 DEF Executed, IsOf

-----------------------------------------------------------------------------
(* The inductive invariant holds at first, and each step keeps it.         *)

LEMMA IInvInit == Init => IInv
<1> SUFFICES ASSUME Init PROVE IInv
  OBVIOUS
<1>1. \A a \in Actions : action[a] = NewAction /\ executed[a] = "no"
  BY DEF Init
<1>2. NewAction \in ProxyAction
  BY DEF NewAction, ProxyAction, Statuses, Contents, Outcomes
<1>3. \A s \in Slots : msgs[s] = Free /\ msgs[s].at = "free"
  BY DEF Init, Free
<1>4. TypeOK
  <2>1. action \in [Actions -> ProxyAction] /\ msgs \in [Slots -> Messages \cup {Free}]
    BY <1>2 DEF Init
  <2>2. executed \in [Actions -> {"no", "invoked", "success", "fault", "twice"}]
    BY DEF Init
  <2>3. undefined \in BOOLEAN
    BY DEF Init
  <2>4. \A x, y \in BOOLEAN : [complete |-> x, credentials |-> y] \in [complete : BOOLEAN, credentials : BOOLEAN]
    OBVIOUS
  <2>5. \A x, y \in BOOLEAN : [registered |-> x, connected |-> y, acl |-> "none"]
                                 \in [registered : BOOLEAN, connected : BOOLEAN, acl : {"none", "sync", "async"}]
    OBVIOUS
  <2>6. /\ peer \in {"gupnp", "other"}
        /\ info \in [complete : BOOLEAN, credentials : BOOLEAN]
        /\ service \in [registered : BOOLEAN, connected : BOOLEAN, acl : {"none", "sync", "async"}]
    BY <2>4, <2>5, Zenon DEF Init
  <2> QED BY <2>1, <2>2, <2>3, <2>6 DEF TypeOK
<1>5. OnlyAllowed /\ MessagesArePast /\ OneMessage /\ AnswersTell
  BY <1>3 DEF OnlyAllowed, MessagesArePast, OneMessage, AnswersTell, IsOf
<1>6. \A a \in Actions : CallIsOpen(a)
  BY <1>1 DEF CallIsOpen, NewAction
<1>7. OutcomeIsThePeers
  BY <1>1 DEF OutcomeIsThePeers, NewAction
<1>8. ExecutedOnce
  BY <1>1 DEF ExecutedOnce
<1> QED BY <1>4, <1>5, <1>6, <1>7, <1>8 DEF IInv

\* A message is not Free.
LEMMA NotFree == \A m \in Messages : m.at # "free" /\ m # Free
BY DEF Messages, Free

\* What the server or the peer does to the message in s: the message stays that
\* of its call or is gone, and its answer tells what became of the call.
LEMMA ServerStep ==
    ASSUME IInv, NEW s \in Slots, msgs[s].at \in {"network", "acl", "application"},
           NEW new, NEW state \in {"no", "invoked", "success", "fault"},
           msgs' = [msgs EXCEPT ![s] = new],
           executed' = IF state = "no" THEN executed ELSE Executed(msgs[s], state),
           UNCHANGED <<action, peer, info, service>>, undefined' \in BOOLEAN,
           \/ new = Free /\ \A a \in Actions : IsOf(s, a) => action[a].stage # "sent"
           \/ /\ new \in Messages
              /\ new.from = msgs[s].from /\ new.call = msgs[s].call /\ new.body = msgs[s].body
              /\ new.at = "application" => new.allowed /\ new.host /\ new.method = "POST"
              /\ new.body = "action" => AnswerTells(new, state)
    PROVE  IInv'
<1> USE DEF IInv
<1>1. /\ msgs'[s] = new /\ \A t \in Slots \ {s} : msgs'[t] = msgs[t]
      /\ new \in Messages \cup {Free} /\ Free.at = "free"
      /\ msgs[s] \in Messages
  BY DEF TypeOK, Free
<1>2. \A a \in Actions : executed'[a] = IF IsOf(s, a) /\ state # "no" THEN state ELSE executed[a]
  BY ExecutedIs DEF TypeOK
<1>3. TypeOK'
  <2>1. msgs' \in [Slots -> Messages \cup {Free}]
    BY <1>1 DEF TypeOK
  <2>2. executed' \in [Actions -> {"no", "invoked", "success", "fault", "twice"}]
    <3>1. DOMAIN executed' = Actions /\ executed' = [a \in Actions |-> executed'[a]]
      BY DEF TypeOK, Executed
    <3> QED BY <1>2, <3>1 DEF TypeOK
  <2> QED BY <2>1, <2>2 DEF TypeOK
<1>4. OnlyAllowed'
  BY <1>1 DEF OnlyAllowed
<1>5. \A t \in Slots, a \in Actions : IsOf(t, a)' => IsOf(t, a)
  BY <1>1 DEF IsOf
<1>6. MessagesArePast'
  BY <1>1, NotFree DEF MessagesArePast
<1>7. OneMessage'
  BY <1>5 DEF OneMessage
<1>8. ASSUME NEW a \in Actions PROVE CallIsOpen(a)'
  <2>1. action[a].stage = "sent" =>
           action[a].msg \in Slots /\ IsOf(action[a].msg, a) /\ IsOf(action[a].msg, a)'
    BY <1>1, NotFree DEF CallIsOpen, IsOf
  <2> QED BY <2>1 DEF CallIsOpen
<1>9. AnswersTell'
  <2> SUFFICES ASSUME NEW t \in Slots, NEW a \in Actions, IsOf(t, a)'
               PROVE  AnswerTells(msgs'[t], executed'[a])
    BY DEF AnswersTell
  <2>1. IsOf(t, a) /\ AnswerTells(msgs[t], executed[a])
    BY <1>5 DEF AnswersTell
  <2>2. CASE t = s
    <3>1. new \in Messages /\ new.body = "action" /\ AnswerTells(new, state)
      BY <1>1, <2>1, <2>2 DEF MessagesArePast, IsOf
    <3>2. executed[a] \in {"no", "invoked"}
      BY <2>1, <2>2 DEF AnswerTells
    <3>3. msgs'[t] = new /\ executed'[a] = IF state = "no" THEN executed[a] ELSE state
      BY <1>1, <1>2, <2>1, <2>2
    <3>4. CASE state = "no"
      <4>1. new.at = "answered" => new.status # 200 /\ new.status # 500
        BY <3>1, <3>4 DEF AnswerTells, Tells
      <4>2. AnswerTells(new, executed[a])
        BY <3>2, <4>1 DEF AnswerTells, Tells
      <4> QED BY <3>3, <3>4, <4>2
    <3> QED BY <3>1, <3>3, <3>4
  <2>3. CASE t # s
    <3>1. ~IsOf(s, a)
      BY <2>1, <2>3 DEF OneMessage
    <3> QED BY <1>1, <1>2, <2>1, <2>3, <3>1
  <2> QED BY <2>2, <2>3
<1>10. OutcomeIsThePeers'
  <2>1. ASSUME NEW a \in Actions, IsOf(s, a)
        PROVE  action[a].told # "result" /\ action[a].told # "control"
    BY <2>1 DEF AnswersTell, AnswerTells, OutcomeIsThePeers
  <2> QED BY <1>2, <2>1 DEF OutcomeIsThePeers
<1>11. ExecutedOnce'
  BY <1>2 DEF ExecutedOnce
<1> QED BY <1>3, <1>4, <1>6, <1>7, <1>8, <1>9, <1>10, <1>11

\* The message m, which is the one in s with other marks, is answered.
LEMMA AnsweredStep ==
    ASSUME IInv, NEW s \in Slots, msgs[s].at \in {"network", "acl", "application"},
           NEW m \in Messages,
           m.from = msgs[s].from, m.call = msgs[s].call, m.body = msgs[s].body,
           NEW state \in {"no", "invoked", "success", "fault"},
           NEW status \in Statuses, NEW content \in Contents,
           msgs' = [msgs EXCEPT ![s] = Answered(m, status, content)],
           executed' = IF state = "no" THEN executed ELSE Executed(m, state),
           UNCHANGED <<action, peer, info, service>>, undefined' \in BOOLEAN,
           m.body = "action" => Tells(status, content, state)
    PROVE  IInv'
<1> DEFINE new == Answered(m, status, content)
<1>1. executed' = IF state = "no" THEN executed ELSE Executed(msgs[s], state)
  BY DEF Executed
<1>2. \/ new = Free /\ \A a \in Actions : IsOf(s, a) => action[a].stage # "sent"
      \/ /\ new \in Messages
         /\ new.from = msgs[s].from /\ new.call = msgs[s].call /\ new.body = msgs[s].body
         /\ new.at = "answered" /\ new.status = status /\ new.content = content
  <2>1. \/ /\ new = Free
           /\ \A a \in Actions : m.from = a /\ m.call = action[a].calls => action[a].stage # "sent"
        \/ /\ new \in Messages
           /\ new.at = "answered" /\ new.from = m.from /\ new.call = m.call /\ new.body = m.body
           /\ new.status = status /\ new.content = content
    BY AnsweredType
  <2> HIDE DEF new
  <2> QED BY <2>1 DEF IsOf
<1> HIDE DEF new
<1>3. new.at = "answered" /\ new.status = status /\ new.content = content
      /\ new.body = msgs[s].body /\ new.body = "action" => AnswerTells(new, state)
  BY DEF AnswerTells
<1>4. \/ new = Free /\ \A a \in Actions : IsOf(s, a) => action[a].stage # "sent"
      \/ /\ new \in Messages
         /\ new.from = msgs[s].from /\ new.call = msgs[s].call /\ new.body = msgs[s].body
         /\ new.at = "application" => new.allowed /\ new.host /\ new.method = "POST"
         /\ new.body = "action" => AnswerTells(new, state)
  BY <1>2, <1>3
<1> QED BY <1>1, <1>4, ServerStep DEF new

\* A message that is answered without a result or a fault was not carried out.
LEMMA RefusedStep ==
    ASSUME IInv, NEW s \in Slots, msgs[s].at \in {"network", "acl", "application"},
           NEW m \in Messages,
           m.from = msgs[s].from, m.call = msgs[s].call, m.body = msgs[s].body,
           NEW status \in Statuses, NEW content \in Contents,
           msgs' = [msgs EXCEPT ![s] = Answered(m, status, content)],
           executed' = executed,
           UNCHANGED <<action, peer, info, service>>, undefined' \in BOOLEAN,
           m.body = "action" => Tells(status, content, "no")
    PROVE  IInv'
<1> DEFINE state == "no"
<1>1. /\ state \in {"no", "invoked", "success", "fault"}
      /\ executed' = IF state = "no" THEN executed ELSE Executed(m, state)
      /\ m.body = "action" => Tells(status, content, state)
  OBVIOUS
<1> HIDE DEF state
<1> QED BY <1>1, AnsweredStep

\* A message that was carried out is answered with what became of it.
LEMMA CarriedOutStep ==
    ASSUME IInv, NEW s \in Slots, msgs[s].at \in {"network", "acl", "application"},
           NEW m \in Messages,
           m.from = msgs[s].from, m.call = msgs[s].call, m.body = msgs[s].body,
           NEW state \in {"success", "fault"}, NEW status \in Statuses, NEW content \in Contents,
           msgs' = [msgs EXCEPT ![s] = Answered(m, status, content)],
           executed' = Executed(m, state),
           UNCHANGED <<action, peer, info, service>>, undefined' \in BOOLEAN,
           Tells(status, content, state)
    PROVE  IInv'
<1>1. /\ state \in {"no", "invoked", "success", "fault"}
      /\ executed' = IF state = "no" THEN executed ELSE Executed(m, state)
  OBVIOUS
<1> QED BY <1>1, AnsweredStep

\* What is refused, and what that says of a request that is not.
LEMMA RefusalsAre ==
    ASSUME NEW m
    PROVE  /\ Refusals(m) \subseteq {400, 412, 501}
           /\ Refusals(m) = {} => m.method = "POST" /\ m.host
<1>1. CASE m.method # "POST"
  BY <1>1 DEF Refusals
<1>2. CASE m.method = "POST" /\ m.body = "empty"
  BY <1>2 DEF Refusals
<1>3. CASE m.method = "POST" /\ m.body # "empty" /\ ~m.host
  BY <1>3 DEF Refusals
<1>4. CASE m.method = "POST" /\ m.body # "empty" /\ m.host
  <2>1. Refusals(m) \in {{412}, {400}, {}}
    BY <1>4 DEF Refusals
  <2> QED BY <1>4, <2>1
<1> QED BY <1>1, <1>2, <1>3, <1>4

\* The control handler keeps the invariant, for a message let through.
LEMMA ControlStep ==
    ASSUME IInv, NEW s \in Slots, msgs[s].at \in {"network", "acl"},
           NEW m \in Messages,
           m.from = msgs[s].from, m.call = msgs[s].call, m.body = msgs[s].body, m.allowed,
           Control(s, m),
           UNCHANGED <<action, peer, info, service>>, undefined' \in BOOLEAN
    PROVE  IInv'
<1>1. /\ {400, 412, 501, 200, 500} \subseteq Statuses
      /\ {"none", "result", "fault"} \subseteq Contents
      /\ Tells(500, "fault", "fault")
      /\ \A status \in {400, 412, 501} : Tells(status, "none", "no")
  BY DEF Statuses, Contents, Tells
<1>2. ASSUME NEW status \in Refusals(m), msgs' = [msgs EXCEPT ![s] = Answered(m, status, "none")],
             executed' = executed
      PROVE  IInv'
  <2>1. status \in {400, 412, 501}
    BY RefusalsAre
  <2>2. status \in Statuses /\ "none" \in Contents /\ Tells(status, "none", "no")
    BY <1>1, <2>1
  <2> QED BY <1>2, <2>2, RefusedStep
<1>3. ASSUME m.body = "query", NEW reply \in QueryStateVariable(m),
             msgs' = [msgs EXCEPT ![s] = reply], executed' = executed
      PROVE  IInv'
  <2>1. PICK status \in Statuses, content \in Contents : reply = Answered(m, status, content)
    BY <1>1 DEF QueryStateVariable
  <2>2. msgs' = [msgs EXCEPT ![s] = Answered(m, status, content)] /\ m.body # "action"
    BY <1>3, <2>1
  <2> QED BY <1>3, <2>2, RefusedStep
<1>4. ASSUME Refusals(m) = {}, msgs' = [msgs EXCEPT ![s] = Invoked(m)],
             executed' = Executed(m, IF service.connected THEN "invoked" ELSE "fault")
      PROVE  IInv'
  <2>1. CASE service.connected
    <3> DEFINE new == [m EXCEPT !.at = "application"]
    <3>1. new \in Messages
      BY MessageFields
    <3>2. /\ new.from = m.from /\ new.call = m.call /\ new.body = m.body
          /\ new.allowed = m.allowed /\ new.host = m.host /\ new.method = m.method
          /\ new.at = "application"
      BY DEF Messages
    <3>3. msgs' = [msgs EXCEPT ![s] = new]
      BY <1>4, <2>1 DEF Invoked
    <3>4. executed' = Executed(msgs[s], "invoked")
      BY <1>4, <2>1 DEF Executed
    <3> HIDE DEF new
    <3>5. new.allowed /\ new.host /\ new.method = "POST" /\ AnswerTells(new, "invoked")
      BY <1>4, <3>2, RefusalsAre DEF AnswerTells
    <3> QED BY <3>1, <3>2, <3>3, <3>4, <3>5, ServerStep
  <2>2. CASE ~service.connected
    <3> DEFINE status == 500
               content == "fault"
               state == "fault"
    <3>1. msgs' = [msgs EXCEPT ![s] = Answered(m, status, content)] /\ executed' = Executed(m, state)
      BY <1>4, <2>2 DEF Invoked
    <3>2. /\ status \in Statuses /\ content \in Contents /\ state \in {"success", "fault"}
          /\ Tells(status, content, state)
      BY <1>1
    <3> HIDE DEF status, content, state
    <3> QED BY <3>1, <3>2, CarriedOutStep
  <2> QED BY <2>1, <2>2
<1> QED BY <1>2, <1>3, <1>4, Zenon DEF Control

\* So does what follows the decision of the ACL.
LEMMA DecidedStep ==
    ASSUME IInv, NEW s \in Slots, msgs[s].at \in {"network", "acl"}, NEW allowed \in BOOLEAN,
           Decided(s, msgs[s], allowed),
           UNCHANGED <<action, peer, info, service>>, undefined' \in BOOLEAN
    PROVE  IInv'
<1> DEFINE m == msgs[s]
           n == [m EXCEPT !.allowed = TRUE]
<1>1. m \in Messages
  BY DEF IInv, TypeOK, Free
<1>2. CASE allowed
  <2>1. n \in Messages
    BY <1>1, MessageFields
  <2>2. n.from = m.from /\ n.call = m.call /\ n.body = m.body /\ n.allowed
    BY <1>1 DEF Messages
  <2>3. Control(s, n)
    BY <1>2 DEF Decided
  <2> HIDE DEF n
  <2> QED BY <2>1, <2>2, <2>3, ControlStep
<1>3. CASE ~allowed
  <2> DEFINE status == 403
             content == "none"
  <2>1. msgs' = [msgs EXCEPT ![s] = Answered(m, status, content)] /\ executed' = executed
    BY <1>3 DEF Decided
  <2>2. status \in Statuses /\ content \in Contents /\ Tells(status, content, "no")
    BY DEF Statuses, Contents, Tells
  <2> HIDE DEF status, content
  <2> QED BY <1>1, <2>1, <2>2, RefusedStep
<1> QED BY <1>2, <1>3

\* What the call of one action object does: it keeps the invariant if it does so
\* for that object.
LEMMA ClientStep ==
    ASSUME IInv, NEW a \in Actions, NEW act \in ProxyAction,
           action' = [action EXCEPT ![a] = act], act.calls >= action[a].calls,
           msgs' \in [Slots -> Messages \cup {Free}],
           \A s \in Slots :
               \/ msgs'[s] = msgs[s]
               \/ /\ msgs[s] = Free \/ IsOf(s, a)
                  /\ \/ msgs'[s] = Free
                     \/ /\ msgs'[s].at = "network" /\ msgs'[s].body = "action"
                        /\ msgs'[s].from = a /\ msgs'[s].call = act.calls,
           executed' \in [Actions -> {"no", "invoked", "success", "fault"}],
           \A b \in Actions \ {a} : executed'[b] = executed[b],
           UNCHANGED <<peer, info, service, undefined>>,
           CallIsOpen(a)',
           \A s, t \in Slots : IsOf(s, a)' /\ IsOf(t, a)' => s = t,
           \A s \in Slots : IsOf(s, a)' => AnswerTells(msgs'[s], executed'[a]),
           act.told = "result" => executed'[a] = "success",
           act.told = "control" => executed'[a] = "fault",
           act.stage = "idle" /\ act.calls > 0 =>
               (act.told = "result" <=> Outcome(CheckResponse(act)) = "result")
    PROVE  IInv'
<1> USE DEF IInv
<1>1. /\ action'[a] = act
      /\ \A b \in Actions \ {a} : action'[b] = action[b]
      /\ \A b \in Actions : action[b] \in ProxyAction
      /\ Free.at = "free"
  BY DEF TypeOK, Free
<1>2. TypeOK'
  <2>1. action' \in [Actions -> ProxyAction]
    BY DEF TypeOK
  <2>2. executed' \in [Actions -> {"no", "invoked", "success", "fault", "twice"}]
    OBVIOUS
  <2> QED BY <2>1, <2>2 DEF TypeOK
<1>3. OnlyAllowed'
  BY <1>1 DEF OnlyAllowed
<1>4. act.calls \in Nat /\ action[a].calls \in Nat
  BY <1>1 DEF ProxyAction
<1>5. \A s \in Slots, b \in Actions : b # a => (IsOf(s, b)' <=> IsOf(s, b) /\ msgs'[s] = msgs[s])
  <2> SUFFICES ASSUME NEW s \in Slots, NEW b \in Actions, b # a
               PROVE  IsOf(s, b)' <=> IsOf(s, b) /\ msgs'[s] = msgs[s]
    OBVIOUS
  <2>1. CASE msgs'[s] = msgs[s]
    BY <1>1, <2>1 DEF IsOf
  <2>2. CASE msgs'[s] # msgs[s]
    <3>1. ~IsOf(s, b)
      BY <1>1, <2>2 DEF IsOf
    <3>2. ~IsOf(s, b)'
      BY <1>1, <2>2 DEF IsOf
    <3> QED BY <3>1, <3>2
  <2> QED BY <2>1, <2>2
<1>6. \A s \in Slots, b \in Actions : b # a /\ IsOf(s, b) => msgs'[s] = msgs[s]
  BY <1>1 DEF IsOf
<1>7. MessagesArePast'
  <2> SUFFICES ASSUME NEW s \in Slots, NEW b \in Actions, msgs'[s].at # "free", msgs'[s].from = b
               PROVE  msgs'[s].call <= action'[b].calls /\ msgs'[s].body = "action"
    BY DEF MessagesArePast
  <2>1. CASE msgs'[s] = msgs[s]
    <3>1. msgs[s].call <= action[b].calls /\ msgs[s].body = "action"
      BY <2>1 DEF MessagesArePast
    <3>2. msgs[s].call \in Nat
      BY <2>1, <1>1 DEF TypeOK, Messages
    <3> QED BY <1>1, <1>4, <2>1, <3>1, <3>2
  <2>2. CASE msgs'[s] # msgs[s]
    BY <1>1, <1>4, <2>2
  <2> QED BY <2>1, <2>2
<1>8. OneMessage'
  BY <1>5 DEF OneMessage
<1>9. ASSUME NEW b \in Actions PROVE CallIsOpen(b)'
  <2>1. CASE b = a
    BY <2>1
  <2>2. CASE b # a
    <3>1. CallIsOpen(b) /\ action'[b] = action[b]
      BY <1>1, <2>2
    <3> QED BY <1>5, <1>6, <2>2, <3>1 DEF CallIsOpen
  <2> QED BY <2>1, <2>2
<1>10. AnswersTell'
  BY <1>5 DEF AnswersTell
<1>11. OutcomeIsThePeers'
  BY <1>1 DEF OutcomeIsThePeers
<1>12. ExecutedOnce'
  BY DEF ExecutedOnce
<1> QED BY <1>2, <1>3, <1>7, <1>8, <1>9, <1>10, <1>11, <1>12

\* A call that ends without a message, or whose message is gone or left behind.
LEMMA ReturnStep ==
    ASSUME IInv, NEW a \in Actions, NEW act \in ProxyAction,
           action' = [action EXCEPT ![a] = act], act.calls = action[a].calls,
           act.stage = "idle",
           \/ msgs' = msgs
           \/ \E s \in Slots : IsOf(s, a) /\ msgs' = [msgs EXCEPT ![s] = Free],
           UNCHANGED <<peer, info, service, executed, undefined>>,
           act.told = "result" => executed[a] = "success",
           act.told = "control" => executed[a] = "fault",
           act.told = "result" <=> Outcome(CheckResponse(act)) = "result"
    PROVE  IInv'
<1>1. /\ action'[a] = act /\ action[a] \in ProxyAction
      /\ act.calls \in Nat /\ Free.at = "free"
      /\ msgs \in [Slots -> Messages \cup {Free}]
  BY DEF IInv, TypeOK, ProxyAction, Free
<1>2. /\ msgs' \in [Slots -> Messages \cup {Free}]
      /\ \A s \in Slots : msgs'[s] = msgs[s] \/ (IsOf(s, a) /\ msgs'[s] = Free)
  BY <1>1
<1>3. \A s \in Slots : IsOf(s, a)' => IsOf(s, a) /\ msgs'[s] = msgs[s]
  BY <1>1, <1>2 DEF IsOf
<1>4. executed' \in [Actions -> {"no", "invoked", "success", "fault"}]
  BY DEF IInv, TypeOK, ExecutedOnce
<1>5. CallIsOpen(a)'
  BY <1>1 DEF CallIsOpen
<1>6. /\ \A s, t \in Slots : IsOf(s, a)' /\ IsOf(t, a)' => s = t
      /\ \A s \in Slots : IsOf(s, a)' => AnswerTells(msgs'[s], executed'[a])
  BY <1>3 DEF IInv, OneMessage, AnswersTell
<1>7. \A s \in Slots :
         \/ msgs'[s] = msgs[s]
         \/ /\ msgs[s] = Free \/ IsOf(s, a)
            /\ \/ msgs'[s] = Free
               \/ /\ msgs'[s].at = "network" /\ msgs'[s].body = "action"
                  /\ msgs'[s].from = a /\ msgs'[s].call = act.calls
  BY <1>2
<1>8. /\ act.calls >= action[a].calls
      /\ \A b \in Actions \ {a} : executed'[b] = executed[b]
      /\ act.told = "result" => executed'[a] = "success"
      /\ act.told = "control" => executed'[a] = "fault"
      /\ act.stage = "idle" /\ act.calls > 0 =>
             (act.told = "result" <=> Outcome(CheckResponse(act)) = "result")
  BY <1>1
<1> QED BY <1>2, <1>4, <1>5, <1>6, <1>7, <1>8, ClientStep, Zenon

\* The action object act waits for the answer to request, the only message of
\* its call.
WaitsFor(a, act, s, request) ==
    /\ act \in ProxyAction /\ act.calls >= action[a].calls
    /\ act.stage = "sent" /\ act.msg = s
    /\ ~act.doc /\ act.error = "none" /\ act.told = "none"
    /\ request \in Messages /\ request.at = "network" /\ request.body = "action"
    /\ request.from = a /\ request.call = act.calls
    /\ msgs[s] = Free \/ IsOf(s, a)
    /\ \A t \in Slots \ {s} :
           msgs[t].at # "free" /\ msgs[t].from = a => msgs[t].call # act.calls

\* A call that sends a message puts it in slot s.
LEMMA SendStep ==
    ASSUME IInv, NEW a \in Actions, NEW s \in Slots, NEW act, NEW request,
           WaitsFor(a, act, s, request),
           action' = [action EXCEPT ![a] = act],
           msgs' = [msgs EXCEPT ![s] = request],
           executed' \in [Actions -> {"no", "invoked", "success", "fault"}],
           \A b \in Actions \ {a} : executed'[b] = executed[b],
           executed'[a] \in {"no", "invoked"},
           UNCHANGED <<peer, info, service, undefined>>
    PROVE  IInv'
<1>0. /\ act \in ProxyAction /\ act.calls >= action[a].calls
      /\ act.stage = "sent" /\ act.msg = s
      /\ ~act.doc /\ act.error = "none" /\ act.told = "none"
      /\ request \in Messages /\ request.at = "network" /\ request.body = "action"
      /\ request.from = a /\ request.call = act.calls
      /\ msgs[s] = Free \/ IsOf(s, a)
      /\ \A t \in Slots \ {s} :
             msgs[t].at # "free" /\ msgs[t].from = a => msgs[t].call # act.calls
  BY DEF WaitsFor
<1>1. /\ action'[a] = act
      /\ msgs \in [Slots -> Messages \cup {Free}]
      /\ msgs'[s] = request
      /\ \A t \in Slots \ {s} : msgs'[t] = msgs[t]
  BY DEF IInv, TypeOK
<1>2. /\ msgs' \in [Slots -> Messages \cup {Free}]
      /\ \A t \in Slots :
            \/ msgs'[t] = msgs[t]
            \/ /\ msgs[t] = Free \/ IsOf(t, a)
               /\ \/ msgs'[t] = Free
                  \/ /\ msgs'[t].at = "network" /\ msgs'[t].body = "action"
                     /\ msgs'[t].from = a /\ msgs'[t].call = act.calls
  BY <1>0, <1>1
<1>3. \A t \in Slots : IsOf(t, a)' => t = s
  BY <1>0, <1>1 DEF IsOf
<1>4. IsOf(s, a)' /\ AnswerTells(msgs'[s], executed'[a])
  BY <1>0, <1>1 DEF IsOf, AnswerTells
<1>5. CallIsOpen(a)'
  BY <1>0, <1>1, <1>4 DEF CallIsOpen
<1>6. /\ \A t, u \in Slots : IsOf(t, a)' /\ IsOf(u, a)' => t = u
      /\ \A t \in Slots : IsOf(t, a)' => AnswerTells(msgs'[t], executed'[a])
  BY <1>3, <1>4
<1>7. /\ act.told = "result" => executed'[a] = "success"
      /\ act.told = "control" => executed'[a] = "fault"
      /\ act.stage = "idle" /\ act.calls > 0 =>
             (act.told = "result" <=> Outcome(CheckResponse(act)) = "result")
  BY <1>0
<1>8. act \in ProxyAction /\ act.calls >= action[a].calls
  BY <1>0
<1> QED BY <1>2, <1>5, <1>6, <1>7, <1>8, ClientStep, ZenonT(60)

LEMMA CallStep ==
    ASSUME IInv, NEW a \in Actions, NEW sync \in BOOLEAN, Call(a, sync)
    PROVE  IInv'
<1> DEFINE act == [action[a] EXCEPT !.calls = @ + 1, !.sync = sync, !.told = "none"]
<1>1. action[a] \in ProxyAction /\ action[a].calls \in Nat
  BY DEF IInv, TypeOK, ProxyAction
<1>2. {"none", "failed"} \subseteq Outcomes
  BY DEF Outcomes
<1>3. act \in ProxyAction
  <2>1. action[a].calls + 1 \in Nat
    BY <1>1
  <2> QED BY <1>1, <1>2, <2>1, ActionFields
<1>4. act.calls = action[a].calls + 1 /\ act.told = "none"
  BY <1>1 DEF ProxyAction
<1>5. executed' = [executed EXCEPT ![a] = "no"] /\ UNCHANGED <<peer, info, service, undefined>>
  BY DEF Call
<1>6. /\ executed' \in [Actions -> {"no", "invoked", "success", "fault"}]
      /\ executed'[a] = "no"
      /\ \A b \in Actions \ {a} : executed'[b] = executed[b]
  BY <1>5 DEF IInv, TypeOK, ExecutedOnce
<1>7. \A s \in Slots : msgs[s].at # "free" /\ msgs[s].from = a => msgs[s].call # act.calls
  <2> SUFFICES ASSUME NEW s \in Slots, msgs[s].at # "free", msgs[s].from = a
               PROVE  msgs[s].call # act.calls
    OBVIOUS
  <2>1. msgs[s].call <= action[a].calls
    BY DEF IInv, MessagesArePast
  <2>2. msgs[s].call \in Nat
    BY DEF IInv, TypeOK, Messages, Free
  <2> HIDE DEF act
  <2> QED BY <1>1, <1>4, <2>1, <2>2
<1>8. CASE info.complete
  <2>1. PICK s \in Slots :
           /\ msgs[s] = Free
           /\ msgs' = [msgs EXCEPT ![s] = Request(a, act, "POST")]
           /\ action' = [action EXCEPT ![a] =
                            [Prepare(act, "POST", s) EXCEPT !.pending = ~sync]]
    BY <1>8 DEF Call
  <2> DEFINE p == Prepare(act, "POST", s)
             q == [p EXCEPT !.pending = ~sync]
             request == Request(a, act, "POST")
  <2> HIDE DEF act
  <2>2. /\ request \in Messages /\ request.at = "network" /\ request.from = a
        /\ request.call = act.calls /\ request.body = "action"
    BY <1>3, RequestType
  <2>3. /\ p \in ProxyAction /\ p.calls = act.calls /\ p.told = act.told
        /\ p.stage = "sent" /\ p.msg = s /\ ~p.doc /\ p.error = "none"
    BY <1>3, PrepareType
  <2>4. action' = [action EXCEPT ![a] = q] /\ msgs' = [msgs EXCEPT ![s] = request]
    BY <2>1
  <2> HIDE DEF p, request
  <2>5. /\ q \in ProxyAction /\ q.calls = p.calls /\ q.told = p.told
        /\ q.stage = p.stage /\ q.msg = p.msg /\ q.doc = p.doc /\ q.error = p.error
    <3>1. q \in ProxyAction
      BY <2>3, ActionFields
    <3>2. /\ q.calls = p.calls /\ q.told = p.told /\ q.stage = p.stage /\ q.msg = p.msg
          /\ q.doc = p.doc /\ q.error = p.error
      BY <2>3 DEF ProxyAction
    <3> QED BY <3>1, <3>2
  <2> HIDE DEF q
  <2>6. q.calls >= action[a].calls
    BY <1>1, <1>4, <2>3, <2>5
  <2>7. WaitsFor(a, q, s, request)
    BY <1>4, <1>7, <2>1, <2>2, <2>3, <2>5, <2>6 DEF WaitsFor
  <2>8. executed'[a] \in {"no", "invoked"}
    BY <1>6
  <2> QED BY <1>5, <1>6, <2>4, <2>7, <2>8, SendStep
<1>9. CASE ~info.complete
  <2> DEFINE r == Reset(act)
             q == IF sync THEN Return(r, "failed") ELSE [r EXCEPT !.stage = "failed"]
  <2>1. action' = [action EXCEPT ![a] = q] /\ msgs' = msgs
    BY <1>9 DEF Call
  <2> HIDE DEF act
  <2>2. /\ r \in ProxyAction /\ r.calls = act.calls /\ r.told = act.told
        /\ r.method = "none" /\ ~r.doc /\ r.error = "none"
    BY <1>3, ResetType
  <2> HIDE DEF r
  <2>3. /\ q \in ProxyAction /\ q.calls = r.calls /\ q.method = r.method
        /\ q.doc = r.doc /\ q.error = r.error
        /\ sync => q.stage = "idle" /\ q.told = "failed"
        /\ ~sync => q.stage = "failed" /\ q.told = r.told
    <3>1. CASE sync
      BY <1>2, <2>2, <3>1, ReturnType
    <3>2. CASE ~sync
      <4>1. /\ [r EXCEPT !.stage = "failed"] \in ProxyAction
            /\ [r EXCEPT !.stage = "failed"].calls = r.calls
            /\ [r EXCEPT !.stage = "failed"].method = r.method
            /\ [r EXCEPT !.stage = "failed"].doc = r.doc
            /\ [r EXCEPT !.stage = "failed"].error = r.error
            /\ [r EXCEPT !.stage = "failed"].told = r.told
            /\ [r EXCEPT !.stage = "failed"].stage = "failed"
        BY <2>2, ActionFields DEF ProxyAction
      <4> QED BY <3>2, <4>1
    <3> QED BY <3>1, <3>2
  <2> HIDE DEF q
  <2>4. q.calls >= action[a].calls
    BY <1>1, <1>4, <2>2, <2>3
  <2>5. Outcome(CheckResponse(q)) = "failed"
    <3>1. CheckResponse(q) = [q EXCEPT !.error = "failed"]
      BY <2>2, <2>3 DEF CheckResponse
    <3>2. [q EXCEPT !.error = "failed"].error = "failed"
      BY <2>3 DEF ProxyAction
    <3> QED BY <3>1, <3>2 DEF Outcome
  <2>6. /\ msgs' \in [Slots -> Messages \cup {Free}]
        /\ action'[a] = q /\ action'[a].calls = act.calls
    BY <2>1, <2>2, <2>3 DEF IInv, TypeOK
  <2>7. \A s \in Slots : ~IsOf(s, a)'
    BY <1>7, <2>1, <2>6 DEF IsOf
  <2>8. CallIsOpen(a)'
    BY <1>4, <2>2, <2>3, <2>6 DEF CallIsOpen
  <2>9. /\ q.told = "result" => executed'[a] = "success"
        /\ q.told = "control" => executed'[a] = "fault"
        /\ q.stage = "idle" /\ q.calls > 0 =>
              (q.told = "result" <=> Outcome(CheckResponse(q)) = "result")
    BY <1>4, <2>2, <2>3, <2>5
  <2>10. /\ \A s, t \in Slots : IsOf(s, a)' /\ IsOf(t, a)' => s = t
         /\ \A s \in Slots : IsOf(s, a)' => AnswerTells(msgs'[s], executed'[a])
         /\ \A s \in Slots : msgs'[s] = msgs[s]
    BY <2>1, <2>7
  <2> QED BY <1>5, <1>6, <2>1, <2>3, <2>4, <2>6, <2>8, <2>9, <2>10, ClientStep, ZenonT(60)
<1> QED BY <1>8, <1>9

\* A call without a message, or with an answer that is neither a result nor a
\* fault, has failed.
LEMMA Unchecked ==
    ASSUME NEW act \in ProxyAction, ~act.doc, act.error = "none",
           act.method = "none" \/ act.status \notin {200, 500}
    PROVE  CheckResponse(act).error = "failed" /\ Outcome(CheckResponse(act)) = "failed"
<1>1. CheckResponse(act) = [act EXCEPT !.error = "failed"]
  BY DEF CheckResponse
<1>2. [act EXCEPT !.error = "failed"].error = "failed"
  BY DEF ProxyAction
<1> QED BY <1>1, <1>2 DEF Outcome

LEMMA TaskReturnsStep ==
    ASSUME IInv, NEW a \in Actions, TaskReturns(a)
    PROVE  IInv'
<1> DEFINE act == Return(action[a], "failed")
<1>1. action[a] \in ProxyAction /\ "failed" \in Outcomes
  BY DEF IInv, TypeOK, Outcomes
<1>2. action[a].stage = "failed" /\ action[a].method = "none" /\ ~action[a].doc /\ action[a].error = "none"
  BY DEF TaskReturns, IInv, CallIsOpen
<1>3. /\ act \in ProxyAction /\ act.calls = action[a].calls /\ act.stage = "idle"
      /\ act.told = "failed" /\ act.method = "none" /\ ~act.doc /\ act.error = "none"
  BY <1>1, <1>2, ReturnType
<1>4. action' = [action EXCEPT ![a] = act] /\ UNCHANGED <<msgs, peer, info, service, executed, undefined>>
  BY DEF TaskReturns
<1> HIDE DEF act
<1>5. Outcome(CheckResponse(act)) = "failed"
  BY <1>3, Unchecked
<1>6. act.told # "result" /\ act.told # "control" /\ Outcome(CheckResponse(act)) # "result"
  BY <1>3, <1>5
<1> QED BY <1>3, <1>4, <1>6, ReturnStep

LEMMA NetworkErrorStep ==
    ASSUME IInv, NEW a \in Actions, NetworkError(a)
    PROVE  IInv'
<1> DEFINE broken == [action[a] EXCEPT !.error = "failed", !.msg = Free]
           act == Return(broken, "failed")
<1>1. action[a] \in ProxyAction /\ "failed" \in Outcomes
  BY DEF IInv, TypeOK, Outcomes
<1>2. broken \in ProxyAction
  BY <1>1, ActionFields
<1>3. broken.calls = action[a].calls /\ broken.error = "failed"
  BY <1>1 DEF ProxyAction
<1>4. action' = [action EXCEPT ![a] = act] /\ UNCHANGED <<msgs, peer, info, service, executed, undefined>>
  BY DEF NetworkError
<1> HIDE DEF broken
<1>5. /\ act \in ProxyAction /\ act.calls = action[a].calls /\ act.stage = "idle"
      /\ act.told = "failed" /\ act.error = "failed"
  BY <1>1, <1>2, <1>3, ReturnType
<1> HIDE DEF act
<1>6. CheckResponse(act) = act
  BY <1>5, CheckResponseType
<1>7. act.told # "result" /\ act.told # "control" /\ Outcome(CheckResponse(act)) # "result"
  BY <1>5, <1>6 DEF Outcome
<1> QED BY <1>4, <1>5, <1>7, ReturnStep

LEMMA GotResponseStep ==
    ASSUME IInv, NEW a \in Actions, GotResponse(a)
    PROVE  IInv'
<1> DEFINE s == action[a].msg
           act == [action[a] EXCEPT !.status = msgs[s].status, !.response = msgs[s].content]
<1>1. /\ action[a] \in ProxyAction /\ action[a].stage = "sent" /\ msgs[s].at = "answered"
      /\ s \in Slots /\ IsOf(s, a) /\ msgs[s] \in Messages
      /\ ~action[a].doc /\ action[a].error = "none" /\ action[a].told = "none"
      /\ AnswerTells(msgs[s], executed[a])
  BY DEF GotResponse, IInv, TypeOK, CallIsOpen, AnswersTell, Free
<1>2. msgs[s].status \in Statuses /\ msgs[s].content \in Contents
  BY <1>1 DEF Messages
<1>3. act \in ProxyAction
  BY <1>1, <1>2, ActionFields
<1>4. /\ act.calls = action[a].calls /\ act.status = msgs[s].status /\ act.response = msgs[s].content
      /\ ~act.doc /\ act.error = "none" /\ act.told = "none"
  BY <1>1 DEF ProxyAction
<1>5. UNCHANGED <<peer, info, service, executed, undefined>>
  BY DEF GotResponse
<1>6. Tells(act.status, act.response, executed[a])
  BY <1>1, <1>4 DEF AnswerTells
<1>7. CASE NotAllowed(act)
  <2> DEFINE p == Prepare(act, "M-POST", s)
             request == Request(a, act, "M-POST")
  <2>1. action' = [action EXCEPT ![a] = p] /\ msgs' = [msgs EXCEPT ![s] = request]
    BY <1>7 DEF GotResponse
  <2>2. executed[a] \in {"no", "invoked"}
    BY <1>6, <1>7 DEF NotAllowed, Tells
  <2> HIDE DEF act, s
  <2>3. /\ request \in Messages /\ request.at = "network" /\ request.from = a
        /\ request.call = act.calls /\ request.body = "action"
    BY <1>3, RequestType
  <2>4. /\ p \in ProxyAction /\ p.calls = act.calls /\ p.told = act.told
        /\ p.stage = "sent" /\ p.msg = s /\ ~p.doc /\ p.error = "none"
    BY <1>1, <1>3, PrepareType
  <2> HIDE DEF p, request
  <2>5. \A t \in Slots \ {s} : msgs[t].at # "free" /\ msgs[t].from = a => msgs[t].call # p.calls
    BY <1>1, <1>4, <2>4 DEF IInv, OneMessage, IsOf
  <2>6. p.calls >= action[a].calls
    BY <1>1, <1>4, <2>4 DEF ProxyAction
  <2>7. WaitsFor(a, p, s, request)
    BY <1>1, <1>4, <2>3, <2>4, <2>5, <2>6 DEF WaitsFor
  <2>8. /\ executed' \in [Actions -> {"no", "invoked", "success", "fault"}]
        /\ \A b \in Actions \ {a} : executed'[b] = executed[b]
        /\ executed'[a] \in {"no", "invoked"}
    BY <1>5, <2>2 DEF IInv, TypeOK, ExecutedOnce
  <2> QED BY <1>1, <1>5, <2>1, <2>7, <2>8, SendStep
<1>8. CASE ~NotAllowed(act)
  <2> DEFINE checked == IF act.status = 405 /\ ~act.sync THEN act ELSE CheckResponse(act)
             outcome == IF act.status = 405 THEN "failed" ELSE Outcome(checked)
             freed == [checked EXCEPT !.msg = Free]
             done == Return(freed, outcome)
  <2>1. action' = [action EXCEPT ![a] = done] /\ msgs' = [msgs EXCEPT ![s] = Free]
    BY <1>8 DEF GotResponse
  <2> HIDE DEF act, s
  <2>2. checked \in ProxyAction /\ checked.calls = act.calls
    BY <1>3, CheckResponseType
  <2>3. act.status # 405 => checked.doc \/ checked.error # "none"
    BY <1>3, CheckResponseType
  <2>4. /\ act.status # 405 /\ outcome = "result" => act.status = 200
        /\ act.status # 405 /\ outcome = "control" => act.status = 500
    BY <1>3, <1>4, CheckResponseType DEF Outcome
  <2>5. act.status = 405 =>
          \/ checked.error = "failed"
          \/ ~checked.doc /\ checked.error = "none" /\ checked.status = 405
    BY <1>3, <1>4, Unchecked
  <2>6. outcome \in Outcomes
    BY <2>2 DEF Outcome, Outcomes, ProxyAction
  <2> HIDE DEF checked
  <2>7. freed \in ProxyAction
    BY <2>2, ActionFields
  <2>8. /\ freed.calls = checked.calls /\ freed.doc = checked.doc /\ freed.error = checked.error
        /\ freed.status = checked.status
    BY <2>2 DEF ProxyAction
  <2> HIDE DEF freed
  <2>9. /\ done \in ProxyAction /\ done.calls = act.calls /\ done.stage = "idle"
        /\ done.told = outcome /\ done.doc = checked.doc /\ done.error = checked.error
        /\ done.status = checked.status
    BY <2>2, <2>6, <2>7, <2>8, ReturnType
  <2> HIDE DEF done
  <2>10. done.told = "result" <=> Outcome(CheckResponse(done)) = "result"
    <3>1. CASE act.status = 405
      <4>1. CASE checked.error = "failed"
        <5>1. CheckResponse(done) = done /\ done.error = "failed"
          BY <2>9, <4>1, CheckResponseType
        <5> QED BY <2>9, <3>1, <5>1 DEF Outcome
      <4>2. CASE ~checked.doc /\ checked.error = "none" /\ checked.status = 405
        <5>1. Outcome(CheckResponse(done)) = "failed"
          BY <2>9, <4>2, Unchecked
        <5> QED BY <2>9, <3>1, <5>1
      <4> QED BY <2>5, <3>1, <4>1, <4>2
    <3>2. CASE act.status # 405
      <4>1. CheckResponse(done) = done
        BY <2>3, <2>9, <3>2, CheckResponseType
      <4> QED BY <2>9, <3>2, <4>1 DEF Outcome
    <3> QED BY <3>1, <3>2
  <2>11. /\ done.told = "result" => executed[a] = "success"
         /\ done.told = "control" => executed[a] = "fault"
    <3>1. act.status = 405 => done.told = "failed"
      BY <2>9
    <3>2. act.status # 405 => done.told = outcome
      BY <2>9
    <3> HIDE DEF outcome
    <3>3. /\ act.status = 200 => executed[a] = "success"
          /\ act.status = 500 => executed[a] = "fault"
      BY <1>6 DEF Tells
    <3> QED BY <2>4, <3>1, <3>2, <3>3
  <2>12. /\ done.calls = action[a].calls
         /\ \E t \in Slots : IsOf(t, a) /\ msgs' = [msgs EXCEPT ![t] = Free]
    BY <1>1, <1>4, <2>1, <2>9
  <2> QED BY <1>5, <2>1, <2>9, <2>10, <2>11, <2>12, ReturnStep
<1> QED BY <1>7, <1>8

\* A message in s that is kept, with other marks, is not carried out.
LEMMA KeptStep ==
    ASSUME IInv, NEW s \in Slots, msgs[s].at \in {"network", "acl"},
           NEW new \in Messages, msgs' = [msgs EXCEPT ![s] = new], executed' = executed,
           new.from = msgs[s].from, new.call = msgs[s].call, new.body = msgs[s].body,
           new.at \notin {"application", "answered"},
           UNCHANGED <<action, peer, info, service>>, undefined' \in BOOLEAN
    PROVE  IInv'
<1> DEFINE state == "no"
<1>1. /\ state \in {"no", "invoked", "success", "fault"}
      /\ executed' = IF state = "no" THEN executed ELSE Executed(msgs[s], state)
      /\ new.body = "action" => AnswerTells(new, state)
      /\ new.at # "application"
  BY DEF AnswerTells
<1> HIDE DEF state
<1> QED BY <1>1, ServerStep

LEMMA ArriveStep ==
    ASSUME IInv, NEW s \in Slots, Arrive(s)
    PROVE  IInv'
<1>1. /\ msgs[s].at = "network" /\ msgs[s] \in Messages /\ undefined' \in BOOLEAN
      /\ UNCHANGED <<action, peer, info, service>>
      /\ service.acl \in {"none", "sync", "async"}
  BY DEF Arrive, IInv, TypeOK, Free
<1>2. CASE ~service.registered
  <2> DEFINE status == 404
             content == "none"
  <2>1. msgs' = [msgs EXCEPT ![s] = Answered(msgs[s], status, content)] /\ executed' = executed
    BY <1>2 DEF Arrive
  <2>2. status \in Statuses /\ content \in Contents /\ Tells(status, content, "no")
    BY DEF Statuses, Contents, Tells
  <2> HIDE DEF status, content
  <2> QED BY <1>1, <2>1, <2>2, RefusedStep
<1>3. CASE service.registered /\ service.acl = "none"
  <2>1. Decided(s, msgs[s], TRUE)
    BY <1>3 DEF Arrive
  <2> QED BY <1>1, <2>1, DecidedStep
<1>4. CASE service.registered /\ service.acl = "sync"
  <2>1. \E allowed \in BOOLEAN : Decided(s, msgs[s], allowed)
    BY <1>4 DEF Arrive
  <2> QED BY <1>1, <2>1, DecidedStep
<1>5. CASE service.registered /\ service.acl = "async"
  <2> DEFINE new == [msgs[s] EXCEPT !.at = "acl"]
  <2>1. msgs' = [msgs EXCEPT ![s] = new] /\ executed' = executed
    BY <1>5 DEF Arrive
  <2>2. new \in Messages
    BY <1>1, MessageFields
  <2>3. /\ new.from = msgs[s].from /\ new.call = msgs[s].call /\ new.body = msgs[s].body
        /\ new.at \notin {"application", "answered"}
    BY <1>1 DEF Messages
  <2> HIDE DEF new
  <2> QED BY <1>1, <2>1, <2>2, <2>3, KeptStep
<1> QED BY <1>1, <1>2, <1>3, <1>4, <1>5

LEMMA AclAnswersStep ==
    ASSUME IInv, NEW s \in Slots, AclAnswers(s)
    PROVE  IInv'
<1>1. /\ msgs[s].at = "acl" /\ msgs[s] \in Messages /\ undefined' \in BOOLEAN
      /\ UNCHANGED <<action, peer, info, service>>
  BY DEF AclAnswers, IInv, TypeOK, Free
<1>2. PICK allowed \in BOOLEAN :
         \/ Decided(s, msgs[s], allowed)
         \/ /\ allowed /\ ~service.registered
            /\ msgs' = [msgs EXCEPT ![s].at = "undefined"]
            /\ executed' = executed
  BY DEF AclAnswers
<1>3. CASE Decided(s, msgs[s], allowed)
  BY <1>1, <1>3, DecidedStep
<1>4. CASE msgs' = [msgs EXCEPT ![s].at = "undefined"] /\ executed' = executed
  <2> DEFINE new == [msgs[s] EXCEPT !.at = "undefined"]
  <2>1. msgs' = [msgs EXCEPT ![s] = new]
    BY <1>4
  <2>2. new \in Messages
    BY <1>1, MessageFields
  <2>3. /\ new.from = msgs[s].from /\ new.call = msgs[s].call /\ new.body = msgs[s].body
        /\ new.at \notin {"application", "answered"}
    BY <1>1 DEF Messages
  <2> HIDE DEF new
  <2> QED BY <1>1, <1>4, <2>1, <2>2, <2>3, KeptStep
<1> QED BY <1>2, <1>3, <1>4

LEMMA ServiceReturnsStep ==
    ASSUME IInv, NEW s \in Slots, ServiceReturns(s)
    PROVE  IInv'
<1>1. /\ msgs[s].at = "application" /\ msgs[s] \in Messages /\ undefined' \in BOOLEAN
      /\ UNCHANGED <<action, peer, info, service>>
  BY DEF ServiceReturns, IInv, TypeOK, Free
<1>2. PICK ok \in BOOLEAN :
         /\ msgs' = [msgs EXCEPT ![s] = IF ok THEN Answered(@, 200, "result")
                                              ELSE Answered(@, 500, "fault")]
         /\ executed' = Executed(msgs[s], IF ok THEN "success" ELSE "fault")
  BY DEF ServiceReturns
<1>3. CASE ok
  <2> DEFINE status == 200
             content == "result"
             state == "success"
  <2>1. /\ msgs' = [msgs EXCEPT ![s] = Answered(msgs[s], status, content)]
        /\ executed' = Executed(msgs[s], state)
    BY <1>2, <1>3
  <2>2. /\ status \in Statuses /\ content \in Contents /\ state \in {"success", "fault"}
        /\ Tells(status, content, state)
    BY DEF Statuses, Contents, Tells
  <2> HIDE DEF status, content, state
  <2> QED BY <1>1, <2>1, <2>2, CarriedOutStep
<1>4. CASE ~ok
  <2> DEFINE status == 500
             content == "fault"
             state == "fault"
  <2>1. /\ msgs' = [msgs EXCEPT ![s] = Answered(msgs[s], status, content)]
        /\ executed' = Executed(msgs[s], state)
    BY <1>2, <1>4
  <2>2. /\ status \in Statuses /\ content \in Contents /\ state \in {"success", "fault"}
        /\ Tells(status, content, state)
    BY DEF Statuses, Contents, Tells
  <2> HIDE DEF status, content, state
  <2> QED BY <1>1, <2>1, <2>2, CarriedOutStep
<1> QED BY <1>3, <1>4

\* What a peer that carries out the call says of it.
LEMMA PeerTells ==
    /\ \A content \in {"result", "garbage", "no-soap"} : Tells(200, content, "success")
    /\ \A content \in {"fault", "bad-fault", "garbage"} : Tells(500, content, "fault")
BY DEF Tells

LEMMA PeerAnswersStep ==
    ASSUME IInv, NEW s \in Slots, PeerAnswers(s)
    PROVE  IInv'
<1> DEFINE m == msgs[s]
           NotSoap == {405, 501}
<1>1. /\ m.at = "network" /\ m \in Messages /\ undefined' \in BOOLEAN
      /\ UNCHANGED <<action, peer, info, service>>
  <2>1. m.at = "network" /\ UNCHANGED <<action, peer, info, service, undefined>>
    BY Zenon DEF PeerAnswers
  <2> QED BY <2>1 DEF IInv, TypeOK, Free
<1>2. {"none", "no-soap", "result", "garbage", "fault", "bad-fault"} \subseteq Contents
  BY DEF Contents
<1>3. ASSUME NEW status \in Statuses, NEW content \in Contents, Tells(status, content, "no"),
             msgs' = [msgs EXCEPT ![s] = Answered(m, status, content)], executed' = executed
      PROVE  IInv'
  BY <1>1, <1>3, RefusedStep
<1>4. ASSUME NEW status \in Statuses, NEW content \in Contents, NEW state \in {"success", "fault"},
             Tells(status, content, state),
             msgs' = [msgs EXCEPT ![s] = Answered(m, status, content)],
             executed' = Executed(m, state)
      PROVE  IInv'
  BY <1>1, <1>4, CarriedOutStep
<1>5. ASSUME msgs' = [msgs EXCEPT ![s] = [m EXCEPT !.authenticated = TRUE]], executed' = executed
      PROVE  IInv'
  <2> DEFINE new == [m EXCEPT !.authenticated = TRUE]
  <2>1. new \in Messages
    BY <1>1, MessageFields
  <2>2. /\ new.from = m.from /\ new.call = m.call /\ new.body = m.body
        /\ new.at \notin {"application", "answered"}
    BY <1>1 DEF Messages
  <2> HIDE DEF new
  <2> QED BY <1>1, <1>5, <2>1, <2>2, KeptStep DEF new
<1>6. \/ /\ msgs' = [msgs EXCEPT ![s] = Answered(m, 405, "none")] /\ executed' = executed
      \/ /\ msgs' = [msgs EXCEPT ![s] = [m EXCEPT !.authenticated = TRUE]] /\ executed' = executed
      \/ /\ msgs' = [msgs EXCEPT ![s] = Answered(m, 401, "none")] /\ executed' = executed
      \/ \E status \in NotSoap :
            msgs' = [msgs EXCEPT ![s] = Answered(m, status, "no-soap")] /\ executed' = executed
      \/ \E content \in {"result", "garbage", "no-soap"} :
            msgs' = [msgs EXCEPT ![s] = Answered(m, 200, content)] /\ executed' = Executed(m, "success")
      \/ \E content \in {"fault", "bad-fault", "garbage"} :
            msgs' = [msgs EXCEPT ![s] = Answered(m, 500, content)] /\ executed' = Executed(m, "fault")
  BY DEF PeerAnswers
<1> HIDE DEF m, NotSoap
<1>7. CASE msgs' = [msgs EXCEPT ![s] = Answered(m, 405, "none")] /\ executed' = executed
  <2>1. 405 \in Statuses /\ Tells(405, "none", "no")
    BY StatusValues DEF Tells
  <2> QED BY <1>2, <1>3, <1>7, <2>1, Zenon
<1>8. CASE msgs' = [msgs EXCEPT ![s] = Answered(m, 401, "none")] /\ executed' = executed
  <2>1. 401 \in Statuses /\ Tells(401, "none", "no")
    BY StatusValues DEF Tells
  <2> QED BY <1>2, <1>3, <1>8, <2>1, Zenon
<1>9. ASSUME NEW status \in NotSoap,
             msgs' = [msgs EXCEPT ![s] = Answered(m, status, "no-soap")], executed' = executed
      PROVE  IInv'
  <2>1. status \in Statuses /\ Tells(status, "no-soap", "no")
    BY StatusValues DEF NotSoap
  <2>2. "no-soap" \in Contents
    BY DEF Contents
  <2> QED BY <1>3, <1>9, <2>1, <2>2, Zenon
<1>10. CASE \E content \in {"result", "garbage", "no-soap"} :
            msgs' = [msgs EXCEPT ![s] = Answered(m, 200, content)] /\ executed' = Executed(m, "success")
  <2>1. PICK content \in {"result", "garbage", "no-soap"} :
           msgs' = [msgs EXCEPT ![s] = Answered(m, 200, content)] /\ executed' = Executed(m, "success")
    BY <1>10, Zenon
  <2>2. Tells(200, content, "success") /\ content \in Contents
    BY PeerTells, Zenon DEF Contents
  <2> QED BY <1>4, <2>1, <2>2, StatusValues, Zenon
<1>11. CASE \E content \in {"fault", "bad-fault", "garbage"} :
            msgs' = [msgs EXCEPT ![s] = Answered(m, 500, content)] /\ executed' = Executed(m, "fault")
  <2>1. PICK content \in {"fault", "bad-fault", "garbage"} :
           msgs' = [msgs EXCEPT ![s] = Answered(m, 500, content)] /\ executed' = Executed(m, "fault")
    BY <1>11, Zenon
  <2>2. Tells(500, content, "fault") /\ content \in Contents
    BY PeerTells, Zenon DEF Contents
  <2> QED BY <1>4, <2>1, <2>2, StatusValues, Zenon
<1> QED BY <1>5, <1>6, <1>7, <1>8, <1>9, <1>10, <1>11, Zenon

LEMMA StrangerStep ==
    ASSUME IInv, NEW s \in Slots, NEW m \in Strangers, Stranger(s, m)
    PROVE  IInv'
<1> USE DEF IInv
<1>1. /\ m \in Messages /\ m.from = "stranger" /\ m.at = "network" /\ "stranger" \notin Actions
      /\ msgs[s] = Free /\ Free.at = "free" /\ msgs' = [msgs EXCEPT ![s] = m]
      /\ UNCHANGED <<action, peer, info, service, executed, undefined>>
      /\ msgs \in [Slots -> Messages \cup {Free}]
  BY ActionCallsAssumption DEF Stranger, TypeOK, Free
<1>2. msgs'[s] = m /\ \A t \in Slots \ {s} : msgs'[t] = msgs[t]
  BY <1>1
<1>3. TypeOK'
  BY <1>1 DEF TypeOK
<1>4. OnlyAllowed' /\ MessagesArePast'
  BY <1>1, <1>2 DEF OnlyAllowed, MessagesArePast
<1>5. \A t \in Slots, a \in Actions : IsOf(t, a)' <=> IsOf(t, a) /\ t # s
  BY <1>1, <1>2 DEF IsOf
<1>6. \A a \in Actions : ~IsOf(s, a)
  BY <1>1 DEF IsOf
<1>7. OneMessage' /\ AnswersTell'
  BY <1>1, <1>2, <1>5 DEF OneMessage, AnswersTell
<1>8. ASSUME NEW a \in Actions PROVE CallIsOpen(a)'
  BY <1>1, <1>5, <1>6 DEF CallIsOpen
<1>9. OutcomeIsThePeers' /\ ExecutedOnce'
  BY <1>1 DEF OutcomeIsThePeers, ExecutedOnce
<1> QED BY <1>3, <1>4, <1>7, <1>8, <1>9

LEMMA DiscardStep ==
    ASSUME IInv, NEW s \in Slots, Discard(s)
    PROVE  IInv'
<1> USE DEF IInv
<1>1. /\ \A a \in Actions : action[a].msg # s
      /\ msgs' = [msgs EXCEPT ![s] = Free] /\ Free.at = "free"
      /\ UNCHANGED <<action, peer, info, service, executed, undefined>>
      /\ msgs \in [Slots -> Messages \cup {Free}]
  BY DEF Discard, TypeOK, Free
<1>2. msgs'[s] = Free /\ \A t \in Slots \ {s} : msgs'[t] = msgs[t]
  BY <1>1
<1>3. TypeOK'
  BY <1>1 DEF TypeOK
<1>4. OnlyAllowed' /\ MessagesArePast'
  BY <1>1, <1>2 DEF OnlyAllowed, MessagesArePast
<1>5. \A t \in Slots, a \in Actions : IsOf(t, a)' <=> IsOf(t, a) /\ t # s
  BY <1>1, <1>2 DEF IsOf
<1>6. OneMessage' /\ AnswersTell'
  BY <1>1, <1>2, <1>5 DEF OneMessage, AnswersTell
<1>7. ASSUME NEW a \in Actions PROVE CallIsOpen(a)'
  BY <1>1, <1>5 DEF CallIsOpen
<1>8. OutcomeIsThePeers' /\ ExecutedOnce'
  BY <1>1 DEF OutcomeIsThePeers, ExecutedOnce
<1> QED BY <1>3, <1>4, <1>6, <1>7, <1>8

\* What changes only the service, or nothing.
LEMMA ServiceStep ==
    ASSUME IInv,
           \/ service' = service
           \/ service' \in [registered : BOOLEAN, connected : BOOLEAN, acl : {"none", "sync", "async"}],
           UNCHANGED <<action, msgs, peer, info, executed, undefined>>
    PROVE  IInv'
<1> USE DEF IInv
<1>1. TypeOK'
  BY DEF TypeOK
<1>2. \A t \in Slots, a \in Actions : IsOf(t, a)' <=> IsOf(t, a)
  BY DEF IsOf
<1>3. OnlyAllowed' /\ MessagesArePast'
  BY DEF OnlyAllowed, MessagesArePast
<1>4. OneMessage' /\ AnswersTell'
  BY <1>2 DEF OneMessage, AnswersTell
<1>5. ASSUME NEW a \in Actions PROVE CallIsOpen(a)'
  BY <1>2 DEF CallIsOpen
<1>6. OutcomeIsThePeers' /\ ExecutedOnce'
  BY DEF OutcomeIsThePeers, ExecutedOnce
<1> QED BY <1>1, <1>3, <1>4, <1>5, <1>6

LEMMA IInvNext == IInv /\ [Next]_vars => IInv'
<1> SUFFICES ASSUME IInv, [Next]_vars PROVE IInv'
  OBVIOUS
<1>1. ASSUME NEW a \in Actions,
             (\E sync \in BOOLEAN : Call(a, sync)) \/ TaskReturns(a) \/ GotResponse(a) \/ NetworkError(a)
      PROVE  IInv'
  BY <1>1, CallStep, TaskReturnsStep, GotResponseStep, NetworkErrorStep
<1>2. ASSUME NEW s \in Slots,
             \/ Arrive(s) \/ AclAnswers(s) \/ ServiceReturns(s) \/ PeerAnswers(s) \/ Discard(s)
             \/ \E m \in Strangers : Stranger(s, m)
      PROVE  IInv'
  BY <1>2, ArriveStep, AclAnswersStep, ServiceReturnsStep, PeerAnswersStep, DiscardStep, StrangerStep
<1>3. CASE Dispose
  BY <1>3, ServiceStep DEF Dispose, IInv, TypeOK
<1>4. CASE Configure
  <2>1. service' \in [registered : BOOLEAN, connected : BOOLEAN, acl : {"none", "sync", "async"}]
    BY <1>4 DEF Configure, IInv, TypeOK
  <2> QED BY <1>4, <2>1, ServiceStep DEF Configure
<1>5. CASE UNCHANGED vars
  BY <1>5, ServiceStep DEF vars
<1> QED BY <1>1, <1>2, <1>3, <1>4, <1>5 DEF Next

LEMMA IInvAlways == Spec => []IInv
<1> QED BY IInvInit, IInvNext, PTL DEF Spec

-----------------------------------------------------------------------------
(* What follows.                                                           *)

\* Whatever is called, answered, lost or refused, each action object, message and
\* credential stays what it may be.
THEOREM TypeCorrect == Spec => []TypeOK
<1>1. IInv => TypeOK
  BY DEF IInv
<1> QED BY <1>1, IInvAlways, PTL

\* The handler of an application never sees a request that the ACL in place has
\* not let through, or that is for another host, however late the ACL answers.
THEOREM RefusedStaysOut == Spec => []OnlyAllowed
<1>1. IInv => OnlyAllowed
  BY DEF IInv
<1> QED BY <1>1, IInvAlways, PTL

\* The retry as M-POST, the retry with credentials and a message left behind by a
\* cancelled call together never carry out one call twice.
THEOREM NeverTwice == Spec => []ExecutedOnce
<1>1. IInv => ExecutedOnce
  BY DEF IInv
<1> QED BY <1>1, IInvAlways, PTL

\* The caller is told a result or an UPnP error only of this call, and only if
\* that is what became of it at the peer.
THEOREM OutcomeIsTrue == Spec => []OutcomeIsThePeers
<1>1. IInv => OutcomeIsThePeers
  BY DEF IInv
<1> QED BY <1>1, IInvAlways, PTL

=============================================================================
