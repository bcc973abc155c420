---------------------------- MODULE ActionCalls ----------------------------
(***************************************************************************)
(* Calls of actions: gupnp_service_proxy_call_action() and its             *)
(* asynchronous form in gupnp-service-proxy.c with gupnp-service-proxy-    *)
(* action.c on one side; the access control of gupnp-context.c, the        *)
(* control handler of gupnp-service.c and gupnp-service-action.c on the    *)
(* other.  The peer of the calls is either this service, to which          *)
(* strangers send what they like, or another one, which may answer in any  *)
(* way and ask for a password.                                             *)
(*                                                                         *)
(* A message is in one of a few slots, which are used again.  The          *)
(* application calls an action object again only when the last call has    *)
(* finished, and answers a GUPnPServiceAction once.                        *)
(***************************************************************************)
EXTENDS Integers, FiniteSetsExt

CONSTANTS
    Actions,     \* GUPnPServiceProxyActions of the client, all of one proxy
    Slots,       \* bound: messages at a time
    MaxCalls,    \* bound: calls of all actions
    Strangers    \* what others may send, a subset of Messages

VARIABLES
    action,      \* [Actions -> the GUPnPServiceProxyAction and its call]
    msgs,        \* [Slots -> Free or a message]
    peer,        \* whom the proxy stands for: "gupnp" or "other"
    info,        \* the description and credentials of the proxy
    service,     \* the service: its handler, whether actions are connected, the ACL
    executed,    \* what became of the last call of each action at the peer
    undefined    \* an ACL answer was passed to a handler that was freed

vars == <<action, msgs, peer, info, service, executed, undefined>>

Free == [at |-> "free"]
Bodies == {"action", "query", "missing", "garbage", "empty"}
Contents == {"none", "result", "fault", "bad-fault", "no-soap", "garbage"}
Statuses == {0, 200, 400, 401, 403, 404, 405, 412, 500, 501}
Outcomes == {"none", "result", "control", "failed"}

Messages ==
    [from : Actions \cup {"stranger"}, call : Nat, method : {"POST", "M-POST"},
     host : BOOLEAN, soapaction : BOOLEAN, body : Bodies, authenticated : BOOLEAN,
     at : {"network", "acl", "application", "answered", "undefined"},
     allowed : BOOLEAN, status : Statuses, content : Contents]

\* Strangers are no actions of the client, and what they send is still to be read.
ASSUME ActionCallsAssumption ==
    /\ MaxCalls \in Nat
    /\ "stranger" \notin Actions
    /\ \A m \in Strangers : m \in Messages /\ m.from = "stranger" /\ m.at = "network"

\* stage, sync and told belong to the call: a GTask, or the synchronous function
ProxyAction ==
    [stage : {"idle", "failed", "sent"}, sync : BOOLEAN, pending : BOOLEAN, calls : Nat,
     method : {"none", "POST", "M-POST"}, msg : Slots \cup {Free}, status : Statuses,
     response : Contents, doc : BOOLEAN, error : Outcomes, told : Outcomes]

TypeOK ==
    /\ action \in [Actions -> ProxyAction]
    /\ msgs \in [Slots -> Messages \cup {Free}]
    /\ peer \in {"gupnp", "other"}
    /\ info \in [complete : BOOLEAN, credentials : BOOLEAN]
    /\ service \in [registered : BOOLEAN, connected : BOOLEAN, acl : {"none", "sync", "async"}]
    /\ executed \in [Actions -> {"no", "invoked", "success", "fault", "twice"}]
    /\ undefined \in BOOLEAN

\* gupnp_service_proxy_action_new(), whose arguments are set before it is called
NewAction ==
    [stage |-> "idle", sync |-> FALSE, pending |-> FALSE, calls |-> 0, method |-> "none",
     msg |-> Free, status |-> 0, response |-> "none", doc |-> FALSE, error |-> "none",
     told |-> "none"]

Init ==
    /\ action = [a \in Actions |-> NewAction]
    /\ msgs = [s \in Slots |-> Free]
    /\ \/ /\ peer = "gupnp"
          /\ info = [complete |-> TRUE, credentials |-> FALSE]
          /\ service = [registered |-> TRUE, connected |-> TRUE, acl |-> "none"]
       \/ /\ peer = "other"
          /\ info \in [complete : BOOLEAN, credentials : BOOLEAN]
          /\ service = [registered |-> FALSE, connected |-> FALSE, acl |-> "none"]
    /\ executed = [a \in Actions |-> "no"]
    /\ undefined = FALSE

-----------------------------------------------------------------------------
(* The service proxy.                                                      *)

\* faulty: the document of the last call is kept
ResetKeepsDoc(act) ==
    [act EXCEPT !.error = "none", !.method = "none", !.msg = Free, !.status = 0,
                !.response = "none"]

\* gupnp_service_proxy_action_reset()
Reset(act) ==
    [act EXCEPT !.error = "none", !.method = "none", !.msg = Free, !.status = 0,
                !.response = "none", !.doc = FALSE]

\* prepare_action_msg() and the sending of what it has made, in the slot s
Prepare(act, method, s) == [Reset(act) EXCEPT !.method = method, !.msg = s, !.stage = "sent"]

Request(a, act, method) ==
    [from |-> a, call |-> act.calls, method |-> method, host |-> TRUE,
     soapaction |-> method = "POST", body |-> "action", authenticated |-> FALSE,
     at |-> "network", allowed |-> FALSE, status |-> 0, content |-> "none"]

\* gupnp_service_proxy_action_check_response()
CheckResponse(act) ==
    IF act.doc \/ act.error # "none" THEN act
    ELSE IF act.method = "none" \/ act.response = "none" \/ act.status \notin {200, 500}
    THEN [act EXCEPT !.error = "failed"]
    ELSE IF act.status = 200 /\ act.response \notin {"garbage", "no-soap"}
    THEN [act EXCEPT !.doc = TRUE, !.response = "none"]
    ELSE IF act.status = 500 /\ act.response = "fault"
    THEN [act EXCEPT !.error = "control", !.response = "none"]
    ELSE [act EXCEPT !.error = "failed", !.response = "none"]

Outcome(act) == IF act.error # "none" THEN act.error ELSE "result"

\* g_task_return_*(), the callback with gupnp_service_proxy_call_action_finish(),
\* or the return of the synchronous function
Return(act, outcome) ==
    [act EXCEPT !.stage = "idle", !.sync = FALSE, !.told = outcome, !.pending = FALSE]

\* The main loop stands still in a synchronous call of another action.
Running(a) == \A b \in Actions \ {a} : ~(action[b].stage = "sent" /\ action[b].sync)

\* gupnp_service_proxy_call_action() and _async(): without a service type or
\* control URL the GTask returns its error from the main loop.
Call(a, sync) ==
    LET act == [action[a] EXCEPT !.calls = @ + 1, !.sync = sync, !.told = "none"] IN
    /\ Running(a)
    /\ action[a].stage = "idle" /\ ~action[a].pending
    /\ MapThenSumSet(LAMBDA b : action[b].calls, Actions) < MaxCalls
    /\ executed' = [executed EXCEPT ![a] = "no"]
    /\ IF info.complete
       THEN \E s \in Slots :
               /\ msgs[s] = Free
               /\ msgs' = [msgs EXCEPT ![s] = Request(a, act, "POST")]
               /\ action' = [action EXCEPT ![a] =
                                [Prepare(act, "POST", s) EXCEPT !.pending = ~sync]]
       ELSE /\ action' = [action EXCEPT ![a] =
                             IF sync THEN Return(Reset(act), "failed")
                                     ELSE [Reset(act) EXCEPT !.stage = "failed"]]
            /\ msgs' = msgs
    /\ UNCHANGED <<peer, info, service, undefined>>

TaskReturns(a) ==
    /\ Running(a)
    /\ action[a].stage = "failed"
    /\ action' = [action EXCEPT ![a] = Return(@, "failed")]
    /\ UNCHANGED <<msgs, peer, info, service, executed, undefined>>

\* faulty: whatever the method was, it is tried again with M-POST
NotAllowedAgain(act) == act.status = 405

\* faulty: any error of the server makes it try M-POST
RetryOnFault(act) == act.status \in {405, 500} /\ act.method = "POST"

\* The POST may be sent again as M-POST.
NotAllowed(act) == act.status = 405 /\ act.method = "POST"

\* action_task_got_response() and the synchronous function after it has sent
GotResponse(a) ==
    LET s == action[a].msg
        act == [action[a] EXCEPT !.status = msgs[s].status, !.response = msgs[s].content]
    IN
    /\ Running(a)
    /\ action[a].stage = "sent" /\ msgs[s].at = "answered"
    /\ IF NotAllowed(act)
       THEN /\ action' = [action EXCEPT ![a] = Prepare(act, "M-POST", s)]
            /\ msgs' = [msgs EXCEPT ![s] = Request(a, act, "M-POST")]
       ELSE /\ LET checked == IF act.status = 405 /\ ~act.sync THEN act ELSE CheckResponse(act) IN
               action' = [action EXCEPT ![a] =
                             Return([checked EXCEPT !.msg = Free],
                                    IF act.status = 405 THEN "failed" ELSE Outcome(checked))]
            /\ msgs' = [msgs EXCEPT ![s] = Free]
    /\ UNCHANGED <<peer, info, service, executed, undefined>>

\* The connection breaks, or the application cancels the call; the request may
\* still be on its way, or with the service.
NetworkError(a) ==
    /\ Running(a)
    /\ action[a].stage = "sent"
    /\ action' = [action EXCEPT ![a] =
                     Return([@ EXCEPT !.error = "failed", !.msg = Free], "failed")]
    /\ UNCHANGED <<msgs, peer, info, service, executed, undefined>>

\* on_authenticate() and on_restarted(): credentials are tried once.
Authenticates(m) == info.credentials /\ ~m.authenticated

-----------------------------------------------------------------------------
(* The server of the context and the service.                              *)

\* An answer that nobody waits for is not kept.
Answered(m, status, content) ==
    IF \E a \in Actions : a = m.from /\ m.call = action[a].calls /\ action[a].stage = "sent"
    THEN [m EXCEPT !.at = "answered", !.status = status, !.content = content]
    ELSE Free

\* The peer executes the call the message is for, if that is still the last one.
Executed(m, state) ==
    [a \in Actions |->
        IF m.from # a \/ m.call # action[a].calls THEN executed[a]
        ELSE IF executed[a] \in {"success", "fault"} THEN "twice" ELSE state]

\* The conditions of control_server_handler() before it makes a GUPnPServiceAction
Refusals(m) ==
    CASE m.method # "POST"     -> {501}
      [] m.body = "empty"      -> {400}
      [] ~m.host               -> {412}   \* gupnp_context_validate_host_header()
      [] ~m.soapaction         -> {412}
      [] m.body = "garbage"    -> {400}
      [] m.body = "missing"    -> {412}
      [] OTHER                 -> {}

\* faulty: without a handler nothing is answered
UnhandledPaused(m) ==
    IF service.connected THEN [m EXCEPT !.at = "application"] ELSE [m EXCEPT !.at = "paused"]

\* ... with the end of control_server_handler(): the signal, or error 401
Invoked(m) ==
    IF service.connected THEN [m EXCEPT !.at = "application"] ELSE Answered(m, 500, "fault")

\* query_state_variable() asks the application at once, which knows the variable or
\* not.
QueryStateVariable(m) == {Answered(m, 200, "result"), Answered(m, 500, "fault")}

\* control_server_handler()
Control(s, m) ==
    \/ /\ Refusals(m) # {}
       /\ \E status \in Refusals(m) : msgs' = [msgs EXCEPT ![s] = Answered(m, status, "none")]
       /\ executed' = executed
    \/ /\ Refusals(m) = {} /\ m.body = "query"
       /\ \E reply \in QueryStateVariable(m) : msgs' = [msgs EXCEPT ![s] = reply]
       /\ executed' = executed
    \/ /\ Refusals(m) = {} /\ m.body # "query"
       /\ msgs' = [msgs EXCEPT ![s] = Invoked(m)]
       /\ executed' = Executed(m, IF service.connected THEN "invoked" ELSE "fault")

\* faulty: a refusal of the ACL is only noted
DecidedLate(s, m, allowed) == Control(s, m)

\* The synchronous decision in gupnp_acl_server_handler(), and the end of
\* gupnp_acl_async_callback()
Decided(s, m, allowed) ==
    IF allowed THEN Control(s, [m EXCEPT !.allowed = TRUE])
    ELSE /\ msgs' = [msgs EXCEPT ![s] = Answered(m, 403, "none")]
         /\ executed' = executed

\* gupnp_acl_server_handler(), or 404 from libsoup
Arrive(s) ==
    LET m == msgs[s] IN
    /\ peer = "gupnp" /\ m.at = "network"
    /\ IF ~service.registered
       THEN msgs' = [msgs EXCEPT ![s] = Answered(m, 404, "none")] /\ executed' = executed
       ELSE CASE service.acl = "none" -> Decided(s, m, TRUE)
              [] service.acl = "sync" -> \E allowed \in BOOLEAN : Decided(s, m, allowed)
              [] service.acl = "async" -> /\ msgs' = [msgs EXCEPT ![s].at = "acl"]
                                          /\ executed' = executed
    /\ UNCHANGED <<action, peer, info, service, undefined>>

\* gupnp_acl_async_callback(): the AclServerHandler is freed with the service.
\* What an allowed request leads to then is undefined: here it is never answered,
\* or handled as if the service were there.
AclAnswers(s) ==
    /\ msgs[s].at = "acl"
    /\ \E allowed \in BOOLEAN :
          /\ undefined' = (undefined \/ (allowed /\ ~service.registered))
          /\ \/ Decided(s, msgs[s], allowed)
             \/ /\ allowed /\ ~service.registered
                /\ msgs' = [msgs EXCEPT ![s].at = "undefined"]
                /\ executed' = executed
    /\ UNCHANGED <<action, peer, info, service>>

\* gupnp_service_action_return_success() and _return_error(), which finalize the
\* action; it needs the context, not the service.
ServiceReturns(s) ==
    /\ msgs[s].at = "application"
    /\ \E ok \in BOOLEAN :
          /\ msgs' = [msgs EXCEPT ![s] = IF ok THEN Answered(@, 200, "result")
                                               ELSE Answered(@, 500, "fault")]
          /\ executed' = Executed(msgs[s], IF ok THEN "success" ELSE "fault")
    /\ UNCHANGED <<action, peer, info, service, undefined>>

\* gupnp_service_dispose()
Dispose ==
    /\ service.registered
    /\ service' = [service EXCEPT !.registered = FALSE]
    /\ UNCHANGED <<action, msgs, peer, info, executed, undefined>>

\* gupnp_context_set_acl(), and (dis)connection of action-invoked
Configure ==
    /\ service.registered
    /\ \E connected \in BOOLEAN, acl \in {"none", "sync", "async"} :
          service' = [service EXCEPT !.connected = connected, !.acl = acl]
    /\ UNCHANGED <<action, msgs, peer, info, executed, undefined>>

-----------------------------------------------------------------------------
(* Others.                                                                 *)

\* Another device answers as it likes: it wants M-POST, a password, fails, or
\* executes the call and says so, possibly not in SOAP.
PeerAnswers(s) ==
    LET m == msgs[s] IN
    /\ peer = "other" /\ m.at = "network"
    /\ \/ /\ m.method = "POST"
          /\ msgs' = [msgs EXCEPT ![s] = Answered(m, 405, "none")]
          /\ executed' = executed
       \/ /\ msgs' = [msgs EXCEPT ![s] =
                         IF Authenticates(m) THEN [m EXCEPT !.authenticated = TRUE]
                         ELSE Answered(m, 401, "none")]
          /\ executed' = executed
       \/ \E status \in {405, 501} :
             /\ msgs' = [msgs EXCEPT ![s] = Answered(m, status, "no-soap")]
             /\ executed' = executed
       \/ \E content \in {"result", "garbage", "no-soap"} :
             /\ msgs' = [msgs EXCEPT ![s] = Answered(m, 200, content)]
             /\ executed' = Executed(m, "success")
       \/ \E content \in {"fault", "bad-fault", "garbage"} :
             /\ msgs' = [msgs EXCEPT ![s] = Answered(m, 500, content)]
             /\ executed' = Executed(m, "fault")
    /\ UNCHANGED <<action, peer, info, service, undefined>>

Stranger(s, m) ==
    /\ peer = "gupnp" /\ msgs[s] = Free
    /\ \A t \in Slots : msgs[t] # Free => msgs[t].from # "stranger"
    /\ msgs' = [msgs EXCEPT ![s] = m]
    /\ UNCHANGED <<action, peer, info, service, executed, undefined>>

\* A message nobody waits for any more is lost, or its answer is not read.
Discard(s) ==
    /\ msgs[s].at \in {"network", "answered"}
    /\ \A a \in Actions : action[a].msg # s
    /\ msgs' = [msgs EXCEPT ![s] = Free]
    /\ UNCHANGED <<action, peer, info, service, executed, undefined>>

Next ==
    \/ \E a \in Actions : \/ \E sync \in BOOLEAN : Call(a, sync)
                          \/ TaskReturns(a) \/ GotResponse(a) \/ NetworkError(a)
    \/ \E s \in Slots : \/ Arrive(s) \/ AclAnswers(s) \/ ServiceReturns(s) \/ PeerAnswers(s)
                        \/ Discard(s)
                        \/ \E m \in Strangers : Stranger(s, m)
    \/ Dispose \/ Configure

Spec == Init /\ [][Next]_vars

\* Main loops run; the network delivers what it has, ACL and service answer.
LiveSpec ==
    /\ Spec
    /\ \A a \in Actions : WF_vars(TaskReturns(a)) /\ WF_vars(GotResponse(a))
    /\ \A s \in Slots : WF_vars(Arrive(s) \/ PeerAnswers(s)) /\ WF_vars(AclAnswers(s))
                        /\ WF_vars(ServiceReturns(s))

-----------------------------------------------------------------------------
(* Correctness.                                                            *)

\* What the caller is told happened: a result only of a call the peer carried
\* out and answered with success, an UPnP error only of one it answered with a
\* fault; never of the last call with the same action object.  What is read from
\* the action object after the call is an error exactly if the call failed.
OutcomeIsThePeers ==
    \A a \in Actions :
        /\ action[a].told = "result"  => executed[a] = "success"
        /\ action[a].told = "control" => executed[a] = "fault"
        /\ action[a].stage = "idle" /\ action[a].calls > 0 =>
               (action[a].told = "result" <=> Outcome(CheckResponse(action[a])) = "result")

\* Trying M-POST after POST never carries out the action twice.
ExecutedOnce == \A a \in Actions : executed[a] # "twice"

\* The application of the service sees only requests that name this host, and
\* that the ACL in place when they arrived has let through, late or at once.
OnlyAllowed ==
    \A s \in Slots :
        msgs[s].at = "application" =>
            msgs[s].allowed /\ msgs[s].host /\ msgs[s].method = "POST"

\* An ACL that answers later finds the handler it was asked for; "Closure when
\* doing an async ACL request. Stores everything passed into the server handler"
\* (gupnp-acl-private.h).
AclFindsHandler == ~undefined

\* A paused request is answered, even if the service goes meanwhile, and a call
\* comes to its end if the network and the peer answer, with at most one retry as
\* M-POST and one with credentials.
CallsEnd ==
    /\ \A s \in Slots :
           msgs[s].at \notin {"free", "network", "answered", "undefined"} ~>
               msgs[s].at \in {"free", "answered", "undefined"}
    /\ \A a \in Actions :
           action[a].stage # "idle" ~> (action[a].stage = "idle" \/ undefined)
=============================================================================
