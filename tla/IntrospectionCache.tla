------------------------- MODULE IntrospectionCache -------------------------
(***************************************************************************)
(* gupnp_service_info_introspect_async() of gupnp-service-info.c: several  *)
(* introspections of a service at a time, and the cached result.           *)
(***************************************************************************)
EXTENDS Integers, FiniteSets

CONSTANTS Tasks

VARIABLES
    tasks,         \* [Tasks -> the GTask: what it waits for, got and returned]
    scpd,          \* what is at the URL of the service description, or "no url"
    introspection  \* the document priv->introspection was made from

vars == <<tasks, scpd, introspection>>

None == "none"
Documents == {"actions", "other actions", "no scpd", "no xml"}
Usable == {"actions", "other actions"}

Task ==
    [stage : {"idle", "downloading", "returning", "returned"}, cancelled : BOOLEAN,
     scpd : Documents \cup {None}, result : Usable \cup {None, "error"}]

TypeOK ==
    /\ tasks \in [Tasks -> Task]
    /\ scpd \in Documents \cup {"no url"}
    /\ introspection \in Usable \cup {None}

Init ==
    /\ tasks = [t \in Tasks |-> [stage |-> "idle", cancelled |-> FALSE,
                                scpd |-> None, result |-> None]]
    /\ scpd \in Documents \cup {"no url"}
    /\ introspection = None

\* gupnp_service_info_introspect_async(): from the cache the result comes at the
\* next turn of the main loop.
IntrospectAsync(t) ==
    /\ tasks[t].stage = "idle"
    /\ tasks' = [tasks EXCEPT ![t] =
            CASE introspection # None -> [@ EXCEPT !.stage = "returning", !.result = introspection]
              [] introspection = None /\ scpd = "no url" ->
                     [@ EXCEPT !.stage = "returning", !.result = "error"]
              [] OTHER -> [@ EXCEPT !.stage = "downloading"]]
    /\ UNCHANGED <<scpd, introspection>>

Cancel(t) ==
    /\ tasks[t].stage \in {"downloading", "returning"} /\ ~tasks[t].cancelled
    /\ tasks' = [tasks EXCEPT ![t].cancelled = TRUE]
    /\ UNCHANGED <<scpd, introspection>>

\* A GTask that was cancelled returns that error.
Returned(t, result) ==
    [tasks EXCEPT ![t].stage = "returned", ![t].result = IF tasks[t].cancelled THEN "error" ELSE result]

\* get_scpd_document_finished() for an error, a bad status, or no XML
DownloadFails(t) ==
    /\ tasks[t].stage = "downloading"
    /\ tasks' = Returned(t, "error")
    /\ UNCHANGED <<scpd, introspection>>

\* ... otherwise: the document that the task got is parsed.
Got(t, result) ==
    [Returned(t, result) EXCEPT ![t].scpd = scpd]

\* faulty: what was cached is not replaced
GotScpdUncached(t) ==
    /\ tasks[t].stage = "downloading" /\ scpd # "no xml"
    /\ tasks' = Got(t, IF scpd \in Usable THEN scpd ELSE "error")
    /\ UNCHANGED <<scpd, introspection>>

\* What was cached is replaced, by nothing if the document has no service
\* description in it.
GotScpd(t) ==
    /\ tasks[t].stage = "downloading" /\ scpd # "no xml"
    /\ introspection' = IF scpd \in Usable THEN scpd ELSE None
    /\ tasks' = Got(t, IF scpd \in Usable THEN scpd ELSE "error")
    /\ UNCHANGED scpd

TaskReturns(t) ==
    /\ tasks[t].stage = "returning"
    /\ tasks' = Returned(t, tasks[t].result)
    /\ UNCHANGED <<scpd, introspection>>

\* The remote service is updated, or its server answers with something else.
ScpdChanges ==
    /\ scpd \in Documents
    /\ scpd' \in Documents \ {scpd}
    /\ UNCHANGED <<tasks, introspection>>

Next ==
    \/ ScpdChanges
    \/ \E t \in Tasks : \/ IntrospectAsync(t) \/ Cancel(t) \/ TaskReturns(t)
                        \/ DownloadFails(t) \/ GotScpd(t)

Spec == Init /\ [][Next]_vars

-----------------------------------------------------------------------------
(* Correctness.                                                            *)

\* Whoever was given an introspection finds one in the cache, however downloads of
\* changing descriptions overlap, are cancelled and fail, ...
IntrospectedForGood ==
    \A t \in Tasks : tasks[t].stage = "returned" /\ tasks[t].result \in Usable
                        => introspection # None

\* ... as long as no task was answered with XML that is no service description:
\* that takes the introspection of the others out of the cache.
StaysIntrospected ==
    (\A t \in Tasks : tasks[t].scpd # "no scpd") => IntrospectedForGood
=============================================================================
