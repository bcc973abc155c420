-------------------------- MODULE NotifyCallbacks --------------------------
(***************************************************************************)
(* The notify callbacks of a GUPnPServiceProxy (gupnp-service-proxy.c):    *)
(* lists that the application changes at any time, also from a callback,   *)
(* while an event is handed to them.  A callback, with its user data, is   *)
(* in the list of a variable at most once.                                 *)
(***************************************************************************)
EXTENDS Integers, Sequences, FiniteSets, Lists

CONSTANTS
    Variables,  \* variables of the service, not "*"
    Callbacks,
    GType       \* the type each callback is added with, except for "*"

VARIABLES
    callbacks,  \* the list of each variable; <<>> where there is no NotifyData
    next_emit,  \* the callback next_emit of the NotifyData points at
    emission,   \* the callback that runs, of which list, and how it got there
    undefined   \* freed memory was read

vars == <<callbacks, next_emit, emission, undefined>>

Watchable == Variables \cup {"*"}
None == "none"

\* live: the NotifyData is there; here: so is the list node of the callback
Idle == [at |-> None]
Emission ==
    [at : Callbacks, variable : Watchable, live : BOOLEAN, here : BOOLEAN,
     stayed : SUBSET Callbacks, called : SUBSET Callbacks]

TypeOK ==
    /\ callbacks \in [Watchable -> Seq(Callbacks)]
    /\ \A v \in Watchable : IsInjective(callbacks[v])
    /\ next_emit \in [Watchable -> Callbacks \cup {None}]
    /\ emission \in Emission \cup {Idle}
    /\ undefined \in BOOLEAN

Init ==
    /\ callbacks = [v \in Watchable |-> <<>>]
    /\ next_emit = [v \in Watchable |-> None]
    /\ emission = Idle
    /\ undefined = FALSE

-----------------------------------------------------------------------------

Listed(v) == Range(callbacks[v])

\* The list node of a callback, and what l->next has.
Node(v, c) == CHOOSE i \in DOMAIN callbacks[v] : callbacks[v][i] = c
After(v, c) ==
    IF Node(v, c) < Len(callbacks[v]) THEN callbacks[v][Node(v, c) + 1] ELSE None

TypeMatches(v, c) == v # "*" => \A d \in Listed(v) : GType[d] = GType[c]

\* gupnp_service_proxy_add_notify_full() and _add_raw_notify()
AddNotify(v, c) ==
    /\ c \notin Listed(v)
    /\ TypeMatches(v, c)
    /\ callbacks' = [callbacks EXCEPT ![v] = Append(@, c)]
    /\ next_emit' = [next_emit EXCEPT ![v] = IF @ = None THEN c ELSE @]
    /\ UNCHANGED <<emission, undefined>>

\* faulty: next_emit stays where it was
NextAfterRemovalKept(v, c) == next_emit[v]

NextAfterRemoval(v, c) == IF next_emit[v] = c THEN After(v, c) ELSE next_emit[v]

\* gupnp_service_proxy_remove_notify() and _remove_raw_notify(): with the last
\* callback the NotifyData is freed.
RemoveNotify(v, c) ==
    /\ c \in Listed(v)
    /\ callbacks' = [callbacks EXCEPT ![v] = RemoveAt(@, Node(v, c))]
    /\ next_emit' = [next_emit EXCEPT ![v] = NextAfterRemoval(v, c)]
    /\ emission' = IF emission = Idle \/ emission.variable # v THEN emission
                   ELSE [emission EXCEPT !.live   = @ /\ callbacks[v] # <<c>>,
                                         !.here   = @ /\ emission.at # c,
                                         !.stayed = @ \ {c},
                                         !.called = @ \ {c}]
    /\ undefined' = undefined

First(v) == Head(callbacks[v])

\* emit_notification() for a property of an event, once it has been converted to
\* the type, and the end of emit_notifications_for_doc() for "*"
EmitNotification(v) ==
    /\ emission = Idle
    /\ callbacks[v] # <<>>
    /\ emission' = [at |-> First(v), variable |-> v, live |-> TRUE, here |-> TRUE,
                    stayed |-> Listed(v), called |-> {First(v)}]
    /\ next_emit' = IF v = "*" THEN next_emit
                    ELSE [next_emit EXCEPT ![v] = After(v, First(v))]
    /\ UNCHANGED <<callbacks, undefined>>

Continue(v, c) ==
    IF c = None THEN Idle
    ELSE [emission EXCEPT !.at = c, !.here = TRUE, !.called = @ \cup {c}]

\* A callback returns to the loop of emit_notification(), which goes on at
\* next_emit of the NotifyData it has found before.
Returns ==
    LET v == emission.variable IN
    /\ emission # Idle /\ emission.variable # "*"
    /\ IF emission.live
       THEN /\ emission' = Continue(v, next_emit[v])
            /\ next_emit' = IF next_emit[v] = None THEN next_emit
                            ELSE [next_emit EXCEPT ![v] = After(v, next_emit[v])]
            /\ undefined' = undefined
       ELSE emission' = Idle /\ next_emit' = next_emit /\ undefined' = TRUE
    /\ callbacks' = callbacks

\* ... or to the loop of emit_notifications_for_doc(), which goes on after the
\* list node of the callback.
RawReturns ==
    /\ emission # Idle /\ emission.variable = "*"
    /\ IF emission.here
       THEN emission' = Continue("*", After("*", emission.at)) /\ undefined' = undefined
       ELSE emission' = Idle /\ undefined' = TRUE
    /\ UNCHANGED <<callbacks, next_emit>>

Next ==
    \/ Returns \/ RawReturns
    \/ \E v \in Watchable : \/ EmitNotification(v)
                        \/ \E c \in Callbacks : AddNotify(v, c) \/ RemoveNotify(v, c)

Spec == Init /\ [][Next]_vars

-----------------------------------------------------------------------------
(* Correctness.                                                            *)

\* next_emit never points at a list node that was freed, whatever callbacks add
\* and remove.
NextEmitIsListed == \A v \in Watchable : next_emit[v] # None => next_emit[v] \in Listed(v)

\* An event reaches every callback that was there from its start to its end, if
\* no freed memory is read on the way.
AllAreCalled ==
    emission # Idle /\ emission' = Idle /\ ~undefined' =>
        emission.stayed \subseteq emission.called

\* A callback that was removed is not called any more, and none is called twice
\* unless it was added again.
OnlyListedAreCalled ==
    emission' # Idle /\ (emission = Idle \/ emission'.at # emission.at) =>
        /\ emission'.at \in Listed(emission'.variable)
        /\ emission # Idle => emission'.at \notin emission.called

\* "Note that data->next_emit may change if callback calls remove_notify() or
\* add_notify()" (line 829 of gupnp-service-proxy.c): callbacks may do so.
CallbacksMayRemove == ~undefined
=============================================================================
