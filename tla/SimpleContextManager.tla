------------------------ MODULE SimpleContextManager ------------------------
(***************************************************************************)
(* src/libgupnp/gupnp-simple-context-manager.c with its Unix and Windows   *)
(* subclasses: a context for each interface that is up when the main loop  *)
(* first runs.  os is the interfaces with their flags; told counts         *)
(* context-available less context-unavailable.                             *)
(***************************************************************************)
EXTENDS Integers, Sequences, Lists

CONSTANT Interfaces

VARIABLES os, queue, manager, told, disposed

vars == <<os, queue, manager, told, disposed>>

Flags == {"IFF_UP", "IFF_POINTOPOINT"}

TypeOK ==
    /\ os \in [Interfaces -> SUBSET Flags]
    /\ manager.idle \in BOOLEAN
    /\ manager.contexts \in Seq(Interfaces)
    /\ told \in [Interfaces -> 0 .. 1]
    /\ disposed \in BOOLEAN

\* schedule_contexts_creation()
Init ==
    /\ os \in [Interfaces -> SUBSET Flags]
    /\ queue = <<>>
    /\ manager = [idle |-> TRUE, contexts |-> <<>>]
    /\ told = [i \in Interfaces |-> 0]
    /\ disposed = FALSE

\* gupnp_unix_context_manager_get_interfaces()
GetInterfaces ==
    {i \in Interfaces : "IFF_UP" \in os[i] /\ "IFF_POINTOPOINT" \notin os[i]}

\* create_contexts(): an interface without an address has no context.
CreateContexts ==
    /\ manager.idle /\ ~disposed
    /\ \E C \in SUBSET GetInterfaces :
          /\ manager' = [idle |-> FALSE, contexts |-> SetToSeq(C)]
          /\ told' = [i \in Interfaces |-> IF i \in C THEN 1 ELSE 0]
    /\ UNCHANGED <<os, queue, disposed>>

\* gupnp_simple_context_manager_dispose(), with destroy_contexts()
Dispose ==
    /\ ~disposed
    /\ disposed' = TRUE
    /\ told' = [i \in Interfaces |-> told[i] - (IF i \in Range(manager.contexts) THEN 1 ELSE 0)]
    /\ manager' = [idle |-> FALSE, contexts |-> <<>>]
    /\ UNCHANGED <<os, queue>>

\* The system changes its interfaces: nothing looks at them again.
InterfaceChange(i, flags) ==
    /\ ~disposed
    /\ os' = [os EXCEPT ![i] = flags]
    /\ UNCHANGED <<queue, manager, told, disposed>>

Next ==
    \/ CreateContexts \/ Dispose
    \/ \E i \in Interfaces, flags \in SUBSET Flags : InterfaceChange(i, flags)

Spec == Init /\ [][Next]_vars

\* What has been announced is withdrawn before the manager is gone.
WithdrawnAtTheEnd == disposed => \A i \in Interfaces : told[i] = 0
=============================================================================
