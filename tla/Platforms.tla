----------------------------- MODULE Platforms -----------------------------
(***************************************************************************)
(* gupnp_context_manager_create_full() of gupnp-context-manager.c: the     *)
(* implementation of GUPnPContextManager is chosen when it is created, by  *)
(* what was compiled in and what runs on the system.  The variables belong *)
(* to the implementation that was chosen.                                  *)
(***************************************************************************)
EXTENDS Integers, FiniteSets, Sequences

CONSTANTS
    Links, Addresses, LinkOf, Valid, Broken, MaxNetlink,
    Devices, Wifi, Families, MaxCalls, MaxNMDevices,
    Services, MaxContexts,
    Interfaces, MaxQueue

VARIABLES impl, os, queue, manager, told, disposed

vars == <<impl, os, queue, manager, told, disposed>>

Linux   == INSTANCE LinuxContextManager WITH MaxQueue <- MaxNetlink
NM      == INSTANCE NetworkManager
Connman == INSTANCE ConnmanManager
Simple  == INSTANCE SimpleContextManager

Init ==
    \/ impl = "Linux"          /\ Linux!Init
    \/ impl = "NetworkManager" /\ NM!Init
    \/ impl = "ConnMan"        /\ Connman!Init
    \/ impl = "simple"         /\ Simple!Init

Next ==
    /\ impl' = impl
    /\ \/ impl = "Linux"          /\ Linux!Next
       \/ impl = "NetworkManager" /\ NM!Next
       \/ impl = "ConnMan"        /\ Connman!Next
       \/ impl = "simple"         /\ Simple!Next

-----------------------------------------------------------------------------
(* Correctness of each implementation; the formulas are in its module.     *)

\* The variables have the types of the implementation that was chosen.
TypeOK ==
    CASE impl = "Linux"          -> Linux!TypeOK
      [] impl = "NetworkManager" -> NM!TypeOK
      [] impl = "ConnMan"        -> Connman!TypeOK
      [] impl = "simple"         -> Simple!TypeOK

\* Linux: a context is announced once, and none is left when the manager goes;
\* when the socket is empty, the contexts are what the kernel has.
FollowsTheKernel == impl = "Linux" => Linux!AnnouncedOnce /\ Linux!FollowsTheKernel

\* The contexts that the application knows are held by something that withdraws
\* them.  NetworkManager: by an NMDevice, which has none at rest if it is wired
\* and not activated.  ConnMan: by a service, while it is active.  Unix and
\* Windows: by the manager, until it goes.
ToldIsHeld ==
    CASE impl = "NetworkManager" -> NM!ToldIsHeld /\ NM!WiredFollowsState
      [] impl = "ConnMan"        -> Connman!HeldOnlyWhenActive
      [] impl = "simple"         -> Simple!WithdrawnAtTheEnd
      [] OTHER                   -> TRUE
=============================================================================
