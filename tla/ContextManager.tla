--------------------------- MODULE ContextManager ---------------------------
(***************************************************************************)
(* The platform independent part of src/libgupnp/gupnp-context-manager.c:  *)
(* contexts that come and go, the filter in front of them, the objects the *)
(* manager keeps for the application, and the boot ids of root devices.    *)
(*                                                                         *)
(* What announces a context is the subclass for the platform (see          *)
(* Platforms).  That for Linux keeps the contexts of a link that goes down *)
(* and announces the same ones when it is up again; the others, and Linux  *)
(* when the address goes, drop a context that they have withdrawn.  The    *)
(* application has a reference to a root device only through the manager,  *)
(* and hands it over while it sees the context as available.  UDA 1.1.     *)
(*                                                                         *)
(* Definitions marked "faulty" are the code with a mistake in it: they are *)
(* part of no specification, and the properties are tried against them.    *)
(***************************************************************************)
EXTENDS Integers, Sequences, FiniteSets, Lists

CONSTANTS
    Contexts,
    Entries,      \* what may be in the filter
    Names,        \* the entries each context matches: interface, IP and network
    RootDevices,  \* objects for gupnp_context_manager_manage_root_device()
    MaxBootId     \* bound: boot ids

VARIABLES
    up,           \* contexts the subclass has announced and not withdrawn
    contexts,     \* priv->contexts: the keys,
    objects,      \* ... and the objects managed for each context
    root_devices, \* priv->root_devices
    filtered,     \* priv->filtered
    referenced,   \* contexts of that list it took a reference to
    entries,      \* the entries of the filter
    enabled,      \* the filter is enabled
    active,       \* contexts with the property "active": a new one has it
    withdrawn,    \* contexts the subclass has withdrawn and still has
    told,         \* context-available less context-unavailable, as the application sees them
    boot_id,      \* priv->boot_id, counted from the start
    client_boot   \* the boot id of each context

vars == <<up, contexts, objects, root_devices, filtered, referenced, entries,
          enabled, active, withdrawn, told, boot_id, client_boot>>
filter   == <<entries, enabled>>
boots    == <<boot_id, client_boot>>

TypeOK ==
    /\ up \subseteq Contexts
    /\ contexts \subseteq Contexts
    /\ objects \in [Contexts -> Seq(RootDevices)]
    /\ root_devices \in Seq(RootDevices)
    /\ filtered \subseteq contexts
    /\ referenced \subseteq filtered
    /\ entries \subseteq Entries
    /\ enabled \in BOOLEAN
    /\ active \subseteq Contexts
    /\ withdrawn \subseteq Contexts \ up
    /\ told \in [Contexts -> 0 .. 1]
    /\ boot_id \in Nat
    /\ client_boot \in [Contexts -> Nat]

Init ==
    /\ up = {}
    /\ contexts = {}
    /\ objects = [c \in Contexts |-> <<>>]
    /\ root_devices = <<>>
    /\ filtered = {}
    /\ referenced = {}
    /\ entries = {}
    /\ enabled = FALSE
    /\ active = Contexts
    /\ withdrawn = {}
    /\ told = [c \in Contexts |-> 0]
    /\ boot_id = 0
    /\ client_boot = [c \in Contexts |-> 0]

-----------------------------------------------------------------------------
(* Helpers of the handlers.                                                *)

\* gupnp_context_filter_check_context()
CheckContext(E, c) == Names[c] \cap E # {}

\* context_filtered() for a filter with the entries E that is on or off
ContextFiltered(E, on, c) == E # {} /\ on /\ ~CheckContext(E, c)

ContextOf(d) == CHOOSE c \in Contexts : \E i \in DOMAIN objects[c] : objects[c][i] = d

\* g_ptr_array_remove_fast(): the last element takes the place.
RemoveFast(array, d) ==
    [i \in 1 .. Len(array) - 1 |-> IF array[i] = d THEN array[Len(array)] ELSE array[i]]

\* ... once for each of the devices, in their order
Removed(array, devices) ==
    LET after[n \in 0 .. Len(devices)] ==
            IF n = 0 THEN array ELSE RemoveFast(after[n - 1], devices[n])
    IN after[Len(devices)]

\* faulty: the devices of the array are forgotten, not the objects
DropObjectsLate(c) ==
    /\ objects' = objects
    /\ root_devices' = Removed(root_devices, objects[c])

\* The objects of c are dropped.  Nobody else has them, so they are finalized
\* and leave the array of root devices one after the other.
DropObjects(c) ==
    /\ objects' = [objects EXCEPT ![c] = <<>>]
    /\ root_devices' = Removed(root_devices, objects[c])

\* do_boot_id_update_for_root_devices() for the array devices: each updates its
\* client to the next boot id; the manager keeps what the last one has got.
Updated(client, devices) ==
    [c \in Contexts |->
        client[c] + Cardinality({i \in DOMAIN devices : ContextOf(devices[i]) = c})]

BootIdUpdate(id, client, devices) ==
    IF devices = <<>> THEN id ELSE Updated(client, devices)[ContextOf(Last(devices))]

\* ... and gssdp_client_set_boot_id() for the context c, as on_context_available()
Announce(boot, c) ==
    LET id == BootIdUpdate(boot.id, boot.client, root_devices) IN
    [id |-> id, client |-> [Updated(boot.client, root_devices) EXCEPT ![c] = id]]

AnnouncedInOrder(order) ==
    LET after[n \in 0 .. Len(order)] ==
            IF n = 0 THEN [id |-> boot_id, client |-> client_boot]
                     ELSE Announce(after[n - 1], order[n])
    IN after[Len(order)]

-----------------------------------------------------------------------------
(* Signals of the subclass.                                                *)

\* on_context_available() for a context that the filter blocks
ContextBlocked(c) ==
    /\ c \notin up
    /\ ContextFiltered(entries, enabled, c)
    /\ up' = up \cup {c}
    /\ contexts' = contexts \cup {c}
    /\ filtered' = filtered \cup {c}
    /\ referenced' = referenced \cup {c}
    /\ active' = active \ {c}
    /\ withdrawn' = withdrawn \ {c}
    /\ UNCHANGED <<objects, root_devices, filter, told, boots>>

\* on_context_available() otherwise: the new client gets the new boot id.  A
\* context that was announced before is as inactive as it was left.
ContextAvailable(c) ==
    /\ c \notin up
    /\ ~ContextFiltered(entries, enabled, c)
    /\ up' = up \cup {c}
    /\ contexts' = contexts \cup {c}
    /\ withdrawn' = withdrawn \ {c}
    /\ LET after == Announce([id |-> boot_id, client |-> client_boot], c) IN
       /\ after.id <= MaxBootId
       /\ boot_id' = after.id
       /\ client_boot' = after.client
    /\ told' = [told EXCEPT ![c] = @ + 1]
    /\ UNCHANGED <<objects, root_devices, filtered, referenced, filter, active>>

\* faulty: a context that went while it was blocked stays in the list
BlockedForgotten(c) ==
    /\ c \in up \cap filtered
    /\ up' = up \ {c}
    /\ withdrawn' = withdrawn \cup {c}
    /\ active' = active \ {c}
    /\ contexts' = contexts \ {c}
    /\ DropObjects(c)
    /\ UNCHANGED <<filtered, referenced, filter, told, boots>>

\* on_context_unavailable() for a context of the filtered list
BlockedUnavailable(c) ==
    /\ c \in up \cap filtered
    /\ up' = up \ {c}
    /\ withdrawn' = withdrawn \cup {c}
    /\ active' = active \ {c}
    /\ filtered' = filtered \ {c}
    /\ referenced' = referenced \ {c}
    /\ contexts' = contexts \ {c}
    /\ DropObjects(c)
    /\ UNCHANGED <<filter, told, boots>>

\* faulty: a context that goes is left active
LeftActive(c) ==
    /\ c \in up \ filtered
    /\ up' = up \ {c}
    /\ withdrawn' = withdrawn \cup {c}
    /\ contexts' = contexts \ {c}
    /\ DropObjects(c)
    /\ told' = [told EXCEPT ![c] = @ - 1]
    /\ UNCHANGED <<filtered, referenced, filter, active, boots>>

\* on_context_unavailable() for one the application knows
ContextUnavailable(c) ==
    /\ c \in up \ filtered
    /\ up' = up \ {c}
    /\ withdrawn' = withdrawn \cup {c}
    /\ active' = active \ {c}
    /\ contexts' = contexts \ {c}
    /\ DropObjects(c)
    /\ boot_id' = BootIdUpdate(boot_id, client_boot, root_devices')
    /\ boot_id' <= MaxBootId
    /\ client_boot' = Updated(client_boot, root_devices')
    /\ told' = [told EXCEPT ![c] = @ - 1]
    /\ UNCHANGED <<filtered, referenced, filter>>

\* The subclass drops a context it has withdrawn.  When there is another for its
\* address or interface, that is a new object.
Dropped(c) ==
    /\ c \in withdrawn
    /\ withdrawn' = withdrawn \ {c}
    /\ active' = active \cup {c}
    /\ UNCHANGED <<up, contexts, objects, root_devices, filtered, referenced, filter, told, boots>>

-----------------------------------------------------------------------------
(* The application edits the filter.                                       *)

NewlyBlocked(E) == {c \in contexts \ filtered : ContextFiltered(E, TRUE, c)}

OnlyBlocks(E) == {}           \* faulty: a change of the entries lets nothing through

NewlyPassing(E) == {c \in filtered : ~ContextFiltered(E, TRUE, c)}

\* The objects of the contexts C are dropped in the order of the hash table.
RemovedInOrder(order) ==
    LET after[n \in 0 .. Len(order)] ==
            IF n = 0 THEN root_devices ELSE Removed(after[n - 1], objects[order[n]])
    IN after[Len(order)]

DropAll(C) ==
    /\ objects' = [c \in Contexts |-> IF c \in C THEN <<>> ELSE objects[c]]
    /\ \E order \in SetToSeqs(C) : root_devices' = RemovedInOrder(order)

\* on_context_filter_change_cb(): its signals are synthesized, so the manager's
\* own handlers return at once.  Contexts join the list without a reference, and
\* leave it without giving one back.
EntriesChanged(E) ==
    LET blocked == NewlyBlocked(E)
        passing == NewlyPassing(E)
    IN
    IF ~enabled THEN UNCHANGED <<filtered, referenced, active, told, objects, root_devices>>
    ELSE
    /\ filtered' = (filtered \cup blocked) \ passing
    /\ referenced' = referenced \ passing
    /\ active' = (active \cup passing) \ blocked
    /\ told' = [c \in Contexts |-> told[c] + (IF c \in passing THEN 1 ELSE 0)
                                           - (IF c \in blocked THEN 1 ELSE 0)]
    /\ DropAll(blocked)

Edited(E) ==
    /\ entries' = E
    /\ EntriesChanged(E)
    /\ UNCHANGED <<up, contexts, enabled, withdrawn, boots>>

\* gupnp_context_filter_add_entryv(), and _add_entry() with one entry
AddEntries(E) == ~(E \subseteq entries) /\ Edited(entries \cup E)
RemoveEntry(e) == e \in entries /\ Edited(entries \ {e})
Clear == entries # {} /\ Edited({})

\* gupnp_context_filter_set_enabled(TRUE), and on_context_filter_enabled_cb()
Enable ==
    LET blocked == {c \in contexts : ContextFiltered(entries, TRUE, c)} IN
    /\ ~enabled
    /\ enabled' = TRUE
    /\ filtered' = filtered \cup blocked
    /\ active' = active \ blocked
    /\ told' = [c \in Contexts |-> told[c] - (IF c \in blocked THEN 1 ELSE 0)]
    /\ DropAll(blocked)
    /\ UNCHANGED <<up, contexts, referenced, entries, withdrawn, boots>>

\* ... with FALSE: the signals are like those of the subclass, so each context
\* costs the root devices a boot id and starts with the last of them.
Disable ==
    /\ enabled
    /\ enabled' = FALSE
    /\ filtered' = {}
    /\ referenced' = {}
    /\ active' = active \cup filtered
    /\ told' = [c \in Contexts |-> told[c] + (IF c \in filtered THEN 1 ELSE 0)]
    /\ \E order \in SetToSeqs(filtered) :
          LET after == AnnouncedInOrder(order) IN
          /\ after.id <= MaxBootId
          /\ boot_id' = after.id
          /\ client_boot' = after.client
    /\ UNCHANGED <<up, contexts, objects, root_devices, entries, withdrawn>>

\* gupnp_context_manager_manage_root_device()
ManageRootDevice(c, d) ==
    /\ told[c] = 1
    /\ \A i \in DOMAIN root_devices : root_devices[i] # d
    /\ objects' = [objects EXCEPT ![c] = Append(@, d)]
    /\ root_devices' = Append(root_devices, d)
    /\ UNCHANGED <<up, contexts, filtered, referenced, filter, active, withdrawn, told, boots>>

Next ==
    \/ \E c \in Contexts : \/ ContextBlocked(c) \/ ContextAvailable(c)
                           \/ BlockedUnavailable(c) \/ ContextUnavailable(c)
                           \/ Dropped(c)
                           \/ \E d \in RootDevices : ManageRootDevice(c, d)
    \/ \E E \in SUBSET Entries : AddEntries(E)
    \/ \E e \in Entries : RemoveEntry(e)
    \/ Clear \/ Enable \/ Disable

Spec == Init /\ [][Next]_vars

-----------------------------------------------------------------------------
(* Correctness.                                                            *)

\* The application has been told of a context, with context-available and
\* context-unavailable in turn, exactly if the platform has announced it and
\* the filter of now lets it through: it is disabled or empty, or has one of the
\* names of the context.
ToldMatches ==
    \A c \in Contexts :
        LET passes == ~enabled \/ entries = {} \/ entries \cap Names[c] # {}
        IN told[c] = IF c \in up /\ passes THEN 1 ELSE 0

\* Nothing is sent on a network the application should not use: a context that is
\* blocked, or was withdrawn and is kept, is not active.  Nor does the manager
\* keep objects for one; the array the boot ids are handed out by has exactly the
\* root devices of the contexts in use.
FilteredIsSilent ==
    /\ \A c \in up \cup withdrawn : told[c] # 1 => c \notin active
    /\ \A c \in Contexts : told[c] # 1 => objects[c] = <<>>
    /\ Range(root_devices) = UNION {Range(objects[c]) : c \in Contexts}

\* A context that the application is told of can be used: "Signals the
\* availability of new #GUPnPContext".  The code does not keep this for a context
\* that the subclass announces again: on_context_unavailable() makes it inactive,
\* and on_context_available() leaves it so.
ToldIsActive == \A c \in Contexts : told[c] = 1 => c \in active

\* The list of filtered contexts has a reference to each member, so that the
\* g_object_unref() in on_context_unavailable() drops one that was taken (line
\* 271 speaks of "the reference from the filter list").
FilterHoldsReferences == referenced = filtered
=============================================================================
