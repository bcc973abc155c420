------------------------------- MODULE Parts -------------------------------
(***************************************************************************)
(* The parts of libgupnp that have no state in common: a behaviour is one  *)
(* of one of them, and the variables of the others are unused.  What each  *)
(* part does, and the formulas it has to satisfy, is in its module.        *)
(***************************************************************************)
EXTENDS Integers, Sequences, FiniteSets

CONSTANTS
    Variables, Callbacks, GType,                               \* NotifyCallbacks
    Tasks,                                                     \* IntrospectionCache
    Locals, AppPaths, Agents, Clients, Languages, Files, Size, \* WebServer
    Requests, UdnOf, DirOf, MaxHosts, MaxRules,
    DeviceDocuments, MaxLevels, Uuids, Number, Begins, Queries, \* Descriptions
    Registered, Classes, IconRequests,
    ServiceDocuments, Bits, Width, LongWidth, Numbers, Words,  \* ServiceDescription
    Symbols, UserData, MaxAutoconnects, CamelNames,
    Bytes, Length, Hosts, Ports,                               \* HostAddresses
    Contexts, Entries, Names, MaxBootId,                       \* ContextManager
    RootDevices,                                               \* ... and WebServer
    Links, Addresses, LinkOf, Valid, Broken, MaxNetlink,       \* Platforms
    Devices, Wifi, Families, MaxCalls, MaxNMDevices,
    Services, MaxContexts, Interfaces, MaxQueue

ASSUME PartsAssumption ==
    /\ "none" \notin Callbacks
    /\ Names \in [Contexts -> SUBSET Entries]
    /\ LinkOf \in [Addresses -> Links]
    /\ Valid \subseteq Links /\ Broken \subseteq Addresses
    /\ IsFiniteSet(Links) /\ IsFiniteSet(Addresses) /\ IsFiniteSet(Interfaces)
    /\ IsFiniteSet(Devices) /\ IsFiniteSet(Services) /\ "lo" \notin Services
    /\ Wifi \subseteq Devices /\ Families # {} /\ Interfaces # {}
    /\ {MaxHosts, MaxRules, MaxLevels, MaxAutoconnects, MaxBootId, MaxNetlink, MaxCalls,
        MaxNMDevices, MaxContexts, MaxQueue} \subseteq Nat
    /\ {Size, Width, LongWidth, Length} \subseteq Nat \ {0}
    /\ Bytes \subseteq 0 .. 255
    /\ IsFiniteSet(DOMAIN Files)

VARIABLES
    part,
    callbacks, next_emit, emission, undefined,
    tasks, introspection,
    scpd,                      \* IntrospectionCache and ServiceDescription
    listening, datas, host_path_datas, handlers, default_language, user_agents,
    available,
    answer,                    \* WebServer to HostAddresses
    doc, side, root_alive, types,
    state, pending_autoconnect, connected, state_variables, autoconnects,
    up, contexts, objects, root_devices, filtered, referenced, entries, enabled,
    active, withdrawn, boot_id, client_boot,
    told,                      \* ContextManager and Platforms
    impl, os, queue, manager, disposed

nvars == <<callbacks, next_emit, emission, undefined>>
ivars == <<tasks, introspection>>
wvars == <<listening, datas, host_path_datas, handlers, default_language, user_agents,
           available>>
dvars == <<doc, side, root_alive, types>>
svars == <<state, pending_autoconnect, connected, state_variables, autoconnects>>
cvars == <<up, contexts, objects, root_devices, filtered, referenced, entries, enabled,
           active, withdrawn, boot_id, client_boot>>
pvars == <<impl, os, queue, manager, disposed>>

vars == <<part, nvars, ivars, scpd, wvars, answer, dvars, svars, cvars, told, pvars>>

N == INSTANCE NotifyCallbacks
I == INSTANCE IntrospectionCache
W == INSTANCE WebServer
D == INSTANCE Descriptions WITH Documents <- DeviceDocuments
S == INSTANCE ServiceDescription WITH Documents <- ServiceDocuments,
                                      MaxCalls <- MaxAutoconnects
H == INSTANCE HostAddresses
C == INSTANCE ContextManager
P == INSTANCE Platforms

\* Clients make well-formed requests, and an application does not host anything at the
\* location of a root device.
ASSUME WebAssumption ==
    /\ \A r \in Requests : W!RequestOK(r)
    /\ RootDevices \subseteq STRING /\ UdnOf \in [RootDevices -> STRING]
    /\ Locals \cup AppPaths \cup {DirOf[d] : d \in RootDevices} \subseteq Seq(STRING)
    /\ \A d \in RootDevices : <<UdnOf[d]>> \notin AppPaths

\* Service descriptions have elements of these kinds, names are lists of characters.
ASSUME ServiceAssumption ==
    /\ \A document \in ServiceDocuments : S!IsDescription(document)
    /\ CamelNames \subseteq Seq({"U", "l", "_"})

\* Device descriptions too; types that are asked for and registered are types, and there
\* is no number in an empty segment.
ASSUME DescriptionAssumption ==
    /\ \A document \in DeviceDocuments : \A el \in D!AllDevices(document) : D!IsElement(el)
    /\ Queries \subseteq D!Types /\ Registered \subseteq D!Types \ {<<>>}
    /\ Number \in [DOMAIN Number -> Int] /\ "" \notin DOMAIN Number
    /\ \A q \in IconRequests : q.depth \in Int

-----------------------------------------------------------------------------
Unused == "unused"

NUnused == callbacks = Unused /\ next_emit = Unused /\ emission = Unused /\ undefined = Unused
IUnused == tasks = Unused /\ introspection = Unused
WUnused ==
    /\ listening = Unused /\ datas = Unused /\ host_path_datas = Unused
    /\ handlers = Unused /\ default_language = Unused /\ user_agents = Unused
    /\ available = Unused
DUnused == doc = Unused /\ side = Unused /\ root_alive = Unused /\ types = Unused
SUnused ==
    /\ state = Unused /\ pending_autoconnect = Unused /\ connected = Unused
    /\ state_variables = Unused /\ autoconnects = Unused
CUnused ==
    /\ up = Unused /\ contexts = Unused /\ objects = Unused /\ root_devices = Unused
    /\ filtered = Unused /\ referenced = Unused /\ entries = Unused /\ enabled = Unused
    /\ active = Unused /\ withdrawn = Unused /\ boot_id = Unused /\ client_boot = Unused
PUnused ==
    impl = Unused /\ os = Unused /\ queue = Unused /\ manager = Unused /\ disposed = Unused

Init ==
    /\ part \in {"notify", "introspection", "web", "descriptions", "service description",
                 "addresses", "contexts", "platforms"}
    /\ IF part = "notify" THEN N!Init ELSE NUnused
    /\ IF part = "introspection" THEN I!Init ELSE IUnused
    /\ IF part = "web" THEN W!Init ELSE WUnused
    /\ IF part = "descriptions" THEN D!Init ELSE DUnused
    /\ IF part = "service description" THEN S!Init ELSE SUnused
    /\ part = "addresses" => H!Init
    /\ IF part = "contexts" THEN C!Init ELSE CUnused
    /\ IF part = "platforms" THEN P!Init ELSE PUnused
    /\ part \notin {"introspection", "service description"} => scpd = Unused
    /\ part \notin {"web", "descriptions", "service description", "addresses"} => answer = Unused
    /\ part \notin {"contexts", "platforms"} => told = Unused

NStep == part = "notify" /\ N!Next
         /\ UNCHANGED <<part, ivars, scpd, wvars, answer, dvars, svars, cvars, told, pvars>>
IStep == part = "introspection" /\ I!Next
         /\ UNCHANGED <<part, nvars, wvars, answer, dvars, svars, cvars, told, pvars>>
WStep == part = "web" /\ W!Next
         /\ UNCHANGED <<part, nvars, ivars, scpd, dvars, svars, cvars, told, pvars>>
DStep == part = "descriptions" /\ D!Next
         /\ UNCHANGED <<part, nvars, ivars, scpd, wvars, svars, cvars, told, pvars>>
SStep == part = "service description" /\ S!Next
         /\ UNCHANGED <<part, nvars, ivars, wvars, dvars, cvars, told, pvars>>
HStep == part = "addresses" /\ H!Next
         /\ UNCHANGED <<part, nvars, ivars, scpd, wvars, dvars, svars, cvars, told, pvars>>
CStep == part = "contexts" /\ C!Next
         /\ UNCHANGED <<part, nvars, ivars, scpd, wvars, answer, dvars, svars, pvars>>
PStep == part = "platforms" /\ P!Next
         /\ UNCHANGED <<part, nvars, ivars, scpd, wvars, answer, dvars, svars, cvars>>

Next == NStep \/ IStep \/ WStep \/ DStep \/ SStep \/ HStep \/ CStep \/ PStep

Spec == Init /\ [][Next]_vars

-----------------------------------------------------------------------------
(* Correctness.                                                            *)

\* The variables of each part have their types.
TypeOK ==
    CASE part = "notify"              -> N!TypeOK
      [] part = "introspection"       -> I!TypeOK
      [] part = "web"                 -> W!TypeOK
      [] part = "descriptions"        -> D!TypeOK
      [] part = "service description" -> S!TypeOK
      [] part = "addresses"           -> H!TypeOK
      [] part = "contexts"            -> C!TypeOK
      [] part = "platforms"           -> P!TypeOK

\* An event reaches the notify callbacks that are there for it, whatever they add
\* and remove, and no others.
NotifyReaches == 
    [][part = "notify" => /\ N!NextEmitIsListed
                          /\ N!AllAreCalled /\ N!OnlyListedAreCalled]_vars

\* A service stays introspected, however downloads overlap and fail.
StaysIntrospected == part = "introspection" => I!StaysIntrospected

\* The HTTP server: handlers work on data that is there, descriptions are served at
\* their locations, and each client gets the files for its agent.
FilesServed ==
    part = "web" => W!HandlerIsListed /\ W!DescriptionServed /\ W!AgentsGetTheirFiles

\* Of the languages that a client accepts, it gets one that there is a file for.
VariantIsFound == part = "web" => W!VariantIsFound

\* Icons, services and devices that are returned satisfy the request, and are of the
\* class that was registered for them.
ResourcesFound ==
    part = "descriptions" => D!GetAgreesWithList /\ D!MostSpecificClass /\ D!IconSuits

\* What a description has is announced for it and found in it.
AnnouncementsFound == part = "descriptions" => D!AnnouncedIsFound /\ D!ReachedIsAnnounced

\* Handlers found by name are connected once and in order, and names are found.
HandlersConnected ==
    part = "service description" => S!ConnectedInOrder /\ S!LookupAgrees /\ S!StripFits

\* The introspection says of values what the service description does.
IntrospectionHolds == part = "service description" => S!RoundTrip /\ S!LimitsAsDescribed

\* Masks, URIs and Host headers name the network and the host they should.
AddressesUsable ==
    part = "addresses" => H!MaskIsNetwork /\ H!RewrittenIsUsable /\ H!HostIsOurs

\* The application is told of the contexts that the filter lets through, ...
ToldMatches == part = "contexts" => C!ToldMatches

\* ... and nothing is sent on the others.
FilteredIsSilent == part = "contexts" => C!FilteredIsSilent

\* Linux: contexts follow what the kernel reports.
FollowsTheKernel == part = "platforms" => P!FollowsTheKernel

\* The other platforms: what the application knows will be withdrawn.
ToldIsHeld == part = "platforms" => P!ToldIsHeld

\* On every platform: the contexts that the application knows are those the system
\* has, or are held by what will withdraw them.
FollowsTheSystem == FollowsTheKernel /\ ToldIsHeld

\* What is looked for is found, and what is converted keeps its meaning: a variant of
\* a file, the devices and services of a USN, values and limits.
AnswersHold == VariantIsFound /\ AnnouncementsFound /\ IntrospectionHolds
=============================================================================
