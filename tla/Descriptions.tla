---------------------------- MODULE Descriptions ----------------------------
(***************************************************************************)
(* What is read from a device description: the devices, services and icons *)
(* of a GUPnPDeviceInfo (gupnp-device-info.c), the classes that the        *)
(* GUPnPResourceFactory creates for them (gupnp-resource-factory.c), the   *)
(* resources a root device announces (gupnp-root-device.c) and what a      *)
(* control point finds for a USN (gupnp-control-point.c).                  *)
(*                                                                         *)
(* A device element is a record of its UDN ("": absent), deviceType,       *)
(* serviceList (serviceTypes), deviceList and iconList.  A type or USN is  *)
(* the sequence of what is between its colons; <<>> is a missing one.      *)
(***************************************************************************)
EXTENDS Integers, Sequences, FiniteSets, Lists

CONSTANTS
    Documents,    \* the "device" elements below "root"
    MaxLevels,    \* bound: levels of embedded devices in them
    Uuids,        \* UDNs that begin with "uuid:"
    Number,       \* atoi() of a segment of a type, a function; 0 if not here
    Begins,       \* pairs of segments the first of which begins with the second
    Queries,      \* types applications ask for
    Registered,   \* types applications register a class for
    Classes,
    IconRequests

VARIABLES
    doc,          \* the description
    side,         \* "proxy" or "local": GUPnPDeviceProxy or GUPnPDevice
    root_alive,   \* root_device of the embedded devices: a weak pointer
    types,        \* the factory's table for the side: type -> class
    answer        \* the last call and what it returned

vars == <<doc, side, root_alive, types, answer>>

NoAnswer == [call |-> "none"]
Null == [class |-> "NULL"]

\* The elements that are n levels below el, and all of them.
Level(el, n) ==
    LET at[m \in Nat] == IF m = 0 THEN {el} ELSE UNION {Range(d.devices) : d \in at[m - 1]}
    IN at[n]
AllDevices(el) == UNION {Level(el, n) : n \in 0 .. MaxLevels}

\* What an element has
Types == Seq(STRING)
Icons == [mime : STRING, width : Int, height : Int, depth : Int]
IsElement(el) ==
    /\ el.services \in Seq(Types) /\ el.icons \in Seq(Icons)
    /\ el.devices \in Seq(Range(el.devices)) /\ \A d \in Range(el.devices) : d.type \in Types

Init ==
    /\ doc \in Documents
    /\ side \in {"proxy", "local"}
    /\ root_alive = TRUE
    /\ types = <<>>
    /\ answer = NoAnswer

-----------------------------------------------------------------------------
(* Types                                                                   *)

Atoi(segment) == IF segment \in DOMAIN Number THEN Number[segment] ELSE 0

\* A faulty variant: an older device is taken for a newer one.
MatchReversed(query, base) ==
    LET n == Len(base) - 1
    IN /\ n > 0 /\ Len(query) >= n /\ SubSeq(query, 1, n) = Front(base)
       /\ Len(query) = n \/ Atoi(query[n + 1]) >= Atoi(base[n + 1])

\* resource_type_match(): where the version of base is empty, nothing is asked of
\* what follows the other parts of base in the query.
ResourceTypeMatch(query, base) ==
    IF Len(base) = 1 THEN query = base
    ELSE LET n == Len(base) - 1
         IN \/ /\ Len(query) >= n /\ SubSeq(query, 1, n) = Front(base)
               /\ \/ base[n + 1] = ""
                  \/ Len(query) = n \/ query[n + 1] = ""
                  \/ Atoi(query[n + 1]) <= Atoi(base[n + 1])
            \/ /\ base[n + 1] = ""
               /\ Len(query) >= n /\ SubSeq(query, 1, n - 1) = SubSeq(base, 1, n - 1)
               /\ <<query[n], base[n]>> \in Begins

\* A faulty variant: only the version that was searched for.
CompareExact(searched, current) == Len(searched) > 1 /\ searched = current

\* compare_service_types_versioned()
CompareServiceTypesVersioned(searched, current) ==
    /\ Len(searched) > 1 /\ Len(current) = Len(searched)
    /\ Atoi(Last(searched)) # 0 /\ Atoi(Last(current)) # 0
    /\ Atoi(Last(current)) >= Atoi(Last(searched))
    /\ Front(searched) = Front(current)

Fallback(kind) == "GUPnP" \o kind

\* lookup_type_with_fallback()
LookupType(upnp_type, kind) ==
    CASE upnp_type \in DOMAIN types -> types[upnp_type]
      [] /\ upnp_type \notin DOMAIN types
         /\ Len(upnp_type) > 1 /\ Front(upnp_type) \in DOMAIN types ->
             types[Front(upnp_type)]
      [] OTHER -> Fallback(kind)

Register(t, c) ==
    /\ types' = [u \in DOMAIN types \cup {t} |-> IF u = t THEN c ELSE types[u]]
    /\ answer' = NoAnswer /\ UNCHANGED <<doc, side, root_alive>>

Unregister(t) ==
    /\ t \in DOMAIN types
    /\ types' = [u \in DOMAIN types \ {t} |-> types[u]]
    /\ answer' = NoAnswer /\ UNCHANGED <<doc, side, root_alive>>

-----------------------------------------------------------------------------
(* Devices and services of a device                                        *)

\* The factory's create_device_proxy(), create_service(), ...
Instance(kind, type) == [class |-> LookupType(type, kind), type |-> type]

\* get_device() and get_service() of the class GUPnPDevice: an embedded device of a
\* root device that is gone creates nothing.
CreateLocal(info, kind, type) ==
    IF info # doc /\ ~root_alive THEN Null ELSE Instance(kind, type)

\* create_device_instance() and create_service_instance() of both sides
Create(info, kind, type) ==
    IF side = "local" THEN CreateLocal(info, kind, type) ELSE Instance(kind, type)

ListDevices(info) ==
    Reverse([i \in DOMAIN info.devices |->
                Create(info, "Device", info.devices[i].type)])
ListServices(info) ==
    Reverse([i \in DOMAIN info.services |->
                Create(info, "Service", info.services[i])])

\* list_device_types() and list_service_types()
ListTypes(all) == Reverse(Among(all, Range(all) \ {<<>>}))

\* get_device() and get_service(): an element that nothing was created for is
\* passed over.
FirstMatch(info, kind, all, query) ==
    LET i == Position(all, {t \in Range(all) \ {<<>>} : ResourceTypeMatch(query, t)})
    IN IF i = 0 THEN Null ELSE Create(info, kind, all[i])

DeviceTypes(info) == [i \in DOMAIN info.devices |-> info.devices[i].type]
GetDevice(info, query) == FirstMatch(info, "Device", DeviceTypes(info), query)
GetService(info, query) == FirstMatch(info, "Service", info.services, query)

\* The root device can only be asked while it is alive.
Held == IF root_alive THEN AllDevices(doc) ELSE AllDevices(doc) \ {doc}

AskList(info) ==
    /\ answer' = [call |-> "list", info |-> info,
                  devices |-> ListDevices(info), services |-> ListServices(info),
                  device_types |-> ListTypes(DeviceTypes(info)),
                  service_types |-> ListTypes(info.services)]
    /\ UNCHANGED <<doc, side, root_alive, types>>

AskGet(info, query) ==
    /\ answer' = [call |-> "get", info |-> info, query |-> query,
                  device |-> GetDevice(info, query), service |-> GetService(info, query)]
    /\ UNCHANGED <<doc, side, root_alive, types>>

\* gupnp_device: the weak pointer is cleared, the embedded devices live on.
RootGone ==
    /\ side = "local" /\ root_alive
    /\ root_alive' = FALSE /\ answer' = NoAnswer
    /\ UNCHANGED <<doc, side, types>>

-----------------------------------------------------------------------------
(* Icons: gupnp_device_info_get_icon_url()                                 *)

\* The difference in size that counts for one dimension; -1 asks for any.
Distance(has, asked, bigger) ==
    IF asked < 0 THEN 0 ELSE IF bigger THEN has - asked ELSE asked - has

DepthLeft(icon, q) == IF q.depth >= 0 THEN q.depth - icon.depth ELSE 0

Suits(icon, q) == (q.mime = "any" \/ q.mime = icon.mime) /\ DepthLeft(icon, q) >= 0

Weight(icon, q) ==
    IF q.width < 0 /\ q.height < 0 THEN icon.width * icon.height
    ELSE DepthLeft(icon, q) + Distance(icon.width, q.width, q.bigger)
                            + Distance(icon.height, q.height, q.bigger)

\* The first of the least weight: the loops of the code.
Lightest(icons, w) ==
    LET best[n \in 0 .. Len(icons)] ==
            IF n = 0 THEN <<>>
            ELSE IF best[n - 1] = <<>> \/ w[icons[n]] < w[best[n - 1][1]]
                 THEN <<icons[n]>> ELSE best[n - 1]
    IN best[Len(icons)]
Heaviest(icons, w) == Lightest(icons, [icon \in DOMAIN w |-> -w[icon]])

Closest(icons, q) ==
    LET w == [icon \in Range(icons) |-> Weight(icon, q)]
        fitting == Among(icons, {icon \in Range(icons) : w[icon] >= 0})
        any == q.width < 0 /\ q.height < 0
    IN CASE any /\ q.bigger        -> Heaviest(icons, w)
         [] any /\ ~q.bigger       -> Lightest(icons, w)
         [] ~any /\ fitting # <<>> -> Lightest(fitting, w)
         [] ~any /\ fitting = <<>> -> Heaviest(icons, w)

GetIcon(info, q) ==
    Closest(Reverse(Among(info.icons, {icon \in Range(info.icons) : Suits(icon, q)})), q)

AskIcon(info, q) ==
    /\ info.icons # <<>>
    /\ answer' = [call |-> "icon", info |-> info, query |-> q, icon |-> GetIcon(info, q)]
    /\ UNCHANGED <<doc, side, root_alive, types>>

-----------------------------------------------------------------------------
(* Announcing and finding                                                  *)

\* fill_resource_group(): the USNs; a device without UDN or type hides its services
\* and all devices below it.
FillResourceGroup(el) ==
    LET usns(d) == <<[udn |-> d.udn, rest |-> <<>>], [udn |-> d.udn, rest |-> d.type]>>
        services(d) == Among(d.services, Range(d.services) \ {<<>>})
        fill[d \in AllDevices(el)] ==
            IF d.udn = "" \/ d.type = <<>> THEN <<>>
            ELSE usns(d)
                 \o [i \in DOMAIN services(d) |-> [udn |-> d.udn, rest |-> services(d)[i]]]
                 \o FlattenSeq([i \in DOMAIN d.devices |-> fill[d.devices[i]]])
    IN fill[el]

\* gupnp_root_device_initable_init(): the root device first.
Announced(el) ==
    <<[udn |-> el.udn, rest |-> <<"upnp", "rootdevice">>]>> \o FillResourceGroup(el)

\* parse_usn(): <<>> if invalid, else the UDN and the service type or <<>>.
ParseUsn(usn) ==
    LET is(i, segment) == Len(usn.rest) >= i /\ usn.rest[i] = segment
    IN CASE usn.udn \notin Uuids -> <<>>
         [] usn.udn \in Uuids /\ is(1, "urn") /\ is(3, "service") -> <<usn.udn, usn.rest>>
         [] /\ usn.udn \in Uuids
            /\ \/ usn.rest = <<>>
               \/ is(1, "upnp") /\ is(2, "rootdevice")
               \/ is(1, "urn") /\ is(3, "device") -> <<usn.udn, <<>>>>
         [] OTHER -> <<>>

\* process_service_list() and create_and_report_*_proxy(): a proxy carries the
\* type that was searched for, and gets its class from it.  The lookups that
\* keep the control point from making a second proxy of a device or a service are in
\* ControlPoint (HasProxy): here, what is listed twice is found twice.
Reports(el, udn, service_type) ==
    IF service_type = <<>>
    THEN <<[udn |-> udn, type |-> el.type, class |-> LookupType(el.type, "Device")]>>
    ELSE LET found == Among(el.services, {t \in Range(el.services) \ {<<>>} :
                                          CompareServiceTypesVersioned(service_type, t)})
         IN [i \in DOMAIN found |-> [udn |-> udn, type |-> service_type,
                                     class |-> LookupType(service_type, "Service")]]

\* process_device_list(): embedded devices first.
ProcessDeviceList(list, udn, service_type) ==
    LET process[d \in UNION {AllDevices(list[i]) : i \in DOMAIN list}] ==
            FlattenSeq([i \in DOMAIN d.devices |-> process[d.devices[i]]]) \o
            IF d.udn = udn THEN Reports(d, udn, service_type) ELSE <<>>
    IN FlattenSeq([i \in DOMAIN list |-> process[list[i]]])

Find(usn) ==
    LET parsed == ParseUsn(usn)
    IN IF parsed = <<>> THEN <<>> ELSE ProcessDeviceList(<<doc>>, parsed[1], parsed[2])

Discover(usn) ==
    /\ side = "proxy"
    /\ answer' = [call |-> "discover", usn |-> usn, found |-> Find(usn)]
    /\ UNCHANGED <<doc, side, root_alive, types>>

Next ==
    \/ \E t \in Registered, c \in Classes : Register(t, c)
    \/ \E t \in Registered : Unregister(t)
    \/ \E info \in Held : AskList(info)
    \/ \E info \in Held, query \in Queries : AskGet(info, query)
    \/ RootGone
    \/ \E info \in Held, q \in IconRequests : AskIcon(info, q)
    \/ \E usn \in Range(Announced(doc)) \cup [udn : Uuids, rest : Queries] : Discover(usn)

-----------------------------------------------------------------------------
(* Correctness                                                             *)

TypeOK ==
    /\ doc \in Documents /\ side \in {"proxy", "local"} /\ root_alive \in BOOLEAN
    /\ DOMAIN types \subseteq Registered /\ Range(types) \subseteq Classes
    /\ answer.call \in {"none", "list", "get", "icon", "discover"}

\* "If query specifies a version, it matches any version specified in base that is
\* greater or equal": a type that a query names without regard to the version.  Types
\* have five parts, as in urn:schemas-upnp-org:service:SwitchPower:1.
Satisfies(query, type) ==
    /\ Front(query) = Front(type)
    /\ Atoi(Last(query)) <= Atoi(Last(type))

Versioned(type) == Len(type) = 5 /\ Atoi(Last(type)) > 0

\* get_service() and get_device() find something exactly if what the list functions
\* return holds a type that satisfies the query; nothing of a later version is
\* passed over, nothing of an earlier one taken.
GetAgreesWithList ==
    (answer.call = "get" /\ Versioned(answer.query) /\ (root_alive \/ side = "proxy")) =>
        LET wanted(all) == {t \in Range(all) : Versioned(t) /\ Satisfies(answer.query, t)}
        IN \A r \in {<<answer.device, DeviceTypes(answer.info)>>,
                     <<answer.service, answer.info.services>>} :
               /\ (\A t \in Range(r[2]) : t = <<>> \/ Versioned(t)) =>
                      (r[1] = Null <=> wanted(r[2]) = {})
               /\ r[1] # Null /\ Versioned(r[1].type) => r[1].type \in wanted(r[2])

\* The description of a root device answers for what the device announces: a control
\* point finds a proxy for every well-formed USN, of the type and the device that
\* the USN names.  A device that announces an older version of a service than its
\* description has is found too, and nothing else.
AnnouncedIsFound ==
    (answer.call = "discover" /\ answer.usn.udn \in Uuids) =>
        LET rest == answer.usn.rest
            of_service == Len(rest) > 2 /\ rest[3] = "service"
        IN /\ answer.usn \in Range(Announced(doc))
              /\ (rest = <<>> \/ Len(rest) = 2 \/ Versioned(rest)) => answer.found # <<>>
           /\ of_service /\ Versioned(rest) =>
                  (answer.found # <<>> <=>
                      \E el \in AllDevices(doc) :
                          /\ el.udn = answer.usn.udn
                          /\ \E t \in Range(el.services) : Versioned(t) /\ Satisfies(rest, t))
           /\ \A p \in Range(answer.found) :
                  p.udn = answer.usn.udn /\ (of_service => p.type = rest)

\* Every device with UDN and type that can be reached by list_devices() through
\* devices with UDN and type is announced, with its services.
Named(devices) == {d \in devices : d.udn # "" /\ d.type # <<>>}
Reached(el) ==
    LET at[n \in Nat] == IF n = 0 THEN Named({el})
                         ELSE Named(UNION {Range(d.devices) : d \in at[n - 1]})
    IN UNION {at[n] : n \in 0 .. MaxLevels}
ReachedIsAnnounced ==
    answer.call = "discover" =>
        \A el \in Reached(doc) :
            \A t \in {<<>>, el.type} \cup (Range(el.services) \ {<<>>}) :
                [udn |-> el.udn, rest |-> t] \in Range(Announced(doc))

\* A class registered for a type is preferred to one registered for the type
\* without its version, in what get_service() and get_device() return.
MostSpecificClass ==
    LET right(r, kind) ==
            r.class = IF r.type \in DOMAIN types THEN types[r.type]
                      ELSE IF r.type # <<>> /\ Front(r.type) \in DOMAIN types
                      THEN types[Front(r.type)] ELSE Fallback(kind)
    IN /\ answer.call = "get" /\ answer.service # Null => right(answer.service, "Service")
       /\ answer.call = "get" /\ answer.device # Null => right(answer.device, "Device")

\* An icon is returned exactly if one suits the request, and it is one that does:
\* "only icons with this mime type", "only icons with this or lower depth".
IconSuits ==
    answer.call = "icon" =>
        LET q == answer.query
            allowed == {icon \in Range(answer.info.icons) :
                           /\ q.mime \in {"any", icon.mime}
                           /\ q.depth < 0 \/ icon.depth <= q.depth}
        IN /\ answer.icon = <<>> <=> allowed = {}
           /\ Range(answer.icon) \subseteq allowed

\* "only icons that are this size or smaller are returned, unless @prefer_bigger is
\* set" (line 811 of gupnp-device-info.c).
IconFits ==
    (answer.call = "icon" /\ ~answer.query.bigger) =>
        \A icon \in Range(answer.icon) :
            /\ answer.query.width < 0 \/ icon.width <= answer.query.width
            /\ answer.query.height < 0 \/ icon.height <= answer.query.height
=============================================================================
