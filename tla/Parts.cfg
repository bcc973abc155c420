CONSTANTS
    eth = eth
    tun = tun
    a1 = a1
    a2 = a2
    c1 = c1
    c2 = c2
    iface = iface
    address = address
    Variables = {"v"}
    Callbacks = {"f1", "f2", "f3"}
    GType <- MCGType
    Tasks = {t1, t2, t3}
    Locals <- MCLocals
    AppPaths <- MCAppPaths
    Agents = {"tv"}
    Clients = {"c"}
    Languages = {"de"}
    Files <- MCFiles
    Size = 2
    Requests <- MCRequests
    UdnOf <- MCUdnOf
    DirOf <- MCDirOf
    MaxHosts = 3
    MaxRules = 2
    DeviceDocuments <- MCDeviceDocuments
    MaxLevels = 2
    Uuids = {"uuid:1", "uuid:2", "uuid:3"}
    Number <- MCNumber
    Begins <- MCBegins
    Queries <- MCQueries
    Registered <- MCRegistered
    Classes = {"MyOld", "MyNew"}
    IconRequests <- MCIconRequests
    ServiceDocuments <- MCServiceDocuments
    Bits <- MCBits
    Width = 4
    LongWidth = 6
    Numbers <- MCNumbers
    Words <- MCWords
    Symbols <- MCSymbols
    UserData = {1, 2}
    MaxAutoconnects = 3
    CamelNames <- MCCamelNames
    Bytes = {0, 165, 255}
    Length = 3
    Hosts = {"name", "v4", "v6", "link-local v6", "invalid"}
    Ports = {80, 8080}
    Contexts = {c1, c2, c3}
    Entries = {iface, address}
    Names <- MCNames
    MaxBootId = 2
    RootDevices = {"d1", "d2"}
    Links = {eth, tun}
    Addresses = {a1, a2}
    LinkOf <- MCLinkOf
    Valid = {eth}
    Broken = {}
    MaxNetlink = 3
    Devices = {wired, wifi}
    Wifi = {wifi}
    Families = {v4, v6}
    MaxCalls = 2
    MaxNMDevices = 2
    Services = {s1}
    MaxContexts = 2
    Interfaces = {if1, if2}
    MaxQueue = 2
SPECIFICATION Spec
INVARIANTS TypeOK StaysIntrospected FilesServed ResourcesFound HandlersConnected AddressesUsable ToldMatches FilteredIsSilent FollowsTheSystem AnswersHold
PROPERTIES NotifyReaches
CHECK_DEADLOCK FALSE
