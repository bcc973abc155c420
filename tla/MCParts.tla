------------------------------ MODULE MCParts ------------------------------
(* Instances of the parts of libgupnp for TLC.                             *)
EXTENDS Parts, SequencesExt, TLC

CONSTANTS eth, tun, a1, a2, c1, c2, iface, address

-----------------------------------------------------------------------------
(* Callbacks: two of one type, one of another.                             *)

MCGType == ("f1" :> "int") @@ ("f2" :> "int") @@ ("f3" :> "string")

-----------------------------------------------------------------------------
(* WebServer: a folder with a page in three languages, one of them not     *)
(* allowed to be read, the pages of a television, and two root devices,    *)
(* the description of one of which cannot be mapped.                       *)

MCFiles == (<<"d1">> :> "file") @@ (<<"d2">> :> "unmappable") @@
   (<<"doc">> :> "folder") @@ (<<"doc", "index.html">> :> "file") @@
   (<<"doc", "page">> :> "file") @@ (<<"doc", "page", "de">> :> "file") @@
   (<<"doc", "page", "fr">> :> "file") @@ (<<"doc", "page", "it">> :> "EPERM") @@
   (<<"tv", "page">> :> "file") @@ (<<"tv", "page", "de">> :> "EACCES")

MCUdnOf == [d \in RootDevices |-> IF d = "d1" THEN "u1" ELSE "u2"]
MCDirOf == [d \in RootDevices |-> <<"doc">>]

Accept(tag, q) == [tag |-> tag, q |-> q]
Accepts == {<<>>, <<Accept("*", 10), Accept("it", 10)>>,
            <<Accept("en", 8), Accept("fr", 10), Accept("de", 5)>>}

Request(method, path, slash, accept, agent, range) ==
    [method |-> method, path |-> path, slash |-> slash, accept |-> accept,
     agent |-> agent, client |-> "c", range |-> range]

MCRequests ==
    {Request(m, <<"u1">>, FALSE, <<>>, "none", <<>>) : m \in {"GET", "HEAD", "POST"}} \cup
    {Request("GET", <<"u2">>, FALSE, <<>>, "none", <<>>)} \cup
    {Request("GET", <<>>, slash, <<>>, "none", <<>>) : slash \in BOOLEAN} \cup
    {Request("GET", <<"page">>, FALSE, a, agent, <<>>) : a \in Accepts, agent \in {"none", "tv"}} \cup
    {Request(m, <<"page">>, FALSE, <<>>, "none", r) :
         m \in {"GET", "HEAD"}, r \in {<<0, 1>>, <<0, 2>>, <<2, 2>>}}

MCLocals == {<<"doc">>, <<"tv">>}
MCAppPaths == {<<>>}

-----------------------------------------------------------------------------
(* Descriptions: a tree of depth three with types missing, repeated and    *)
(* unversioned; a device with a plain type; one with a strange UDN.        *)

Svc(n, v) == <<"urn", "d", "service", n, v>>
Dev(n, v) == <<"urn", "d", "device", n, v>>
Icon(m, w, h, d) == [mime |-> m, width |-> w, height |-> h, depth |-> d]
Leaf(u, t, s) == [udn |-> u, type |-> t, services |-> s, devices |-> <<>>, icons |-> <<>>]

MCDeviceDocuments == {
  [udn |-> "uuid:1", type |-> Dev("A", "2"),
   services |-> <<Svc("S", "1"), <<>>, Svc("S", "2")>>,
   devices |-> << [Leaf("uuid:2", Dev("B", "1"), <<Svc("T", "2")>>)
                       EXCEPT !.devices = <<Leaf("uuid:3", Dev("B", "2"), <<Svc("S", "x")>>)>>],
                  Leaf("", Dev("B", "2"), <<Svc("T", "1")>>),
                  Leaf("uuid:1", Dev("C", "1"), <<>>)>>,
   icons |-> <<Icon("png", 2, 2, 8), Icon("png", 1, 3, 8), Icon("jpg", 3, 3, 24)>>],
  Leaf("uuid:1", <<"plain">>, <<<<"urn", "d", "service", "S", "">>>>),
  [Leaf("nouuid", Dev("A", "1"), <<Svc("S", "1")>>) EXCEPT !.icons = <<Icon("png", 3, 3, 8)>>] }

MCNumber == ("1" :> 1) @@ ("2" :> 2)
MCBegins == {<<"Sensor", "S">>}
MCQueries == {Svc("S", "1"), Svc("S", "2"), Svc("T", "1"), Svc("T", "2"), Front(Svc("S", "1")),
              Svc("Sensor", "1"), Dev("B", "1"), Dev("B", "2"), <<"plain">>}
MCRegistered == {Svc("S", "1"), Front(Svc("S", "1"))}
MCIconRequests == [mime : {"any", "png"}, width : {-1, 2}, height : {-1, 2}, depth : {-1, 8},
                   bigger : BOOLEAN]

-----------------------------------------------------------------------------
(* ServiceDescription: names, types, limits and defaults that are missing  *)
(* or out of range; a description without variables, and without anything. *)

Arg(n, v, d) == [name |-> n, variable |-> v, direction |-> d]
Act(n, a) == [name |-> n, args |-> a]
Var(n, t, ee, e, r, d) ==
    [name |-> n, data_type |-> t, events_element |-> ee, events |-> e, range |-> r, default |-> d]

MCServiceDocuments == {
  [actions |-> <<Act("Get", <<Arg("A", "V", "in"), Arg("", "V", "out"), Arg("B", "W", "out")>>),
                 Act("", <<>>), Act("Set", <<>>)>>,
   variables |-> <<Var("V", "i1", "", "yes", <<<<-1>>, <<9>>>>, <<3>>),
                   Var("W", "ui2", "no", "yes", <<<<2>>, <<>>>>, <<>>),
                   Var("X", "mystery", "", "yes", <<>>, <<>>),
                   Var("Y", "string", "yes", "", <<>>, <<"word", "other">>),
                   Var("Z", "ui1", "", "", <<<<-1>>, <<5>>>>, <<>>)>>],
  [actions |-> <<Act("Get", <<>>)>>, variables |-> <<>>],
  [actions |-> <<>>,
   variables |-> <<Var("V", "r4", "", "yes", <<<<1>>, <<2>>>>, <<5>>),
                   Var("", "i2", "", "yes", <<>>, <<>>)>>],
  [actions |-> <<>>, variables |-> <<Var("X", "mystery", "", "yes", <<>>, <<>>)>>] }

MCBits == [t \in {"i1", "i2", "i4", "int", "ui1", "ui2", "ui4"} |->
              CASE t \in {"i1", "ui1"} -> 2 [] t \in {"i2", "ui2"} -> 3 [] OTHER -> 4]
MCNumbers == {<<n>> : n \in -40 .. 40}
MCWords == {<<"word", w>> : w \in {"true", "no", "other"}}
MCSymbols == {[form |-> "on", name |-> <<"", "Get">>], [form |-> "cb", name |-> <<"", "Get">>],
              [form |-> "cb", name |-> <<"", "Set">>], [form |-> "cb", name |-> <<"query", "V">>]}
MCCamelNames == UNION {[1 .. n -> {"U", "l", "_"}] : n \in 0 .. 4}

-----------------------------------------------------------------------------
(* ContextManager: one entry of the filter names the interface of the      *)
(* first two contexts, the other is the address of the first; no entry     *)
(* lets the third one through.                                             *)

MCNames == [c \in Contexts |-> IF c = c1 THEN {iface, address}
                               ELSE IF c = c2 THEN {iface} ELSE {}]

(* Platforms: two links with an address each, one of them not fit for      *)
(* multicast; a wired and a wireless device; one service that may change   *)
(* its interface.                                                          *)
MCLinkOf == [a \in Addresses |-> IF a = a1 THEN eth ELSE tun]
=============================================================================
