------------------------------ MODULE WebServer ------------------------------
(***************************************************************************)
(* The HTTP server of a GUPnPContext as a file server (gupnp-context.c,    *)
(* http-headers.c) and the root devices that host their descriptions on it *)
(* (gupnp-root-device.c).  A host path data is identified by a number; the *)
(* handlers are those of the SoupServer, which has one per path and gives  *)
(* a request to that of the longest path the request's path begins with.   *)
(* A path is a sequence of segments, and so is the name of a file: its     *)
(* local path, the rest of the request's path, and what was appended.      *)
(***************************************************************************)
EXTENDS Integers, Sequences, FiniteSets, Lists

CONSTANTS
    Locals,        \* local paths an application hosts
    AppPaths,      \* server paths an application hosts them at
    Agents, Clients,
    Languages,     \* default languages an application sets
    Files,         \* names of the files: a function to their kind
    Size,          \* the size of every regular file
    Requests,      \* the requests clients make
    RootDevices, UdnOf, DirOf,
    MaxHosts, MaxRules

VARIABLES
    listening,     \* the server was made: its port could be bound
    datas,         \* every HostPathData made
    host_path_datas, \* the list of the context: indices into datas
    handlers,      \* SoupServer: path -> index of the data of its handler
    default_language,
    user_agents,   \* cache of GSSDPClient: the agent of a client
    available,     \* resource groups: whether a root device is announced
    answer         \* the request being answered, and its response

vars == <<listening, datas, host_path_datas, handlers, default_language,
          user_agents, available, answer>>

None == "none"
Paths == AppPaths \cup {<<UdnOf[d]>> : d \in RootDevices} \cup {<<>>}

NoAnswer == [status |-> 0]

\* First and last byte of a range as libsoup resolves it, or <<>>.
Ranges == {<<>>} \cup ((0 .. Size) \X (0 .. Size))
RequestOK(r) ==
    /\ r.method \in {"GET", "HEAD", "POST"}
    /\ r.path \in Seq(STRING) /\ r.slash \in BOOLEAN
    /\ r.accept \in Seq([tag : STRING, q : 0 .. 10])
    /\ r.agent \in Agents \cup {None} /\ r.client \in Clients
    /\ r.range \in Ranges

TypeOK ==
    /\ listening \in BOOLEAN
    /\ \A i \in DOMAIN datas :
           /\ datas[i].path \in Paths
           /\ \A j \in DOMAIN datas[i].rules : datas[i].rules[j].agent \in Agents
    /\ Range(host_path_datas) \subseteq DOMAIN datas
    /\ DOMAIN handlers \subseteq Paths
    /\ Range(handlers) \subseteq DOMAIN datas
    /\ default_language \in Languages \cup {"en"}
    /\ user_agents \in [Clients -> Agents \cup {None}]
    /\ DOMAIN available \subseteq RootDevices
    /\ answer = NoAnswer \/ RequestOK(answer.request)

Init ==
    /\ listening = FALSE
    /\ datas = <<>> /\ host_path_datas = <<>> /\ handlers = <<>>
    /\ default_language = "en"
    /\ user_agents = [c \in Clients |-> None]
    /\ available = <<>>
    /\ answer = NoAnswer

-----------------------------------------------------------------------------
(* Hosting                                                                 *)

Put(f, x, y) == [z \in DOMAIN f \cup {x} |-> IF z = x THEN y ELSE f[z]]
Without(f, x) == [z \in DOMAIN f \ {x} |-> f[z]]

\* gupnp_context_get_server(): tried again until it succeeds.
GetServer == listening' \in {listening, TRUE}

\* A state of the hosting: what gupnp_context_host_path() changes.  Without a
\* server the data is listed all the same.
HostAt(h, local, path) ==
    LET new == Len(h.datas) + 1
    IN [datas |-> Append(h.datas, [path |-> path, local |-> local, rules |-> <<>>,
                                   language |-> default_language]),
        listed |-> Append(h.listed, new),
        handlers |-> IF h.server THEN Put(h.handlers, path, new) ELSE h.handlers,
        server |-> h.server]

Hosting == [datas |-> datas, listed |-> host_path_datas, handlers |-> handlers,
            server |-> listening']

Become(h) ==
    /\ datas' = h.datas /\ host_path_datas' = h.listed /\ handlers' = h.handlers

HostPath(local, path) ==
    /\ answer = NoAnswer /\ Len(datas) < MaxHosts
    /\ GetServer
    /\ Become(HostAt(Hosting, local, path))
    /\ UNCHANGED <<default_language, user_agents, available, answer>>

\* path_compare_func(): the entries of the list for a path, the first counts.
EntriesAt(path) == {i \in DOMAIN host_path_datas : datas[host_path_datas[i]].path = path}
EntryOf(path) == CHOOSE i \in EntriesAt(path) : \A j \in EntriesAt(path) : i <= j

Rules == Cardinality(UNION {{i} \X DOMAIN datas[i].rules : i \in DOMAIN datas})

HostPathForAgent(local, path, agent) ==
    /\ answer = NoAnswer /\ EntriesAt(path) # {} /\ Rules < MaxRules
    /\ LET d == host_path_datas[EntryOf(path)]
       IN datas' = [datas EXCEPT ![d].rules =
                    Append(@, [agent |-> agent, local |-> local])]
    /\ UNCHANGED <<listening, host_path_datas, handlers, default_language,
                   user_agents, available, answer>>

\* A faulty variant: the handler stays.
UnhostKeepsHandler(path) ==
    /\ answer = NoAnswer /\ EntriesAt(path) # {}
    /\ GetServer
    /\ host_path_datas' = RemoveAt(host_path_datas, EntryOf(path))
    /\ UNCHANGED <<datas, handlers, default_language, user_agents, available, answer>>

\* The data that is freed is that of the first entry, the handler removed may
\* be that of another.
UnhostPath(path) ==
    /\ answer = NoAnswer /\ EntriesAt(path) # {}
    /\ GetServer
    /\ host_path_datas' = RemoveAt(host_path_datas, EntryOf(path))
    /\ handlers' = IF listening' THEN Without(handlers, path) ELSE handlers
    /\ UNCHANGED <<datas, default_language, user_agents, available, answer>>

SetDefaultLanguage(l) ==
    /\ answer = NoAnswer /\ l # default_language
    /\ default_language' = l
    /\ datas' = [i \in DOMAIN datas |->
           IF i \in Range(host_path_datas) THEN [datas[i] EXCEPT !.language = l]
                                           ELSE datas[i]]
    /\ UNCHANGED <<listening, host_path_datas, handlers, user_agents, available, answer>>

-----------------------------------------------------------------------------
(* Root devices                                                            *)

\* gupnp_root_device_initable_init(): the location is made from the UDN.  There
\* is no device without a server, and none whose description does not parse.
NewRootDevice(d, parses) ==
    /\ answer = NoAnswer /\ d \notin DOMAIN available /\ Len(datas) + 2 <= MaxHosts
    /\ GetServer
    /\ IF listening' /\ parses
       THEN /\ Become(HostAt(HostAt(Hosting, <<d>>, <<UdnOf[d]>>), DirOf[d], <<>>))
            /\ available' = Put(available, d, FALSE)
       ELSE UNCHANGED <<datas, host_path_datas, handlers, available>>
    /\ UNCHANGED <<default_language, user_agents, answer>>

SetAvailable(d, a) ==
    /\ answer = NoAnswer /\ d \in DOMAIN available /\ available[d] # a
    /\ available' = [available EXCEPT ![d] = a]
    /\ UNCHANGED <<listening, datas, host_path_datas, handlers, default_language,
                   user_agents, answer>>

\* gupnp_root_device_dispose(): the group is gone, what it hosted stays.
DisposeDevice(d) ==
    /\ answer = NoAnswer /\ d \in DOMAIN available
    /\ available' = Without(available, d)
    /\ UNCHANGED <<listening, datas, host_path_datas, handlers, default_language,
                   user_agents, answer>>

-----------------------------------------------------------------------------
(* http_request_get_accept_locales(): quality 10 stands for q=1.           *)

NoQuality == 10
Quality(bit) == bit.q

\* locale_from_http_language() ends the string at its ';'.
LocaleFromHttpLanguage(bit) == [bit EXCEPT !.q = NoQuality]

\* The bits that name a language
Named(header) == {i \in DOMAIN header : header[i].tag \notin {"", "*"}}

\* The list is made from its end and the sort is stable: of two bits of a quality,
\* the later one comes first.
Preferred(header, i) ==
    LET quality(j) == Quality(LocaleFromHttpLanguage(header[j]))
    IN {j \in Named(header) : \/ quality(j) > quality(i)
                              \/ quality(j) = quality(i) /\ j > i}
Bit(header, n) ==
    header[CHOOSE i \in Named(header) : Cardinality(Preferred(header, i)) = n - 1]

AcceptLocales(header) ==
    [n \in 1 .. Cardinality(Named(header)) |-> Bit(header, n).tag]

-----------------------------------------------------------------------------
(* host_path_handler()                                                     *)

\* libsoup: the handler of a request's path.
Serving(path) == {p \in DOMAIN handlers : IsPrefix(p, path)}
HandlerFor(path) ==
    handlers[CHOOSE p \in Serving(path) : \A o \in Serving(path) : Len(o) <= Len(p)]

\* The agent of the request, else that guessed from the discovery messages.
AgentOf(r) == IF r.agent # None THEN r.agent ELSE user_agents[r.client]

\* construct_local_path(): the last rule that matches decides.
LocalFor(d, agent) ==
    LET matching == {j \in DOMAIN d.rules : d.rules[j].agent = agent}
    IN IF matching = {} THEN d.local
       ELSE d.rules[CHOOSE j \in matching : \A k \in matching : j >= k].local

ConstructLocalPath(r, d) ==
    LocalFor(d, AgentOf(r)) \o SubSeq(r.path, Len(d.path) + 1, Len(r.path))

\* A faulty variant: it is always the last language that is tried.
AppendLastLocale(local, locales) ==
    IF locales = <<>> THEN local ELSE Append(local, Last(locales))

AppendLocale(local, locales) ==
    IF locales = <<>> THEN local ELSE Append(local, Head(locales))

Kind(name) == IF name \in DOMAIN Files THEN Files[name] ELSE "ENOENT"

\* From AGAIN: to the mapped file: the status, and for 200 the file; or where
\* it goes back to AGAIN: with another path or with one locale less.
Tried(r, try) ==
    LET name == AppendLocale(try.local, try.locales)
    IN CASE Kind(name) = "EPERM" -> [status |-> 403]
         [] Kind(name) = "ENOENT" /\ try.locales # <<>> ->
                [status |-> 0, local |-> try.local, locales |-> Tail(try.locales)]
         [] Kind(name) = "ENOENT" /\ try.locales = <<>> -> [status |-> 404]
         [] Kind(name) = "EACCES" -> [status |-> 500]
         [] Kind(name) = "folder" /\ ~r.slash -> [status |-> 301]
         [] Kind(name) = "folder" /\ r.slash ->
                [status |-> 0, local |-> Append(name, "index.html"), locales |-> try.locales]
         [] Kind(name) = "unmappable" -> [status |-> 500]
         [] OTHER -> [status |-> 200, file |-> name, locales |-> try.locales]

\* Each try has one locale less or a longer path to a file.
Open(r, local, locales) ==
    LET tries == Len(locales) + Cardinality(DOMAIN Files) + 1
        after[n \in 0 .. tries] ==
            IF n = 0 THEN [status |-> 0, local |-> local, locales |-> locales]
            ELSE LET try == after[n - 1]
                 IN IF try.status = 0 THEN Tried(r, try) ELSE try
    IN after[tries]

\* The guard lets a range end one byte behind the file.
Unsatisfiable(range) ==
    range[2] > Size \/ range[1] >= Size \/ range[1] > range[2]

\* What is sent of an open file, and in which language it is said to be.
Body(r, d, found) ==
    LET ranged == r.method = "GET" /\ r.range # <<>>
        status == CASE ranged /\ Unsatisfiable(r.range) -> 416
                    [] ranged /\ ~Unsatisfiable(r.range) -> 206
                    [] OTHER -> 200
        language == CASE found.locales # <<>> -> Head(found.locales)
                      [] found.locales = <<>> /\ r.accept # <<>> -> d.language
                      [] OTHER -> None
    IN IF status = 416 THEN [status |-> 416]
       ELSE [status |-> status, file |-> found.file, language |-> language]

Respond(r, d) ==
    LET found == Open(r, ConstructLocalPath(r, d), AcceptLocales(r.accept))
    IN CASE r.method = "POST" -> [status |-> 501]
         [] r.method # "POST" /\ found.status = 200 -> Body(r, d, found)
         [] OTHER -> [status |-> found.status]

\* update_client_cache(): a client keeps the agent it was first seen with.
UpdateClientCache(r) ==
    IF r.method # "POST" /\ r.agent # None /\ user_agents[r.client] = None
    THEN [user_agents EXCEPT ![r.client] = r.agent] ELSE user_agents

Serve(r) ==
    /\ answer = NoAnswer /\ listening /\ Serving(r.path) # {}
    /\ LET d == datas[HandlerFor(r.path)]
       IN answer' = [request |-> r, response |-> Respond(r, d), of |-> HandlerFor(r.path)]
    /\ user_agents' = UpdateClientCache(r)
    /\ UNCHANGED <<listening, datas, host_path_datas, handlers, default_language,
                   available>>

\* libsoup sends the response.
Sent ==
    /\ answer # NoAnswer /\ answer' = NoAnswer
    /\ UNCHANGED <<listening, datas, host_path_datas, handlers, default_language,
                   user_agents, available>>

Next ==
    \/ \E l \in Locals, p \in AppPaths : HostPath(l, p)
    \/ \E l \in Locals, p \in AppPaths, a \in Agents : HostPathForAgent(l, p, a)
    \/ \E p \in AppPaths : UnhostPath(p)
    \/ \E l \in Languages : SetDefaultLanguage(l)
    \/ \E d \in RootDevices, parses \in BOOLEAN : NewRootDevice(d, parses)
    \/ \E d \in RootDevices, a \in BOOLEAN : SetAvailable(d, a)
    \/ \E d \in RootDevices : DisposeDevice(d)
    \/ \E r \in Requests : Serve(r)
    \/ Sent

-----------------------------------------------------------------------------
(* Correctness                                                             *)

\* The data a handler was given is not freed while the handler is there,
\* whatever is hosted twice, by the application or by root devices.
HandlerIsListed ==
    \A p \in DOMAIN handlers :
        /\ handlers[p] \in Range(host_path_datas)
        /\ datas[handlers[p]].path = p

\* The description of a root device is served at its location, if no other
\* device has its UDN, whatever else is hosted and unhosted.
DescriptionServed ==
    \A d \in DOMAIN available :
        (\A e \in RootDevices \ {d} : UdnOf[e] # UdnOf[d]) =>
            /\ <<UdnOf[d]>> \in DOMAIN handlers
            /\ datas[handlers[<<UdnOf[d]>>]].local = <<d>>

Served == answer # NoAnswer /\ answer.response.status \in {200, 206}
Plain == ConstructLocalPath(answer.request, datas[answer.of])
Wanted == {b.tag : b \in Range(answer.request.accept)} \ {"", "*"}
Existing == {t \in Wanted : Kind(Append(Plain, t)) = "file"}

\* A language the client accepts is served if there is a file for it, and is
\* named in the response; "not found" means that there is no file at all.
VariantIsFound ==
    /\ Served /\ Existing # {} =>
           \E t \in Existing : /\ answer.response.file = Append(Plain, t)
                               /\ answer.response.language = t
    /\ answer # NoAnswer /\ answer.response.status = 404 =>
           Existing = {} /\ Kind(Plain) \notin {"file", "unmappable"}

\* "Parses the Accept-Language header [...] and returns its values in an ordered
\* list" (line 180 of http-headers.c), "preferred first" (line 157 of
\* gupnp-service-action.c).
PreferredFirst ==
    Served /\ Existing # {} =>
        \A b, c \in Range(answer.request.accept) :
            (b.tag = answer.response.language /\ c.tag \in Existing) => b.q >= c.q

\* A path that is hosted once: a client gets the file of the rule that was added
\* last for its agent, known from this request or from an earlier one.
AgentsGetTheirFiles ==
    (Served /\ Cardinality(EntriesAt(datas[answer.of].path)) = 1) =>
        LET d == datas[host_path_datas[EntryOf(datas[answer.of].path)]]
            own == {j \in DOMAIN d.rules : d.rules[j].agent = AgentOf(answer.request)}
        IN \A j \in own : (\A k \in own : k <= j) =>
               IsPrefix(d.rules[j].local, answer.response.file)
=============================================================================
