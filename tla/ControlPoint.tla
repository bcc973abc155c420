---------------------------- MODULE ControlPoint ----------------------------
(***************************************************************************)
(* Discovery, src/libgupnp/gupnp-control-point.c: from the resources that  *)
(* gssdp finds, over the download of their descriptions, to the device and *)
(* service proxies the application is told of.                             *)
(*                                                                         *)
(* A key is what parse_usn() makes of a USN: a UDN for a device, a UDN and *)
(* a service type for a service.  A root device is announced under three   *)
(* USNs that have one key.  The lists of devices and of services are one   *)
(* set here, as a key is of one kind and both are handled alike.           *)
(*                                                                         *)
(* Definitions marked "faulty" are the code with a mistake in it: they are *)
(* part of no specification, and the properties are tried against them.    *)
(***************************************************************************)
EXTENDS Integers, FiniteSets

CONSTANTS
    USNs,
    Keys,
    KeyOf,        \* what parse_usn() makes of each USN
    Locations,
    Provides,     \* the keys process_device_list() finds in each description
    NoDoc,
    GUPNP_MAX_DESCRIPTION_DOWNLOAD_RETRIES,
    GUPNP_INITIAL_DESCRIPTION_RETRY_TIMEOUT,
    MaxGets,      \* bound: no announcement starts a download after so many
    Outcomes      \* how a download may end, of the set below

ASSUME ControlPointAssumption ==
    /\ KeyOf \in [USNs -> Keys]
    /\ Provides \in [Locations -> SUBSET Keys]
    /\ GUPNP_MAX_DESCRIPTION_DOWNLOAD_RETRIES \in Nat \ {0}
    /\ GUPNP_INITIAL_DESCRIPTION_RETRY_TIMEOUT \in Nat
    /\ MaxGets \in Nat
    /\ NoDoc \notin Nat
    /\ Outcomes \subseteq {"ok", "unparsable", "failure", "timed-out", "error"}

VARIABLES
    known,         \* the USNs gssdp's resource browser has in its cache
    pending_gets,  \* priv->pending_gets
    made,          \* downloads started so far; a later one is nearer the head
    proxies,       \* priv->devices and priv->services
    held,          \* proxies only the application still has a reference to
    doc_cache,     \* priv->doc_cache: the document of each location
    released,      \* the application has given up the control point
    disposed,      \* gupnp_control_point_dispose() has run
    gave_up,       \* history: keys whose download failed for good
    retried,       \* history: keys whose download was tried again
    misplaced      \* history: USNs last announced at a location whose description
                   \* does not have them

lifetime == <<released, disposed>>
history  == <<gave_up, retried, misplaced>>
vars == <<known, pending_gets, made, proxies, held, doc_cache, lifetime, history>>

\* GetDescriptionURLData.  It waits for the session or for the retry timer.
\* The timeout is that of the next retry.
GetDescriptionURLData ==
    [id : Nat \ {0}, key : Keys, url : Locations, state : {"sent", "waiting"},
     cancelled : BOOLEAN, tries : 1 .. GUPNP_MAX_DESCRIPTION_DOWNLOAD_RETRIES,
     timeout : Nat]

\* A document is known by the download that brought it.
Docs == Nat \ {0}

Proxy == [key : Keys, url : Locations, doc : Docs]

TypeOK ==
    /\ known \subseteq USNs
    /\ pending_gets \subseteq GetDescriptionURLData
    /\ made \in Nat
    /\ proxies \subseteq Proxy
    /\ held \subseteq Proxy
    /\ doc_cache \in [Locations -> Docs \cup {NoDoc}]
    /\ released \in BOOLEAN
    /\ disposed \in BOOLEAN
    /\ gave_up \subseteq Keys
    /\ retried \subseteq Keys
    /\ misplaced \subseteq USNs

Init ==
    /\ known = {}
    /\ pending_gets = {}
    /\ made = 0
    /\ proxies = {}
    /\ held = {}
    /\ doc_cache = [u \in Locations |-> NoDoc]
    /\ released = FALSE
    /\ disposed = FALSE
    /\ gave_up = {}
    /\ retried = {}
    /\ misplaced = {}

-----------------------------------------------------------------------------
(* Helpers of the handlers.                                                *)

HasProxyNever(k) == FALSE                                    \* faulty: no search
HasProxyHeld(k) == \E p \in proxies \cup held : p.key = k     \* faulty: finds old ones

HasProxy(k) == \E p \in proxies : p.key = k

\* The documents that would be alive with the proxies P and H
Alive(P, H) == {p.doc : p \in P \cup H}

\* doc_finalized(): a document that no proxy refers to leaves the cache.
CacheOf(cache, P, H) ==
    [u \in Locations |-> IF cache[u] \in Alive(P, H) THEN cache[u] ELSE NoDoc]

\* description_loaded() for a document of the location url: a proxy for the
\* key, if the document has the device or service and there is none yet.
Report(k, url, doc) ==
    IF k \in Provides[url] /\ ~HasProxy(k)
    THEN proxies \cup {[key |-> k, url |-> url, doc |-> doc]}
    ELSE proxies

NewGet(k, url, tries, timeout) ==
    [id |-> made + 1, key |-> k, url |-> url, state |-> "sent", cancelled |-> FALSE,
     tries |-> tries, timeout |-> timeout]

\* load_description() on the pending downloads G
LoadDescription(G, k, url, tries, timeout) ==
    IF doc_cache[url] # NoDoc
    THEN /\ proxies' = Report(k, url, doc_cache[url])
         /\ pending_gets' = G
         /\ UNCHANGED made
    ELSE /\ pending_gets' = G \cup {NewGet(k, url, tries, timeout)}
         /\ made' = made + 1
         /\ UNCHANGED proxies

\* find_get_description_url_data(): the first of the list
IsFirst(g) == \A h \in pending_gets : h.key = g.key => h.id <= g.id

CancelNone(K) == pending_gets              \* faulty: nothing is cancelled

\* The first download of each key in K is cancelled; it stays in the list.
CancelFirst(K) ==
    {IF g.key \in K /\ IsFirst(g) THEN [g EXCEPT !.cancelled = TRUE] ELSE g :
        g \in pending_gets}

\* Every download has a reference to the control point.  With the last one of
\* a released control point nothing but Dispose happens to it.
Referenced == ~released \/ pending_gets # {}

-----------------------------------------------------------------------------
(* Signals of the resource browser.                                        *)

\* gupnp_control_point_resource_available()
ResourceAvailable(usn, url) ==
    /\ Referenced
    /\ usn \notin known
    /\ doc_cache[url] # NoDoc \/ made < MaxGets
    /\ known' = known \cup {usn}
    /\ LoadDescription(pending_gets, KeyOf[usn], url,
                       GUPNP_MAX_DESCRIPTION_DOWNLOAD_RETRIES,
                       GUPNP_INITIAL_DESCRIPTION_RETRY_TIMEOUT)
    /\ misplaced' = IF KeyOf[usn] \in Provides[url] THEN misplaced \ {usn}
                    ELSE misplaced \cup {usn}
    /\ UNCHANGED <<held, doc_cache, lifetime, gave_up, retried>>

\* gupnp_control_point_resource_unavailable() for the USNs of U.  The
\* application may keep some of the proxies it had.
Unavailable(U) ==
    LET K == {KeyOf[u] : u \in U}
        gone == {p \in proxies : p.key \in K} IN
    /\ known' = known \ U
    /\ proxies' = proxies \ gone
    /\ \E kept \in SUBSET gone : held' = held \cup kept
    /\ pending_gets' = CancelFirst(K)

ResourceUnavailable(usn) ==
    /\ Referenced
    /\ usn \in known
    /\ Unavailable({usn})
    /\ doc_cache' = CacheOf(doc_cache, proxies', held')
    /\ UNCHANGED <<made, lifetime, history>>

\* The application deactivates the control point.
Deactivate ==
    /\ ~released
    /\ known # {}
    /\ Unavailable(known)
    /\ doc_cache' = CacheOf(doc_cache, proxies', held')
    /\ UNCHANGED <<made, lifetime, history>>

\* The application drops a proxy it had kept.
DropProxy(p) ==
    /\ p \in held
    /\ held' = held \ {p}
    /\ doc_cache' = CacheOf(doc_cache, proxies, held \ {p})
    /\ UNCHANGED <<known, pending_gets, made, proxies, lifetime, history>>

\* The application drops the control point while downloads keep it alive
Release ==
    /\ ~released
    /\ pending_gets # {}
    /\ released' = TRUE
    /\ UNCHANGED <<known, pending_gets, made, proxies, held, doc_cache, disposed, history>>

\* gupnp_control_point_dispose(), when no reference is left.  Deactivating the
\* browser empties its cache, so resource_unavailable() is called for all of it.
Dispose ==
    /\ ~disposed
    /\ pending_gets = {}
    /\ released' = TRUE
    /\ disposed' = TRUE
    /\ Unavailable(known)
    /\ doc_cache' = [u \in Locations |-> NoDoc]
    /\ UNCHANGED <<made, history>>

-----------------------------------------------------------------------------
(* got_description_url() for g.  A download cancelled before its callback  *)
(* ends as cancelled, whatever the network said.                           *)

Answered(g, outcome) ==
    /\ g \in pending_gets
    /\ g.state = "sent"
    /\ ~g.cancelled
    /\ outcome \in Outcomes

GotCancelled(g) ==
    /\ g \in pending_gets
    /\ g.state = "sent"
    /\ g.cancelled
    /\ pending_gets' = pending_gets \ {g}
    /\ UNCHANGED <<known, made, proxies, held, doc_cache, lifetime, history>>

\* An error of the transport other than a time-out
GotError(g) ==
    /\ Answered(g, "error")
    /\ pending_gets' = pending_gets \ {g}
    /\ gave_up' = gave_up \cup {g.key}
    /\ UNCHANGED <<known, made, proxies, held, doc_cache, lifetime, retried, misplaced>>

\* Another download has brought the document in the meantime.
GotCached(g) ==
    /\ \E outcome \in Outcomes \ {"error"} : Answered(g, outcome)
    /\ doc_cache[g.url] # NoDoc
    /\ proxies' = Report(g.key, g.url, doc_cache[g.url])
    /\ pending_gets' = pending_gets \ {g}
    /\ UNCHANGED <<known, made, held, doc_cache, lifetime, history>>

\* The document is cached for as long as the proxy made from it lives.
GotDescription(g) ==
    /\ Answered(g, "ok")
    /\ doc_cache[g.url] = NoDoc
    /\ proxies' = Report(g.key, g.url, g.id)
    /\ doc_cache' = CacheOf([doc_cache EXCEPT ![g.url] = g.id], proxies', held)
    /\ pending_gets' = pending_gets \ {g}
    /\ UNCHANGED <<known, made, held, lifetime, history>>

GotUnparsable(g) ==
    /\ Answered(g, "unparsable")
    /\ doc_cache[g.url] = NoDoc
    /\ pending_gets' = pending_gets \ {g}
    /\ gave_up' = gave_up \cup {g.key}
    /\ UNCHANGED <<known, made, proxies, held, doc_cache, lifetime, retried, misplaced>>

Failed(g) ==
    /\ \E outcome \in {"failure", "timed-out"} : Answered(g, outcome)
    /\ doc_cache[g.url] = NoDoc

\* A failure: the timer for the next try is started.
GotFailure(g) ==
    /\ Failed(g)
    /\ g.tries > 1
    /\ pending_gets' = (pending_gets \ {g}) \cup
          {[g EXCEPT !.state = "waiting", !.tries = @ - 1, !.timeout = 2 * @]}
    /\ UNCHANGED <<known, made, proxies, held, doc_cache, lifetime, history>>

\* The last failure
GotLastFailure(g) ==
    /\ Failed(g)
    /\ g.tries = 1
    /\ pending_gets' = pending_gets \ {g}
    /\ gave_up' = gave_up \cup {g.key}
    /\ UNCHANGED <<known, made, proxies, held, doc_cache, lifetime, retried, misplaced>>

\* faulty: the count and the time start again with every try
RetryTimeoutForever(g) ==
    /\ g \in pending_gets
    /\ g.state = "waiting"
    /\ pending_gets' = (pending_gets \ {g}) \cup
          {[g EXCEPT !.state = "sent", !.tries = GUPNP_MAX_DESCRIPTION_DOWNLOAD_RETRIES,
                     !.timeout = GUPNP_INITIAL_DESCRIPTION_RETRY_TIMEOUT]}
    /\ UNCHANGED <<known, made, proxies, held, doc_cache, lifetime, history>>

\* description_url_retry_timeout(): the description is loaded anew, with the
\* tries that are left, and the old data freed.
RetryTimeout(g) ==
    /\ g \in pending_gets
    /\ g.state = "waiting"
    /\ LoadDescription(pending_gets \ {g}, g.key, g.url, g.tries, g.timeout)
    /\ retried' = retried \cup {g.key}
    /\ UNCHANGED <<known, held, doc_cache, lifetime, gave_up, misplaced>>

-----------------------------------------------------------------------------
Browser ==
    \/ \E usn \in USNs, url \in Locations : ResourceAvailable(usn, url)
    \/ \E usn \in USNs : ResourceUnavailable(usn)

Application ==
    \/ Deactivate
    \/ \E p \in held : DropProxy(p)
    \/ Release
    \/ Dispose

Callback(g) ==
    \/ GotCancelled(g)
    \/ GotError(g)
    \/ GotCached(g)
    \/ GotDescription(g)
    \/ GotUnparsable(g)
    \/ GotFailure(g)
    \/ GotLastFailure(g)

Downloads ==
    \E g \in pending_gets : Callback(g) \/ RetryTimeout(g)

Next ==
    \/ Browser
    \/ Application
    \/ Downloads

Spec == Init /\ [][Next]_vars

\* The main loop dispatches callbacks and retry timers, and the network answers
\* or fails a download in the end.  A released control point is disposed with
\* its last reference.
Fairness ==
    /\ WF_vars(Downloads)
    /\ WF_vars(released /\ Dispose)

LiveSpec == Spec /\ Fairness

-----------------------------------------------------------------------------
(* Properties.                                                             *)

\* However many USNs announce a device and however their downloads cross, the
\* application has one proxy for each device and service at a time.  All proxies
\* of a location share one document, the cached one: a document leaves the cache
\* with its last proxy and not before, also when the application keeps a proxy
\* that has become unavailable.
OneOfEach ==
    /\ TypeOK
    /\ \A p, q \in proxies : p.key = q.key => p = q
    /\ ~disposed => \A p \in proxies \cup held : doc_cache[p.url] = p.doc
    /\ ~disposed => \A u \in Locations :
                        doc_cache[u] # NoDoc => doc_cache[u] \in Alive(proxies, held)

\* A resource that stays announced, at a location where it is described, gets its
\* proxy, or its download fails for good: what an earlier byebye cancelled, or an
\* earlier announcement led to, is not the download that is wanted now.  (Where a key
\* has several USNs the byebye of one takes the proxy while the others are still known.)
Shared(k) == \E u, v \in USNs : u # v /\ KeyOf[u] = k /\ KeyOf[v] = k

AnnouncedIsReported ==
    \A usn \in {u \in USNs : ~Shared(KeyOf[u])} :
        usn \in known ~> \/ usn \notin known
                         \/ \E p \in proxies : p.key = KeyOf[usn]
                         \/ KeyOf[usn] \in gave_up
                         \/ usn \in misplaced

\* Downloads come to an end, with so many tries for each, and so the references
\* they hold do not keep a control point for ever.
ReleasedIsDisposed ==
    /\ pending_gets # {} ~> pending_gets = {}
    /\ released ~> disposed

\* A byebye is final: "Find the description get request if it has not finished
\* yet and stop and remove it", so that nothing is reported that is not known.
Unknown(k) == \A usn \in known' : KeyOf[usn] # k

ByebyeIsFinal == [][\A p \in proxies' \ proxies : ~Unknown(p.key)]_vars

\* It is, as long as the key has one USN and none of its downloads had to be
\* tried again.
FinalForFirstTries ==
    [][\A p \in proxies' \ proxies :
          Unknown(p.key) => Shared(p.key) \/ p.key \in retried']_vars
=============================================================================
