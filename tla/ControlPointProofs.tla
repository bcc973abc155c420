------------------------- MODULE ControlPointProofs -------------------------
(***************************************************************************)
(* Proofs about ControlPoint, for any number of USNs, keys and locations,  *)
(* whatever the descriptions provide, and any number of tries.             *)
(***************************************************************************)
EXTENDS ControlPoint, TLAPS

-----------------------------------------------------------------------------
(* The inductive invariant.                                                *)

\* A disposed control point has no download left.
DisposedIsIdle == disposed => released /\ pending_gets = {}

\* Ids are those of downloads that were started.
IdsAreMade == \A g \in pending_gets : g.id <= made

\* Of the downloads for a key that has one USN, and that never had to be tried
\* again, the only one that is not cancelled is the first in the list, and the
\* USN is known.
OpenGet(g) ==
    ~g.cancelled /\ ~Shared(g.key) /\ g.key \notin retried =>
        IsFirst(g) /\ \E usn \in known : KeyOf[usn] = g.key

IInv ==
    /\ OneOfEach
    /\ DisposedIsIdle
    /\ IdsAreMade
    /\ \A g \in pending_gets : OpenGet(g)

-----------------------------------------------------------------------------
(* The operators of the model.                                             *)

\* A report adds a proxy of the document, if at all, for a key that has none.
LEMMA ReportAdds ==
    ASSUME OneOfEach, NEW k \in Keys, NEW url \in Locations, NEW doc \in Docs
    PROVE  /\ Report(k, url, doc) \subseteq Proxy
           /\ proxies \subseteq Report(k, url, doc)
           /\ \A p, q \in Report(k, url, doc) : p.key = q.key => p = q
           /\ \A p \in Report(k, url, doc) \ proxies :
                 p.key = k /\ p.url = url /\ p.doc = doc
<1> DEFINE new == [key |-> k, url |-> url, doc |-> doc]
<1>1. new \in Proxy /\ new.key = k /\ new.url = url /\ new.doc = doc
  BY DEF Proxy
<1>2. proxies \subseteq Proxy /\ \A p, q \in proxies : p.key = q.key => p = q
  BY DEF OneOfEach, TypeOK
<1>3. Report(k, url, doc) = proxies \/ (Report(k, url, doc) = proxies \cup {new} /\ ~HasProxy(k))
  BY DEF Report
<1> HIDE DEF new
<1> QED BY <1>1, <1>2, <1>3 DEF HasProxy

\* The cache keeps the documents of the proxies, and no others.
LEMMA CacheKeeps ==
    ASSUME NEW P \in SUBSET Proxy, NEW H \in SUBSET Proxy,
           NEW cache \in [Locations -> Docs \cup {NoDoc}],
           \A p \in P \cup H : cache[p.url] = p.doc
    PROVE  /\ CacheOf(cache, P, H) \in [Locations -> Docs \cup {NoDoc}]
           /\ \A p \in P \cup H : CacheOf(cache, P, H)[p.url] = p.doc
           /\ \A u \in Locations : CacheOf(cache, P, H)[u] # NoDoc =>
                                      CacheOf(cache, P, H)[u] \in Alive(P, H)
<1>1. CacheOf(cache, P, H) \in [Locations -> Docs \cup {NoDoc}]
  BY DEF CacheOf
<1>2. ASSUME NEW p \in P \cup H
      PROVE  CacheOf(cache, P, H)[p.url] = p.doc
  BY DEF CacheOf, Alive, Proxy
<1>3. \A u \in Locations : CacheOf(cache, P, H)[u] # NoDoc =>
                              CacheOf(cache, P, H)[u] \in Alive(P, H)
  BY DEF CacheOf
<1> QED BY <1>1, <1>2, <1>3

LEMMA NewGetType ==
    ASSUME made \in Nat, NEW k \in Keys, NEW url \in Locations,
           NEW tries \in 1 .. GUPNP_MAX_DESCRIPTION_DOWNLOAD_RETRIES, NEW timeout \in Nat
    PROVE  /\ NewGet(k, url, tries, timeout) \in GetDescriptionURLData
           /\ NewGet(k, url, tries, timeout).id = made + 1
           /\ NewGet(k, url, tries, timeout).key = k
BY DEF NewGet, GetDescriptionURLData

\* Loading a description adds a proxy of a cached document or a download.
LEMMA Loading ==
    ASSUME OneOfEach, NEW G \in SUBSET pending_gets, NEW k \in Keys, NEW url \in Locations,
           NEW tries \in 1 .. GUPNP_MAX_DESCRIPTION_DOWNLOAD_RETRIES, NEW timeout \in Nat,
           LoadDescription(G, k, url, tries, timeout)
    PROVE  \/ /\ doc_cache[url] \in Docs /\ proxies' = Report(k, url, doc_cache[url])
              /\ pending_gets' = G /\ made' = made
           \/ /\ proxies' = proxies /\ made' = made + 1
              /\ pending_gets' = G \cup {NewGet(k, url, tries, timeout)}
BY DEF OneOfEach, TypeOK, LoadDescription

-----------------------------------------------------------------------------
(* The inductive invariant holds at first, and each step keeps it.         *)

LEMMA IInvInit == Init => IInv
<1> SUFFICES ASSUME Init PROVE IInv
  OBVIOUS
<1>1. TypeOK
  BY DEF Init, TypeOK
<1>2. OneOfEach
  BY <1>1 DEF Init, OneOfEach
<1> QED BY <1>2 DEF Init, IInv, DisposedIsIdle, IdsAreMade

\* A step that takes proxies away, or none, and cleans the cache.
LEMMA TakeStep ==
    ASSUME OneOfEach, proxies' \subseteq proxies, held' \subseteq proxies \cup held,
           \/ doc_cache' = CacheOf(doc_cache, proxies', held')
           \/ doc_cache' = doc_cache /\ proxies' = proxies /\ held' = held
           \/ doc_cache' = [u \in Locations |-> NoDoc] /\ disposed',
           disposed => disposed', disposed' \in BOOLEAN, released' \in BOOLEAN,
           known' \subseteq USNs, pending_gets' \subseteq GetDescriptionURLData, made' \in Nat,
           gave_up' \subseteq Keys, retried' \subseteq Keys, misplaced' \subseteq USNs
    PROVE  OneOfEach'
<1> USE DEF OneOfEach
<1>1. /\ proxies' \in SUBSET Proxy /\ held' \in SUBSET Proxy
      /\ doc_cache \in [Locations -> Docs \cup {NoDoc}]
  BY DEF TypeOK
<1>2. \A p, q \in proxies' : p.key = q.key => p = q
  OBVIOUS
<1>3. ASSUME doc_cache' = CacheOf(doc_cache, proxies', held') PROVE OneOfEach'
  <2>1. CASE disposed
    <3>1. CacheOf(doc_cache, proxies', held') \in [Locations -> Docs \cup {NoDoc}]
      BY <1>1 DEF CacheOf
    <3>2. TypeOK'
      BY <1>1, <1>3, <3>1 DEF TypeOK
    <3> QED BY <1>2, <2>1, <3>2
  <2>2. CASE ~disposed
    <3>1. \A p \in proxies' \cup held' : doc_cache[p.url] = p.doc
      BY <2>2
    <3>2. /\ doc_cache' \in [Locations -> Docs \cup {NoDoc}]
          /\ \A p \in proxies' \cup held' : doc_cache'[p.url] = p.doc
          /\ \A u \in Locations : doc_cache'[u] # NoDoc => doc_cache'[u] \in Alive(proxies', held')
      BY <1>1, <1>3, <3>1, CacheKeeps
    <3>3. TypeOK'
      BY <1>1, <3>2 DEF TypeOK
    <3> QED BY <1>2, <3>2, <3>3
  <2> QED BY <2>1, <2>2
<1> QED BY <1>1, <1>2, <1>3 DEF TypeOK, Alive

\* A step that reports the cached document of url.
LEMMA CachedStep ==
    ASSUME OneOfEach, NEW k \in Keys, NEW url \in Locations, doc_cache[url] \in Docs,
           proxies' = Report(k, url, doc_cache[url]),
           UNCHANGED <<held, doc_cache, released, disposed, gave_up>>,
           known' \subseteq USNs, pending_gets' \subseteq GetDescriptionURLData, made' \in Nat,
           retried' \subseteq Keys, misplaced' \subseteq USNs
    PROVE  OneOfEach'
<1>1. /\ proxies' \subseteq Proxy /\ proxies \subseteq proxies'
      /\ \A p, q \in proxies' : p.key = q.key => p = q
      /\ \A p \in proxies' \ proxies : p.key = k /\ p.url = url /\ p.doc = doc_cache[url]
  BY ReportAdds
<1>2. TypeOK'
  BY <1>1 DEF OneOfEach, TypeOK
<1>3. Alive(proxies, held) \subseteq Alive(proxies', held')
  BY <1>1 DEF Alive
<1> QED BY <1>1, <1>2, <1>3 DEF OneOfEach

\* A step that reports a new document of url, where none is in the cache.
LEMMA NewDocStep ==
    ASSUME OneOfEach, NEW k \in Keys, NEW url \in Locations, NEW doc \in Docs,
           doc_cache[url] = NoDoc,
           proxies' = Report(k, url, doc),
           doc_cache' = CacheOf([doc_cache EXCEPT ![url] = doc], proxies', held),
           UNCHANGED <<known, made, held, released, disposed, history>>,
           pending_gets' \subseteq GetDescriptionURLData
    PROVE  OneOfEach'
<1> DEFINE cache == [doc_cache EXCEPT ![url] = doc]
<1>1. /\ proxies' \subseteq Proxy /\ proxies \subseteq proxies'
      /\ \A p, q \in proxies' : p.key = q.key => p = q
      /\ \A p \in proxies' \ proxies : p.key = k /\ p.url = url /\ p.doc = doc
  BY ReportAdds
<1>2. /\ cache \in [Locations -> Docs \cup {NoDoc}] /\ cache[url] = doc
      /\ \A u \in Locations \ {url} : cache[u] = doc_cache[u]
      /\ held \in SUBSET Proxy
  BY DEF OneOfEach, TypeOK
<1>3. doc_cache' = CacheOf(cache, proxies', held')
  OBVIOUS
<1> HIDE DEF cache
<1>4. ~disposed => \A p \in proxies' \cup held' : cache[p.url] = p.doc
  <2> SUFFICES ASSUME ~disposed, NEW p \in proxies' \cup held'
               PROVE  cache[p.url] = p.doc
    OBVIOUS
  <2>1. CASE p \in proxies \cup held
    <3>1. p \in Proxy /\ doc_cache[p.url] = p.doc
      BY <2>1 DEF OneOfEach, TypeOK
    <3>2. p.url \in Locations /\ p.doc \in Nat
      BY <3>1 DEF Proxy, Docs
    <3>3. p.url # url
      BY <3>1, <3>2, ControlPointAssumption
    <3> QED BY <1>2, <3>1, <3>2, <3>3
  <2>2. CASE p \notin proxies \cup held
    BY <1>1, <1>2, <2>2
  <2> QED BY <2>1, <2>2
<1>5. CacheOf(cache, proxies', held') \in [Locations -> Docs \cup {NoDoc}]
  BY <1>2 DEF CacheOf
<1>6. TypeOK'
  BY <1>1, <1>3, <1>5 DEF OneOfEach, TypeOK, history
<1>7. ~disposed =>
         /\ \A p \in proxies' \cup held' : doc_cache'[p.url] = p.doc
         /\ \A u \in Locations : doc_cache'[u] # NoDoc => doc_cache'[u] \in Alive(proxies', held')
  <2> SUFFICES ASSUME ~disposed
               PROVE  /\ \A p \in proxies' \cup held' : doc_cache'[p.url] = p.doc
                      /\ \A u \in Locations :
                            doc_cache'[u] # NoDoc => doc_cache'[u] \in Alive(proxies', held')
    OBVIOUS
  <2>1. proxies' \in SUBSET Proxy /\ held' \in SUBSET Proxy
    BY <1>1, <1>2
  <2>2. \A p \in proxies' \cup held' : cache[p.url] = p.doc
    BY <1>4
  <2>3. \A P, H \in SUBSET Proxy :
           (\A p \in P \cup H : cache[p.url] = p.doc) =>
              /\ \A p \in P \cup H : CacheOf(cache, P, H)[p.url] = p.doc
              /\ \A u \in Locations : CacheOf(cache, P, H)[u] # NoDoc =>
                                         CacheOf(cache, P, H)[u] \in Alive(P, H)
    BY <1>2, CacheKeeps
  <2>4. /\ \A p \in proxies' \cup held' : CacheOf(cache, proxies', held')[p.url] = p.doc
        /\ \A u \in Locations : CacheOf(cache, proxies', held')[u] # NoDoc =>
                                   CacheOf(cache, proxies', held')[u] \in Alive(proxies', held')
    BY <2>1, <2>2, <2>3, Zenon
  <2> QED BY <1>3, <2>4, Zenon
<1> QED BY <1>1, <1>6, <1>7 DEF OneOfEach

\* A step that takes downloads away, or none, keeps what holds of the rest.
LEMMA FewerGets ==
    ASSUME IInv, pending_gets' \subseteq pending_gets, made' >= made, made' \in Nat,
           known \subseteq known', retried \subseteq retried'
    PROVE  /\ pending_gets' \subseteq GetDescriptionURLData
           /\ IdsAreMade' /\ \A g \in pending_gets' : OpenGet(g)'
<1>1. pending_gets' \subseteq GetDescriptionURLData
  BY DEF IInv, OneOfEach, TypeOK
<1>2. IdsAreMade'
  BY <1>1 DEF IInv, IdsAreMade, OneOfEach, TypeOK, GetDescriptionURLData
<1>3. ASSUME NEW g \in pending_gets' PROVE OpenGet(g)'
  <2>1. OpenGet(g)
    BY DEF IInv
  <2> QED BY <2>1 DEF OpenGet, IsFirst, Shared
<1> QED BY <1>1, <1>2, <1>3

\* Cancelling the first download of every key of the USNs that go leaves none
\* open for them.
LEMMA Cancelling ==
    ASSUME IInv, NEW U \in SUBSET known,
           known' = known \ U, pending_gets' = CancelFirst({KeyOf[u] : u \in U}),
           UNCHANGED <<made, retried>>
    PROVE  /\ pending_gets' \subseteq GetDescriptionURLData
           /\ IdsAreMade' /\ \A g \in pending_gets' : OpenGet(g)'
<1> DEFINE K == {KeyOf[u] : u \in U}
<1>1. pending_gets \subseteq GetDescriptionURLData /\ made \in Nat
  BY DEF IInv, OneOfEach, TypeOK
<1>2. \A g \in pending_gets :
         /\ [g EXCEPT !.cancelled = TRUE] \in GetDescriptionURLData
         /\ [g EXCEPT !.cancelled = TRUE].id = g.id
         /\ [g EXCEPT !.cancelled = TRUE].key = g.key
         /\ [g EXCEPT !.cancelled = TRUE].cancelled
  BY <1>1 DEF GetDescriptionURLData
<1>3. \A h \in pending_gets' : \E g \in pending_gets :
         /\ h = IF g.key \in K /\ IsFirst(g) THEN [g EXCEPT !.cancelled = TRUE] ELSE g
         /\ h.id = g.id /\ h.key = g.key
  BY <1>2 DEF CancelFirst
<1>4. pending_gets' \subseteq GetDescriptionURLData
  BY <1>1, <1>2, <1>3
<1>5. IdsAreMade'
  BY <1>3 DEF IInv, IdsAreMade
<1>6. ASSUME NEW h \in pending_gets' PROVE OpenGet(h)'
  <2> SUFFICES ASSUME ~h.cancelled, ~Shared(h.key), h.key \notin retried
               PROVE  IsFirst(h)' /\ \E usn \in known' : KeyOf[usn] = h.key
    BY DEF OpenGet, Shared
  <2>1. PICK g \in pending_gets :
           /\ h = IF g.key \in K /\ IsFirst(g) THEN [g EXCEPT !.cancelled = TRUE] ELSE g
           /\ h.id = g.id /\ h.key = g.key
    BY <1>3
  <2>2. h = g /\ ~(g.key \in K /\ IsFirst(g))
    BY <1>2, <2>1
  <2>3. IsFirst(g) /\ \E usn \in known : KeyOf[usn] = g.key
    BY <2>2 DEF IInv, OpenGet
  <2>4. g.key \notin K
    BY <2>2, <2>3
  <2>5. \E usn \in known' : KeyOf[usn] = g.key
    BY <2>3, <2>4
  <2>6. IsFirst(h)'
    BY <1>3, <2>2, <2>3 DEF IsFirst
  <2> QED BY <2>2, <2>5, <2>6
<1> QED BY <1>4, <1>5, <1>6

LEMMA ResourceAvailableStep ==
    ASSUME IInv, NEW usn \in USNs, NEW url \in Locations, ResourceAvailable(usn, url)
    PROVE  IInv' /\ \A p \in proxies' \ proxies : ~Unknown(p.key)
<1> USE DEF IInv
<1> DEFINE k == KeyOf[usn]
           g == NewGet(k, url, GUPNP_MAX_DESCRIPTION_DOWNLOAD_RETRIES,
                       GUPNP_INITIAL_DESCRIPTION_RETRY_TIMEOUT)
<1>1. /\ k \in Keys /\ made \in Nat /\ ~disposed
      /\ GUPNP_MAX_DESCRIPTION_DOWNLOAD_RETRIES \in 1 .. GUPNP_MAX_DESCRIPTION_DOWNLOAD_RETRIES
      /\ GUPNP_INITIAL_DESCRIPTION_RETRY_TIMEOUT \in Nat
      /\ pending_gets \subseteq GetDescriptionURLData
  BY ControlPointAssumption DEF ResourceAvailable, Referenced, OneOfEach, TypeOK, DisposedIsIdle
<1>2. /\ usn \notin known /\ known' = known \cup {usn} /\ known' \subseteq USNs
      /\ misplaced' \subseteq USNs
      /\ UNCHANGED <<held, doc_cache, released, disposed, gave_up, retried>>
  BY DEF ResourceAvailable, lifetime, OneOfEach, TypeOK
<1>3. LoadDescription(pending_gets, k, url, GUPNP_MAX_DESCRIPTION_DOWNLOAD_RETRIES,
                      GUPNP_INITIAL_DESCRIPTION_RETRY_TIMEOUT)
  BY DEF ResourceAvailable
<1>4. ~Unknown(k)
  BY <1>2 DEF Unknown
<1>5. \/ /\ doc_cache[url] \in Docs /\ proxies' = Report(k, url, doc_cache[url])
         /\ pending_gets' = pending_gets /\ made' = made
      \/ /\ proxies' = proxies /\ made' = made + 1
         /\ pending_gets' = pending_gets \cup {g}
  BY <1>1, <1>3, Loading
<1>6. g \in GetDescriptionURLData /\ g.id = made + 1 /\ g.key = k
  BY <1>1, NewGetType
<1> HIDE DEF k, g
<1>7. retried \subseteq Keys /\ gave_up \subseteq Keys /\ released \in BOOLEAN
  BY DEF OneOfEach, TypeOK
<1>8. CASE /\ doc_cache[url] \in Docs /\ proxies' = Report(k, url, doc_cache[url])
           /\ pending_gets' = pending_gets /\ made' = made
  <2>1. OneOfEach'
    BY <1>1, <1>2, <1>7, <1>8, CachedStep
  <2>2. IdsAreMade' /\ \A h \in pending_gets' : OpenGet(h)'
    BY <1>1, <1>2, <1>8, FewerGets
  <2>3. \A p \in proxies' \ proxies : p.key = k
    BY <1>1, <1>8, ReportAdds
  <2> QED BY <1>1, <1>2, <1>4, <2>1, <2>2, <2>3 DEF DisposedIsIdle
<1>9. CASE /\ proxies' = proxies /\ made' = made + 1
           /\ pending_gets' = pending_gets \cup {g}
  <2>1. OneOfEach'
    BY <1>1, <1>2, <1>6, <1>9 DEF OneOfEach, TypeOK, Alive
  <2>2. IdsAreMade'
    BY <1>1, <1>6, <1>9 DEF IdsAreMade, GetDescriptionURLData
  <2>3. \A h \in pending_gets : h.id \in Nat /\ h.id <= made
    BY <1>1 DEF IdsAreMade, GetDescriptionURLData
  <2>4. ASSUME NEW h \in pending_gets' PROVE OpenGet(h)'
    <3> SUFFICES ASSUME ~h.cancelled, ~Shared(h.key), h.key \notin retried
                 PROVE  IsFirst(h)' /\ \E u \in known' : KeyOf[u] = h.key
      BY <1>2 DEF OpenGet, Shared
    <3>1. CASE h = g
      <4>1. \A i \in pending_gets' : i.id <= g.id
        BY <1>1, <1>6, <1>9, <2>3
      <4> QED BY <1>2, <1>6, <3>1, <4>1 DEF IsFirst, k
    <3>2. CASE h # g
      <4>1. h \in pending_gets /\ IsFirst(h) /\ \E u \in known : KeyOf[u] = h.key
        BY <1>9, <3>2 DEF OpenGet
      <4>2. h.key # k
        BY <1>2, <4>1 DEF Shared, OneOfEach, TypeOK, k
      <4> QED BY <1>2, <1>6, <1>9, <4>1, <4>2 DEF IsFirst
    <3> QED BY <3>1, <3>2
  <2> QED BY <1>1, <1>2, <1>9, <2>1, <2>2, <2>4 DEF DisposedIsIdle
<1> QED BY <1>5, <1>8, <1>9

\* The resources of U become unavailable; proxies go, and their documents.
LEMMA UnavailableStep ==
    ASSUME IInv, NEW U \in SUBSET known, Unavailable(U),
           \/ doc_cache' = CacheOf(doc_cache, proxies', held')
           \/ doc_cache' = [u \in Locations |-> NoDoc] /\ disposed',
           UNCHANGED <<made, gave_up, retried, misplaced>>,
           disposed => disposed', disposed' \in BOOLEAN, released' \in BOOLEAN,
           disposed' => released' /\ pending_gets = {}
    PROVE  IInv' /\ proxies' \subseteq proxies
<1> USE DEF IInv
<1>1. /\ known' = known \ U /\ proxies' \subseteq proxies
      /\ held' \subseteq proxies \cup held
      /\ pending_gets' = CancelFirst({KeyOf[u] : u \in U})
  BY DEF Unavailable
<1>2. /\ pending_gets' \subseteq GetDescriptionURLData
      /\ IdsAreMade' /\ \A g \in pending_gets' : OpenGet(g)'
  BY <1>1, Cancelling
<1>3. /\ known' \subseteq USNs /\ made' \in Nat
      /\ gave_up' \subseteq Keys /\ retried' \subseteq Keys /\ misplaced' \subseteq USNs
  BY <1>1 DEF OneOfEach, TypeOK
<1>4. OneOfEach'
  BY <1>1, <1>2, <1>3, TakeStep
<1>5. DisposedIsIdle'
  BY <1>1 DEF DisposedIsIdle, CancelFirst
<1> QED BY <1>1, <1>2, <1>4, <1>5

\* A download ends, and with it at most gave_up changes.
LEMMA EndedStep ==
    ASSUME IInv, NEW g \in pending_gets, pending_gets' = pending_gets \ {g},
           gave_up' \subseteq Keys,
           UNCHANGED <<known, made, proxies, held, doc_cache, lifetime, retried, misplaced>>
    PROVE  IInv' /\ proxies' \subseteq proxies
<1> USE DEF IInv
<1>1. /\ pending_gets' \subseteq GetDescriptionURLData
      /\ IdsAreMade' /\ \A h \in pending_gets' : OpenGet(h)'
  <2>1. made' >= made /\ made' \in Nat
    BY DEF OneOfEach, TypeOK
  <2> QED BY <2>1, FewerGets
<1>2. OneOfEach'
  BY <1>1 DEF OneOfEach, TypeOK, lifetime, Alive
<1>3. DisposedIsIdle'
  BY DEF DisposedIsIdle, lifetime
<1> QED BY <1>1, <1>2, <1>3

\* A download that has waited for the retry timer starts again, or its document
\* is there by now.
LEMMA RetryTimeoutStep ==
    ASSUME IInv, NEW g \in pending_gets, RetryTimeout(g)
    PROVE  IInv' /\ \A p \in proxies' \ proxies : p.key \in retried'
<1> USE DEF IInv
<1> DEFINE n == NewGet(g.key, g.url, g.tries, g.timeout)
           G == pending_gets \ {g}
<1>1. /\ g.key \in Keys /\ g.url \in Locations /\ g.timeout \in Nat
      /\ g.tries \in 1 .. GUPNP_MAX_DESCRIPTION_DOWNLOAD_RETRIES
      /\ made \in Nat /\ pending_gets \subseteq GetDescriptionURLData
      /\ ~disposed
  BY DEF OneOfEach, TypeOK, GetDescriptionURLData, DisposedIsIdle
<1>2. /\ LoadDescription(G, g.key, g.url, g.tries, g.timeout)
      /\ retried' = retried \cup {g.key} /\ retried' \subseteq Keys
      /\ UNCHANGED <<known, held, doc_cache, released, disposed, gave_up, misplaced>>
  BY <1>1 DEF RetryTimeout, lifetime, OneOfEach, TypeOK
<1>3. \/ /\ doc_cache[g.url] \in Docs /\ proxies' = Report(g.key, g.url, doc_cache[g.url])
         /\ pending_gets' = G /\ made' = made
      \/ /\ proxies' = proxies /\ made' = made + 1
         /\ pending_gets' = G \cup {n}
  BY <1>1, <1>2, Loading
<1>4. n \in GetDescriptionURLData /\ n.id = made + 1 /\ n.key = g.key
  BY <1>1, NewGetType
<1> HIDE DEF n
<1>5. known' \subseteq USNs /\ gave_up' \subseteq Keys /\ misplaced' \subseteq USNs
  BY <1>2 DEF OneOfEach, TypeOK
<1>6. CASE /\ doc_cache[g.url] \in Docs /\ proxies' = Report(g.key, g.url, doc_cache[g.url])
           /\ pending_gets' = G /\ made' = made
  <2>1. OneOfEach'
    BY <1>1, <1>2, <1>5, <1>6, CachedStep
  <2>2. IdsAreMade' /\ \A h \in pending_gets' : OpenGet(h)'
    BY <1>1, <1>2, <1>6, FewerGets
  <2>3. \A p \in proxies' \ proxies : p.key = g.key
    BY <1>1, <1>6, ReportAdds
  <2> QED BY <1>1, <1>2, <2>1, <2>2, <2>3 DEF DisposedIsIdle
<1>7. CASE /\ proxies' = proxies /\ made' = made + 1
           /\ pending_gets' = G \cup {n}
  <2>1. OneOfEach'
    BY <1>1, <1>2, <1>4, <1>5, <1>7 DEF OneOfEach, TypeOK, Alive
  <2>2. IdsAreMade'
    BY <1>1, <1>4, <1>7 DEF IdsAreMade, GetDescriptionURLData
  <2>3. ASSUME NEW h \in pending_gets' PROVE OpenGet(h)'
    <3> SUFFICES ASSUME ~h.cancelled, ~Shared(h.key), h.key \notin retried'
                 PROVE  IsFirst(h)' /\ \E u \in known' : KeyOf[u] = h.key
      BY DEF OpenGet, Shared
    <3>1. h.key # g.key /\ h.key \notin retried
      BY <1>2
    <3>2. h \in pending_gets /\ IsFirst(h) /\ \E u \in known : KeyOf[u] = h.key
      BY <1>4, <1>7, <3>1 DEF OpenGet
    <3> QED BY <1>2, <1>4, <1>7, <3>1, <3>2 DEF IsFirst
  <2> QED BY <1>1, <1>2, <1>7, <2>1, <2>2, <2>3 DEF DisposedIsIdle
<1> QED BY <1>3, <1>6, <1>7

\* What a description that is not cancelled may report is still announced.
LEMMA OpenIsKnown ==
    ASSUME IInv, NEW g \in pending_gets, ~g.cancelled, UNCHANGED <<known, retried>>,
           NEW k, k = g.key
    PROVE  Unknown(k) => Shared(k) \/ k \in retried'
BY DEF IInv, OpenGet, Unknown

LEMMA CallbackStep ==
    ASSUME IInv, NEW g \in pending_gets, Callback(g)
    PROVE  /\ IInv'
           /\ \A p \in proxies' \ proxies : Unknown(p.key) => Shared(p.key) \/ p.key \in retried'
<1> USE DEF IInv
<1>1. /\ g.key \in Keys /\ g.url \in Locations /\ g.timeout \in Nat /\ g.id \in Nat \ {0}
      /\ g \in GetDescriptionURLData
      /\ made \in Nat /\ pending_gets \subseteq GetDescriptionURLData
      /\ gave_up \subseteq Keys /\ ~disposed
  BY DEF OneOfEach, TypeOK, GetDescriptionURLData, DisposedIsIdle
<1>2. CASE GotCancelled(g) \/ GotError(g) \/ GotUnparsable(g) \/ GotLastFailure(g)
  <2>1. /\ pending_gets' = pending_gets \ {g} /\ gave_up' \subseteq Keys
        /\ UNCHANGED <<known, made, proxies, held, doc_cache, lifetime, retried, misplaced>>
    BY <1>1, <1>2 DEF GotCancelled, GotError, GotUnparsable, GotLastFailure, history
  <2> QED BY <2>1, EndedStep
<1>3. CASE GotCached(g)
  <2>1. /\ ~g.cancelled /\ doc_cache[g.url] \in Docs
        /\ proxies' = Report(g.key, g.url, doc_cache[g.url])
        /\ pending_gets' = pending_gets \ {g}
        /\ UNCHANGED <<known, made, held, doc_cache, released, disposed, gave_up, retried, misplaced>>
    BY <1>1, <1>3 DEF GotCached, Answered, lifetime, history, OneOfEach, TypeOK
  <2>2. /\ pending_gets' \subseteq GetDescriptionURLData
        /\ IdsAreMade' /\ \A h \in pending_gets' : OpenGet(h)'
    BY <1>1, <2>1, FewerGets
  <2>3. OneOfEach'
    BY <1>1, <2>1, <2>2, CachedStep DEF OneOfEach, TypeOK
  <2>4. \A p \in proxies' \ proxies : p.key = g.key
    BY <1>1, <2>1, ReportAdds
  <2> QED BY <1>1, <2>1, <2>2, <2>3, <2>4, OpenIsKnown DEF DisposedIsIdle
<1>4. CASE GotDescription(g)
  <2>1. /\ ~g.cancelled /\ doc_cache[g.url] = NoDoc
        /\ proxies' = Report(g.key, g.url, g.id)
        /\ doc_cache' = CacheOf([doc_cache EXCEPT ![g.url] = g.id], proxies', held)
        /\ pending_gets' = pending_gets \ {g}
        /\ UNCHANGED <<known, made, held, released, disposed, history>>
        /\ retried' = retried
    BY <1>1, <1>4 DEF GotDescription, Answered, lifetime, history
  <2>2. /\ pending_gets' \subseteq GetDescriptionURLData
        /\ IdsAreMade' /\ \A h \in pending_gets' : OpenGet(h)'
    BY <1>1, <2>1, FewerGets
  <2>3. g.id \in Docs
    BY <1>1 DEF Docs
  <2>4. OneOfEach'
    BY <1>1, <2>1, <2>2, <2>3, NewDocStep
  <2>5. \A p \in proxies' \ proxies : p.key = g.key
    BY <1>1, <2>1, <2>3, ReportAdds
  <2> QED BY <1>1, <2>1, <2>2, <2>4, <2>5, OpenIsKnown DEF DisposedIsIdle
<1>5. CASE GotFailure(g)
  <2> DEFINE n == [g EXCEPT !.state = "waiting", !.tries = @ - 1, !.timeout = 2 * @]
  <2>1. /\ g.tries > 1 /\ ~g.cancelled
        /\ pending_gets' = (pending_gets \ {g}) \cup {n}
        /\ UNCHANGED <<known, made, proxies, held, doc_cache, released, disposed>>
        /\ UNCHANGED <<gave_up, retried, misplaced>>
    BY <1>5 DEF GotFailure, Failed, Answered, lifetime, history
  <2>2. /\ n.id = g.id /\ n.key = g.key /\ n.cancelled = g.cancelled
    BY <1>1 DEF GetDescriptionURLData
  <2>3. n \in GetDescriptionURLData
    <3>1. /\ g.tries - 1 \in 1 .. GUPNP_MAX_DESCRIPTION_DOWNLOAD_RETRIES
          /\ 2 * g.timeout \in Nat
      BY <1>1, <2>1, ControlPointAssumption DEF GetDescriptionURLData
    <3> QED BY <1>1, <3>1 DEF GetDescriptionURLData
  <2> HIDE DEF n
  <2>4. OneOfEach'
    BY <1>1, <2>1, <2>3 DEF OneOfEach, TypeOK, Alive
  <2>5. IdsAreMade'
    BY <2>1, <2>2 DEF IdsAreMade
  <2>6. ASSUME NEW h \in pending_gets' PROVE OpenGet(h)'
    <3> SUFFICES ASSUME ~h.cancelled, ~Shared(h.key), h.key \notin retried
                 PROVE  IsFirst(h)' /\ \E u \in known' : KeyOf[u] = h.key
      BY <2>1 DEF OpenGet, Shared
    <3>1. PICK i \in pending_gets : h.id = i.id /\ h.key = i.key /\ h.cancelled = i.cancelled
      BY <2>1, <2>2
    <3>2. IsFirst(i) /\ \E u \in known : KeyOf[u] = i.key
      BY <3>1 DEF OpenGet
    <3> QED BY <2>1, <2>2, <3>1, <3>2 DEF IsFirst
  <2> QED BY <1>1, <2>1, <2>4, <2>5, <2>6 DEF DisposedIsIdle
<1> QED BY <1>2, <1>3, <1>4, <1>5 DEF Callback

\* What concerns neither downloads nor proxies in use.
LEMMA QuietStep ==
    ASSUME IInv, UNCHANGED <<known, pending_gets, made, proxies, disposed>>,
           UNCHANGED <<gave_up, retried, misplaced>>,
           \/ released' = TRUE /\ UNCHANGED <<held, doc_cache>>
           \/ UNCHANGED <<released, held, doc_cache>>
           \/ /\ released' = released /\ held' \subseteq held
              /\ doc_cache' = CacheOf(doc_cache, proxies', held')
    PROVE  IInv'
<1> USE DEF IInv
<1>1. /\ made \in Nat /\ known' \subseteq USNs /\ pending_gets' \subseteq GetDescriptionURLData
      /\ disposed' \in BOOLEAN /\ released' \in BOOLEAN
      /\ gave_up' \subseteq Keys /\ retried' \subseteq Keys /\ misplaced' \subseteq USNs
  BY DEF OneOfEach, TypeOK
<1>2. OneOfEach'
  BY <1>1, TakeStep
<1>3. IdsAreMade' /\ \A g \in pending_gets' : OpenGet(g)'
  BY <1>1, FewerGets
<1>4. DisposedIsIdle'
  BY DEF DisposedIsIdle
<1> QED BY <1>2, <1>3, <1>4

LEMMA IInvStep ==
    ASSUME IInv, [Next]_vars
    PROVE  /\ IInv'
           /\ \A p \in proxies' \ proxies : Unknown(p.key) => Shared(p.key) \/ p.key \in retried'
<1>1. ASSUME NEW usn \in USNs, NEW url \in Locations, ResourceAvailable(usn, url)
      PROVE  IInv' /\ \A p \in proxies' \ proxies : ~Unknown(p.key)
  BY <1>1, ResourceAvailableStep
<1>2. ASSUME NEW usn \in USNs, ResourceUnavailable(usn)
      PROVE  IInv' /\ proxies' \subseteq proxies
  <2>1. /\ {usn} \in SUBSET known /\ Unavailable({usn})
        /\ doc_cache' = CacheOf(doc_cache, proxies', held')
        /\ UNCHANGED <<made, released, disposed, gave_up, retried, misplaced>>
    BY <1>2 DEF ResourceUnavailable, lifetime, history
  <2>2. /\ disposed' \in BOOLEAN /\ released' \in BOOLEAN
        /\ disposed' => released' /\ pending_gets = {}
    BY <2>1 DEF IInv, OneOfEach, TypeOK, DisposedIsIdle
  <2> QED BY <2>1, <2>2, UnavailableStep
<1>3. CASE Deactivate
  <2>1. /\ known \in SUBSET known /\ Unavailable(known)
        /\ doc_cache' = CacheOf(doc_cache, proxies', held')
        /\ UNCHANGED <<made, released, disposed, gave_up, retried, misplaced>>
    BY <1>3 DEF Deactivate, lifetime, history
  <2>2. /\ disposed' \in BOOLEAN /\ released' \in BOOLEAN
        /\ disposed' => released' /\ pending_gets = {}
    BY <2>1 DEF IInv, OneOfEach, TypeOK, DisposedIsIdle
  <2> QED BY <2>1, <2>2, UnavailableStep
<1>4. CASE Dispose
  <2>1. /\ known \in SUBSET known /\ Unavailable(known)
        /\ doc_cache' = [u \in Locations |-> NoDoc] /\ disposed' = TRUE /\ released' = TRUE
        /\ pending_gets = {} /\ UNCHANGED <<made, gave_up, retried, misplaced>>
    BY <1>4 DEF Dispose, history
  <2> QED BY <2>1, UnavailableStep
<1>5. ASSUME NEW p \in held, DropProxy(p)
      PROVE  IInv' /\ proxies' \subseteq proxies
  <2>1. /\ held' \subseteq held /\ doc_cache' = CacheOf(doc_cache, proxies', held')
        /\ UNCHANGED <<known, pending_gets, made, proxies, disposed, released>>
        /\ UNCHANGED <<gave_up, retried, misplaced>>
    BY <1>5 DEF DropProxy, lifetime, history
  <2> QED BY <2>1, QuietStep
<1>6. CASE Release \/ UNCHANGED vars
  <2>1. /\ released' = TRUE \/ released' = released
        /\ UNCHANGED <<known, pending_gets, made, proxies, held, doc_cache, disposed>>
        /\ UNCHANGED <<gave_up, retried, misplaced>>
    BY <1>6 DEF Release, vars, lifetime, history
  <2> QED BY <2>1, QuietStep
<1>7. ASSUME NEW g \in pending_gets, Callback(g) \/ RetryTimeout(g)
      PROVE  /\ IInv'
             /\ \A p \in proxies' \ proxies : Unknown(p.key) => Shared(p.key) \/ p.key \in retried'
  BY <1>7, CallbackStep, RetryTimeoutStep
<1> QED BY <1>1, <1>2, <1>3, <1>4, <1>5, <1>6, <1>7 DEF Next, Browser, Application, Downloads

LEMMA Invariance == Spec => []IInv
<1>1. IInv /\ [Next]_vars => IInv'
  BY IInvStep
<1> QED BY <1>1, IInvInit, PTL DEF Spec

-----------------------------------------------------------------------------
(* What follows.                                                           *)

\* However downloads, retries, announcements and byebyes cross, a device or
\* service has one proxy at a time, and the cache has the documents of the
\* proxies in use, each at its location, and no others.
THEOREM ProxiesAreOneOfEach == Spec => []OneOfEach
<1>1. IInv => OneOfEach
  BY DEF IInv
<1> QED BY <1>1, Invariance, PTL

\* After its byebye a resource is not reported by a download that was under way,
\* if it has one USN and the download was not a retry: for any number of
\* downloads, as the only one not cancelled is the one the byebye cancels.
THEOREM ByebyeCancels == Spec => FinalForFirstTries
<1>1. IInv /\ [Next]_vars =>
          [\A p \in proxies' \ proxies :
              Unknown(p.key) => Shared(p.key) \/ p.key \in retried']_vars
  BY IInvStep
<1> QED BY <1>1, Invariance, PTL DEF Spec, FinalForFirstTries

=============================================================================
