---------------------------- MODULE PartsProofs ----------------------------
(***************************************************************************)
(* Proofs about seven of the parts: the notify callbacks of a proxy, the   *)
(* introspection cache, the context manager with its filter, the HTTP      *)
(* server, addresses, service descriptions and device descriptions; and    *)
(* that all parts are typed.  Each has an inductive invariant of its own;  *)
(* the other parts leave its variables alone.  The eighth part, the        *)
(* platforms, is in PlatformsProofs.                                       *)
(***************************************************************************)
EXTENDS PlatformsProofs

-----------------------------------------------------------------------------
(* Notify callbacks: how far an emission has come in a list.               *)

\* The entries before position k that stayed have been called, and none from
\* there on has.
UpTo(s, k, stayed, called) ==
    \A j \in 1 .. Len(s) :
        /\ j < k /\ s[j] \in stayed => s[j] \in called
        /\ j >= k => s[j] \notin called

\* A new entry at the end is not called yet.
LEMMA UpToAppend ==
  ASSUME NEW B, NEW s \in Seq(B), NEW x \in B, NEW k \in 1 .. Len(s) + 1,
         NEW stayed, NEW called, UpTo(s, k, stayed, called), x \notin stayed, x \notin called
  PROVE  UpTo(Append(s, x), k, stayed, called)
<1> DEFINE r == Append(s, x)
<1>1. /\ Len(s) \in Nat /\ Len(r) = Len(s) + 1
      /\ r[Len(s) + 1] = x /\ \A i \in 1 .. Len(s) : r[i] = s[i]
  BY AppendFacts
<1> HIDE DEF r
<1>2. UpTo(r, k, stayed, called)
  BY <1>1 DEF UpTo
<1> QED BY <1>2 DEF r

\* An entry is removed, and with it what was noted of it.
LEMMA UpToCut ==
  ASSUME NEW B, NEW s \in Seq(B), NEW k \in 1 .. Len(s), NEW m \in 1 .. Len(s) + 1,
         NEW stayed, NEW called, UpTo(s, m, stayed, called)
  PROVE  UpTo(Cut(s, k), IF m > k THEN m - 1 ELSE m, stayed \ {s[k]}, called \ {s[k]})
<1> DEFINE r == Cut(s, k)
           n == Len(s)
           q == IF m > k THEN m - 1 ELSE m
<1>1. /\ n \in Nat /\ Len(r) = n - 1
      /\ \A j \in 1 .. n - 1 : r[j] = IF j < k THEN s[j] ELSE s[j + 1]
  BY CutIndices
<1>3. \A j \in 1 .. n : (j < m /\ s[j] \in stayed => s[j] \in called) /\ (j >= m => s[j] \notin called)
  BY DEF UpTo
<1>4. m \in 1 .. n + 1 /\ k \in 1 .. n
  OBVIOUS
<1> HIDE DEF r, n
<1>5. ASSUME NEW j \in 1 .. n - 1
      PROVE  /\ j < q /\ r[j] \in stayed \ {s[k]} => r[j] \in called \ {s[k]}
             /\ j >= q => r[j] \notin called \ {s[k]}
  <2>1. CASE j < k
    <3>1. r[j] = s[j] /\ j \in 1 .. n /\ (j < q <=> j < m)
      BY <2>1, <1>1, <1>4
    <3> QED BY SMTT(30), <3>1, <1>3, <1>4
  <2>2. CASE ~(j < k)
    <3>1. r[j] = s[j + 1] /\ j + 1 \in 1 .. n /\ (j < q => j + 1 < m) /\ (j >= q => j + 1 >= m)
      BY <2>2, <1>1, <1>4
    <3> QED BY <3>1, <1>3, <1>4
  <2> QED BY <2>1, <2>2
<1> QED BY Zenon, <1>1, <1>5 DEF UpTo, r

\* The next entry is called.
LEMMA UpToStep ==
  ASSUME NEW B, NEW s \in Seq(B), NEW k \in 1 .. Len(s), Injective(s),
         NEW stayed, NEW called, UpTo(s, k, stayed, called)
  PROVE  UpTo(s, k + 1, stayed, called \cup {s[k]})
BY DEF UpTo, Injective

\* The emission goes on at x, where next_emit points; "none" is the end.
Pointed(s, x, stayed, called) ==
    /\ x = "none" => UpTo(s, Len(s) + 1, stayed, called)
    /\ \A k \in 1 .. Len(s) : s[k] = x => UpTo(s, k, stayed, called)
\* The emission has come to x.
Passed(s, x, stayed, called) ==
    \A k \in 1 .. Len(s) : s[k] = x => UpTo(s, k + 1, stayed, called)
\* What is after position k
Following(s, k) == IF k < Len(s) THEN s[k + 1] ELSE "none"

\* It is another entry, or the end.
LEMMA FollowingFacts ==
  ASSUME NEW B, "none" \notin B, NEW s \in Seq(B), Injective(s), NEW k \in 1 .. Len(s)
  PROVE  /\ Following(s, k) \in (Members(s) \ {s[k]}) \cup {"none"}
         /\ Members(s) \subseteq B /\ s[k] \in Members(s) /\ Following(s, k) # s[k]
<1>1. CASE k < Len(s)
  <2>1. k + 1 \in 1 .. Len(s) /\ Following(s, k) = s[k + 1] /\ k + 1 # k
    BY <1>1 DEF Following
  <2> QED BY <2>1 DEF Members, Injective
<1>2. CASE ~(k < Len(s))
  <2>1. Following(s, k) = "none"
    BY <1>2 DEF Following
  <2> QED BY <2>1 DEF Members
<1> QED BY <1>1, <1>2

\* An addition keeps the place: at the end, next_emit moves to what was added.
LEMMA PointedAppend ==
  ASSUME NEW B, "none" \notin B, NEW s \in Seq(B), NEW x \in B \ Members(s),
         NEW y \in Members(s) \cup {"none"}, NEW stayed, NEW called,
         x \notin stayed, x \notin called, Pointed(s, y, stayed, called)
  PROVE  Pointed(Append(s, x), IF y = "none" THEN x ELSE y, stayed, called)
<1> DEFINE r == Append(s, x)
<1>1. /\ Len(s) \in Nat /\ Len(r) = Len(s) + 1
      /\ r[Len(s) + 1] = x /\ \A i \in 1 .. Len(s) : r[i] = s[i] /\ s[i] # x /\ s[i] \in B
  BY AppendFacts DEF Members
<1>2. y # "none" => y # x
  BY <1>1 DEF Members
<1>3. \A k \in 1 .. Len(s) + 1 : UpTo(s, k, stayed, called) => UpTo(r, k, stayed, called)
  BY UpToAppend
<1> HIDE DEF r
<1>4. CASE y = "none"
  <2>1. UpTo(r, Len(s) + 1, stayed, called)
    BY <1>1, <1>3, <1>4 DEF Pointed
  <2>2. \A k \in 1 .. Len(r) : r[k] = x => k = Len(s) + 1
    BY <1>1
  <2>3. Pointed(r, x, stayed, called)
    BY <2>1, <2>2 DEF Pointed
  <2> QED BY <2>3, <1>4 DEF r
<1>5. CASE y # "none"
  <2>1. \A k \in 1 .. Len(r) : r[k] = y => k \in 1 .. Len(s) /\ s[k] = y
    BY <1>1, <1>2, <1>5
  <2>2. Pointed(r, y, stayed, called)
    BY <2>1, <1>3, <1>5, <1>1 DEF Pointed
  <2> QED BY <2>2, <1>5 DEF r
<1> QED BY <1>4, <1>5

\* ... so it does for the node the emission has come to.
LEMMA PassedAppend ==
  ASSUME NEW B, NEW s \in Seq(B), NEW x \in B \ Members(s), NEW y \in Members(s),
         NEW stayed, NEW called, x \notin stayed, x \notin called, Passed(s, y, stayed, called)
  PROVE  Passed(Append(s, x), y, stayed, called)
<1> DEFINE r == Append(s, x)
<1>1. /\ Len(s) \in Nat /\ Len(r) = Len(s) + 1
      /\ r[Len(s) + 1] = x /\ \A i \in 1 .. Len(s) : r[i] = s[i]
  BY AppendFacts
<1>3. \A k \in 1 .. Len(s) + 1 : UpTo(s, k, stayed, called) => UpTo(r, k, stayed, called)
  BY UpToAppend
<1> HIDE DEF r
<1>4. ASSUME NEW k \in 1 .. Len(r), r[k] = y PROVE UpTo(r, k + 1, stayed, called)
  <2>1. k \in 1 .. Len(s) /\ s[k] = y /\ k + 1 \in 1 .. Len(s) + 1
    BY <1>1, <1>4
  <2> QED BY <2>1, <1>3 DEF Passed
<1> QED BY <1>4 DEF Passed, r

\* A removal keeps the place: next_emit moves on if it pointed there.
LEMMA PointedCut ==
  ASSUME NEW B, "none" \notin B, NEW s \in Seq(B), Injective(s), NEW k \in 1 .. Len(s),
         NEW y \in Members(s) \cup {"none"}, NEW stayed, NEW called,
         Pointed(s, y, stayed, called)
  PROVE  Pointed(Cut(s, k), IF y = s[k] THEN Following(s, k) ELSE y,
                 stayed \ {s[k]}, called \ {s[k]})
<1> DEFINE r == Cut(s, k)
           n == Len(s)
           st == stayed \ {s[k]}
           ca == called \ {s[k]}
           M(m) == IF m > k THEN m - 1 ELSE m
           z == IF y = s[k] THEN Following(s, k) ELSE y
<1>1. /\ n \in Nat /\ Len(r) = n - 1 /\ k \in 1 .. n
      /\ \A j \in 1 .. n - 1 : r[j] = IF j < k THEN s[j] ELSE s[j + 1]
  BY Zenon, CutIndices
<1>2. \A i, j \in 1 .. n : s[i] = s[j] => i = j
  BY DEF Injective
<1>3. \A m \in 1 .. n + 1 : UpTo(s, m, stayed, called) => UpTo(r, M(m), st, ca)
  BY Zenon, UpToCut
<1>4. /\ y = "none" => UpTo(s, n + 1, stayed, called)
      /\ \A m \in 1 .. n : s[m] = y => UpTo(s, m, stayed, called)
  BY DEF Pointed
<1>5. \A i \in 1 .. n : s[i] # "none"
  OBVIOUS
<1>6. Following(s, k) = IF k < n THEN s[k + 1] ELSE "none"
  BY DEF Following
<1> HIDE DEF r, n, st, ca
<1>7. CASE y = s[k]
  <2>1. UpTo(r, k, st, ca)
    BY <1>7, <1>1, <1>3, <1>4
  <2>2. CASE k < n
    <3>1. \A j \in 1 .. n - 1 : r[j] = s[k + 1] => j = k
      BY <1>1, <1>2, <2>2
    <3>2. k + 1 \in 1 .. n /\ s[k + 1] # "none"
      BY <1>1, <1>5, <2>2
    <3>3. Pointed(r, s[k + 1], st, ca)
      BY <1>1, <2>1, <3>1, <3>2 DEF Pointed
    <3>4. z = s[k + 1]
      BY <1>6, <1>7, <2>2
    <3> QED BY <3>3, <3>4 DEF r, st, ca
  <2>3. CASE k = n
    <3>1. \A j \in 1 .. n - 1 : r[j] # "none"
      BY SMTT(30), <1>1, <1>5
    <3>2. Len(r) + 1 = k
      BY <1>1, <2>3
    <3>3. Pointed(r, "none", st, ca)
      BY <1>1, <2>1, <3>1, <3>2 DEF Pointed
    <3>4. z = "none"
      BY <1>6, <1>7, <2>3, <1>1
    <3> QED BY <3>3, <3>4 DEF r, st, ca
  <2> QED BY <2>2, <2>3, <1>1
<1>8. CASE y # s[k]
  <2>1. y = "none" => UpTo(r, Len(r) + 1, st, ca)
    <3>1. n + 1 \in 1 .. n + 1 /\ M(n + 1) = Len(r) + 1
      BY <1>1
    <3> QED BY <3>1, <1>3, <1>4
  <2>2. ASSUME NEW j \in 1 .. n - 1, r[j] = y PROVE UpTo(r, j, st, ca)
    <3>1. CASE j < k
      <4>1. j \in 1 .. n /\ j \in 1 .. n + 1 /\ s[j] = y /\ M(j) = j
        BY <3>1, <2>2, <1>1
      <4> HIDE DEF M
      <4> QED BY <4>1, <1>3, <1>4
    <3>2. CASE ~(j < k)
      <4>1. j + 1 \in 1 .. n /\ j + 1 \in 1 .. n + 1 /\ s[j + 1] = y /\ M(j + 1) = j
        BY <3>2, <2>2, <1>1
      <4> HIDE DEF M
      <4>2. UpTo(s, j + 1, stayed, called)
        BY <4>1, <1>4
      <4> QED BY <4>1, <4>2, <1>3
    <3> QED BY <3>1, <3>2
  <2>3. Pointed(r, y, st, ca)
    BY <2>1, <2>2, <1>1 DEF Pointed
  <2> QED BY <2>3, <1>8 DEF r, st, ca
<1> QED BY <1>7, <1>8

\* ... and of another node, the place of the one the emission has come to.
LEMMA PassedCut ==
  ASSUME NEW B, NEW s \in Seq(B), NEW k \in 1 .. Len(s),
         NEW y, y # s[k], NEW stayed, NEW called, Passed(s, y, stayed, called)
  PROVE  Passed(Cut(s, k), y, stayed \ {s[k]}, called \ {s[k]})
<1> DEFINE r == Cut(s, k)
           n == Len(s)
           st == stayed \ {s[k]}
           ca == called \ {s[k]}
           M(m) == IF m > k THEN m - 1 ELSE m
<1>1. /\ n \in Nat /\ Len(r) = n - 1 /\ k \in 1 .. n
      /\ \A j \in 1 .. n - 1 : r[j] = IF j < k THEN s[j] ELSE s[j + 1]
  BY CutIndices
<1>3. \A m \in 1 .. n + 1 : UpTo(s, m, stayed, called) => UpTo(r, M(m), st, ca)
  BY Zenon, UpToCut
<1>4. \A m \in 1 .. n : s[m] = y => UpTo(s, m + 1, stayed, called)
  BY DEF Passed
<1> HIDE DEF r, n, st, ca
<1>5. ASSUME NEW j \in 1 .. n - 1, r[j] = y PROVE UpTo(r, j + 1, st, ca)
  <2>1. CASE j < k
    <3>1. j \in 1 .. n /\ j + 1 \in 1 .. n + 1 /\ s[j] = y /\ (j + 1 <= k) /\ M(j + 1) = j + 1
      BY <2>1, <1>5, <1>1
    <3> HIDE DEF M
    <3>2. UpTo(s, j + 1, stayed, called)
      BY <3>1, <1>4
    <3> QED BY <3>1, <3>2, <1>3
  <2>2. CASE ~(j < k)
    <3>1. j + 1 \in 1 .. n /\ (j + 1) + 1 \in 1 .. n + 1 /\ s[j + 1] = y /\ M((j + 1) + 1) = j + 1
      BY <2>2, <1>5, <1>1
    <3> HIDE DEF M
    <3>2. UpTo(s, (j + 1) + 1, stayed, called)
      BY <3>1, <1>4
    <3> QED BY <3>1, <3>2, <1>3
  <2> QED BY <2>1, <2>2
<1> QED BY Zenon, <1>1, <1>5 DEF Passed, r, n, st, ca

\* A call moves both on.
LEMMA PointedAdvance ==
  ASSUME NEW B, "none" \notin B, NEW s \in Seq(B), Injective(s), NEW k \in 1 .. Len(s),
         NEW stayed, NEW called, UpTo(s, k, stayed, called)
  PROVE  Pointed(s, Following(s, k), stayed, called \cup {s[k]})
         /\ Passed(s, s[k], stayed, called \cup {s[k]})
<1> DEFINE ca == called \cup {s[k]}
<1>1. UpTo(s, k + 1, stayed, ca)
  BY UpToStep
<1>2. /\ \A i, j \in 1 .. Len(s) : s[i] = s[j] => i = j
      /\ \A i \in 1 .. Len(s) : s[i] # "none"
      /\ Len(s) \in Nat /\ k \in 1 .. Len(s)
  BY DEF Injective
<1> HIDE DEF ca
<1>3. Passed(s, s[k], stayed, ca)
  BY <1>1, <1>2 DEF Passed
<1>4. CASE k < Len(s)
  <2>1. k + 1 \in 1 .. Len(s) /\ Following(s, k) = s[k + 1]
    BY <1>2, <1>4 DEF Following
  <2> QED BY Zenon, <1>1, <1>2, <1>3, <2>1 DEF Pointed, ca
<1>5. CASE k = Len(s)
  <2>1. Following(s, k) = "none"
    BY <1>2, <1>5 DEF Following
  <2> QED BY <1>1, <1>2, <1>3, <1>5, <2>1 DEF Pointed, ca
<1> QED BY <1>2, <1>4, <1>5

\* At the start nothing is called.
LEMMA UpToNothing ==
  ASSUME NEW B, NEW s \in Seq(B), NEW stayed
  PROVE  UpTo(s, 1, stayed, {})
BY DEF UpTo

\* What has been called is in the list, and what is still to be called too, in
\* the order of the list: what AllAreCalled needs when the end is reached.
OnTheWay ==
    LET v == emission.variable IN
    /\ emission.stayed \subseteq Members(callbacks[v])
    /\ emission.called \subseteq Members(callbacks[v])
    /\ v # "*" /\ emission.live =>
          Pointed(callbacks[v], next_emit[v], emission.stayed, emission.called)
    /\ v = "*" /\ emission.here =>
          /\ emission.at \in Members(callbacks[v])
          /\ Passed(callbacks[v], emission.at, emission.stayed, emission.called)

\* The inductive invariant of the notify callbacks
NotifyInv ==
    /\ N!TypeOK
    /\ N!NextEmitIsListed
    /\ emission # N!Idle => OnTheWay

\* The list of a variable has a callback at most once.
LEMMA ListOf ==
  ASSUME N!TypeOK, NEW v \in N!Watchable
  PROVE  /\ callbacks[v] \in Seq(Callbacks) /\ Injective(callbacks[v])
         /\ N!Listed(v) = Members(callbacks[v])
<1>1. callbacks[v] \in Seq(Callbacks) /\ N!IsInjective(callbacks[v])
  BY DEF N!TypeOK
<1>2. Injective(callbacks[v])
  BY <1>1 DEF N!IsInjective, Injective
<1> QED BY <1>1, <1>2 DEF N!Listed, N!Range, Members

\* ... after a step as well.
LEMMA MembersPrime ==
  ASSUME N!TypeOK', NEW v \in N!Watchable
  PROVE  N!Listed(v)' = Members(callbacks'[v])
BY DEF N!TypeOK, N!Listed, N!Range, Members

\* Node() finds the node of a callback that is listed.
LEMMA NodeFacts ==
  ASSUME N!TypeOK, NEW v \in N!Watchable, NEW c \in N!Listed(v)
  PROVE  N!Node(v, c) \in 1 .. Len(callbacks[v]) /\ callbacks[v][N!Node(v, c)] = c
<1>0. callbacks[v] \in Seq(Callbacks) /\ DOMAIN callbacks[v] = 1 .. Len(callbacks[v])
  BY DEF N!TypeOK
<1>1. \E i \in DOMAIN callbacks[v] : callbacks[v][i] = c
  BY <1>0, ListOf DEF Members
<1>2. /\ N!Node(v, c) \in DOMAIN callbacks[v] /\ callbacks[v][N!Node(v, c)] = c
  BY <1>1 DEF N!Node
<1> QED BY <1>0, <1>2

\* After() is the entry after it.
LEMMA AfterFacts ==
  ASSUME N!TypeOK, NEW v \in N!Watchable, NEW k \in 1 .. Len(callbacks[v])
  PROVE  /\ N!Node(v, callbacks[v][k]) = k
         /\ N!After(v, callbacks[v][k]) = Following(callbacks[v], k)
<1>1. callbacks[v][k] \in N!Listed(v)
  BY ListOf DEF Members
<1>2. N!Node(v, callbacks[v][k]) = k
  BY <1>1, NodeFacts, ListOf DEF Injective
<1> QED BY <1>2 DEF N!After, N!None, Following

\* What a change of one list has to keep.
LEMMA TypeKept ==
  ASSUME N!TypeOK, NEW v \in N!Watchable, NEW s \in Seq(Callbacks), Injective(s),
         NEW x \in Callbacks \cup {"none"},
         callbacks' = [callbacks EXCEPT ![v] = s],
         next_emit' = [next_emit EXCEPT ![v] = x],
         emission' \in N!Emission \cup {N!Idle}, undefined' \in BOOLEAN
  PROVE  /\ N!TypeOK' /\ callbacks'[v] = s /\ next_emit'[v] = x
         /\ \A w \in N!Watchable : w # v => /\ callbacks'[w] = callbacks[w]
                                            /\ next_emit'[w] = next_emit[w]
<1>1. /\ callbacks'[v] = s /\ next_emit'[v] = x
      /\ \A w \in N!Watchable : w # v => /\ callbacks'[w] = callbacks[w]
                                         /\ next_emit'[w] = next_emit[w]
  BY DEF N!TypeOK
<1>2. N!IsInjective(s)
  BY DEF N!IsInjective, Injective
<1>3. \A w \in N!Watchable : N!IsInjective(callbacks'[w])
  BY <1>1, <1>2 DEF N!TypeOK
<1>4. callbacks' \in [N!Watchable -> Seq(Callbacks)] /\ next_emit' \in [N!Watchable -> Callbacks \cup {"none"}]
  BY DEF N!TypeOK, N!None
<1> QED BY <1>1, <1>3, <1>4 DEF N!TypeOK, N!None

\* next_emit of the list that changed is listed, and of the others nothing changed.
LEMMA PointerKept ==
  ASSUME N!TypeOK, N!NextEmitIsListed, N!TypeOK', NEW v \in N!Watchable,
         next_emit'[v] \in Members(callbacks'[v]) \cup {"none"},
         \A w \in N!Watchable : w # v => /\ callbacks'[w] = callbacks[w]
                                         /\ next_emit'[w] = next_emit[w]
  PROVE  N!NextEmitIsListed'
<1>1. ASSUME NEW w \in N!Watchable, next_emit'[w] # "none"
      PROVE  next_emit'[w] \in N!Listed(w)'
  <2>1. CASE w = v
    BY <1>1, <2>1, MembersPrime
  <2>2. CASE w # v
    BY <1>1, <2>2, MembersPrime, ListOf DEF N!NextEmitIsListed, N!None
  <2> QED BY <2>1, <2>2
<1> QED BY <1>1 DEF N!NextEmitIsListed, N!None

\* An emission has its fields.
EmissionFields ==
    /\ emission.at \in Callbacks /\ emission.variable \in N!Watchable
    /\ emission.live \in BOOLEAN /\ emission.here \in BOOLEAN
    /\ emission.stayed \in SUBSET Callbacks /\ emission.called \in SUBSET Callbacks

\* What is not idle is an emission.
LEMMA EmissionHasFields == N!TypeOK /\ emission # N!Idle => EmissionFields
BY DEF N!TypeOK, N!Emission, EmissionFields

\* Without callbacks the invariant holds.
LEMMA InitNotify == N!Init => NotifyInv
<1> SUFFICES ASSUME N!Init PROVE NotifyInv
  OBVIOUS
<1> USE DEF N!Init
<1>1. \A v \in N!Watchable : N!IsInjective(callbacks[v])
  BY DEF N!IsInjective
<1>2. N!TypeOK
  <2>1. callbacks \in [N!Watchable -> Seq(Callbacks)] /\ next_emit \in [N!Watchable -> Callbacks \cup {N!None}]
    OBVIOUS
  <2> QED BY Zenon, <1>1, <2>1 DEF N!TypeOK
<1> QED BY <1>2 DEF NotifyInv, N!NextEmitIsListed

\* add_notify keeps the invariant.
LEMMA AddNotifyKeeps ==
  ASSUME NotifyInv, NEW v \in N!Watchable, NEW c \in Callbacks, N!AddNotify(v, c)
  PROVE  NotifyInv'
<1> DEFINE s == callbacks[v]
           r == Append(s, c)
           y == next_emit[v]
           z == IF y = "none" THEN c ELSE y
<1>1. N!TypeOK /\ N!NextEmitIsListed /\ c \notin Members(s)
  BY ListOf DEF NotifyInv, N!AddNotify
<1>2. s \in Seq(Callbacks) /\ Injective(s) /\ y \in Members(s) \cup {"none"}
  BY <1>1, ListOf DEF N!NextEmitIsListed, N!None
<1>3. /\ callbacks' = [callbacks EXCEPT ![v] = r]
      /\ next_emit' = [next_emit EXCEPT ![v] = z]
      /\ emission' = emission /\ undefined' = undefined
  BY DEF N!AddNotify, N!None
<1>4. r \in Seq(Callbacks) /\ Injective(r) /\ Members(r) = Members(s) \cup {c}
  <2> HIDE DEF s
  <2> QED BY <1>1, <1>2, AppendFacts
<1>5. z \in Members(r) \cup {"none"} /\ z \in Callbacks \cup {"none"}
  BY <1>1, <1>2, <1>4 DEF N!TypeOK, N!None
<1> HIDE DEF r, z
<1>6. /\ N!TypeOK' /\ callbacks'[v] = r /\ next_emit'[v] = z
      /\ \A w \in N!Watchable : w # v => /\ callbacks'[w] = callbacks[w]
                                         /\ next_emit'[w] = next_emit[w]
  <2>1. emission' \in N!Emission \cup {N!Idle} /\ undefined' \in BOOLEAN
    BY <1>1, <1>3 DEF N!TypeOK
  <2> QED BY Zenon, <2>1, <1>1, <1>3, <1>4, <1>5, TypeKept
<1>7. N!NextEmitIsListed'
  BY <1>1, <1>5, <1>6, PointerKept
<1>8. ASSUME emission # N!Idle PROVE OnTheWay'
  <2>1. OnTheWay /\ EmissionFields
    BY <1>8, <1>1, EmissionHasFields DEF NotifyInv
  <2>2. CASE emission.variable # v
    BY <2>1, <2>2, <1>3, <1>6 DEF OnTheWay, EmissionFields
  <2>3. CASE emission.variable = v
    <3> DEFINE st == emission.stayed
               ca == emission.called
    <3>1. /\ st \subseteq Members(s) /\ ca \subseteq Members(s)
          /\ v # "*" /\ emission.live => Pointed(s, y, st, ca)
          /\ v = "*" /\ emission.here => emission.at \in Members(s) /\ Passed(s, emission.at, st, ca)
      BY <2>1, <2>3 DEF OnTheWay
    <3> HIDE DEF s, y, st, ca
    <3>2. ASSUME Pointed(s, y, st, ca) PROVE Pointed(r, z, st, ca)
      <4>1. c \in Callbacks \ Members(s) /\ c \notin st /\ c \notin ca
        BY <1>1, <3>1
      <4> QED BY Zenon, <3>2, <4>1, <1>2, PointedAppend, PartsAssumption DEF PartsAssumption, r, z
    <3>3. ASSUME emission.at \in Members(s), Passed(s, emission.at, st, ca)
          PROVE  Passed(r, emission.at, st, ca)
      <4>1. c \in Callbacks \ Members(s) /\ c \notin st /\ c \notin ca
        BY <1>1, <3>1
      <4> QED BY <3>3, <4>1, <1>2, PassedAppend DEF r
    <3> QED BY <2>3, <3>1, <3>2, <3>3, <1>3, <1>4, <1>6 DEF OnTheWay, st, ca
  <2> QED BY <2>2, <2>3
<1> QED BY <1>3, <1>6, <1>7, <1>8 DEF NotifyInv, N!Idle, N!None

\* remove_notify keeps it, also of the callback that runs or is next.
LEMMA RemoveNotifyKeeps ==
  ASSUME NotifyInv, NEW v \in N!Watchable, NEW c \in Callbacks, N!RemoveNotify(v, c)
  PROVE  NotifyInv'
<1> DEFINE s == callbacks[v]
           k == N!Node(v, c)
           r == Cut(s, k)
           y == next_emit[v]
           z == IF y = c THEN Following(s, k) ELSE y
<1>1. N!TypeOK /\ N!NextEmitIsListed /\ c \in N!Listed(v) /\ c \in Members(s)
  BY ListOf DEF NotifyInv, N!RemoveNotify
<1>2. s \in Seq(Callbacks) /\ Injective(s) /\ y \in Members(s) \cup {"none"}
  BY <1>1, ListOf DEF N!NextEmitIsListed, N!None
<1>3. k \in 1 .. Len(s) /\ s[k] = c
  BY <1>1, NodeFacts
<1>4. N!After(v, c) = Following(s, k)
  BY <1>1, <1>3, AfterFacts
<1>5. /\ callbacks' = [callbacks EXCEPT ![v] = r]
      /\ next_emit' = [next_emit EXCEPT ![v] = z]
      /\ undefined' = undefined
  BY <1>4 DEF N!RemoveNotify, N!NextAfterRemoval, N!RemoveAt, Cut
<1>6. r \in Seq(Callbacks) /\ Injective(r) /\ Members(r) = Members(s) \ {c}
  <2> HIDE DEF s, k
  <2> QED BY Zenon, <1>2, <1>3, CutIndices, CutFacts
<1>7. z \in Members(r) \cup {"none"} /\ z \in Callbacks \cup {"none"}
  <2>1. CASE y # c
    BY <2>1, <1>1, <1>2, <1>6 DEF N!TypeOK, N!None
  <2>2. CASE y = c
    <3>1. Following(s, k) \in (Members(s) \ {c}) \cup {"none"} /\ Members(s) \subseteq Callbacks
      <4> HIDE DEF s, k
      <4> QED BY Zenon, <1>2, <1>3, FollowingFacts, PartsAssumption DEF PartsAssumption
    <3> QED BY <2>2, <3>1, <1>6
  <2> QED BY <2>1, <2>2
<1>8. \/ emission' = emission /\ (emission = N!Idle \/ emission.variable # v)
      \/ /\ emission # N!Idle /\ emission.variable = v
         /\ emission' = [emission EXCEPT !.live   = @ /\ callbacks[v] # <<c>>,
                                         !.here   = @ /\ emission.at # c,
                                         !.stayed = @ \ {c},
                                         !.called = @ \ {c}]
  BY DEF N!RemoveNotify
<1>9. ASSUME emission # N!Idle, emission.variable = v
      PROVE  /\ emission' \in N!Emission /\ emission'.variable = v /\ emission'.at = emission.at
             /\ emission'.live = (emission.live /\ callbacks[v] # <<c>>)
             /\ emission'.here = (emission.here /\ emission.at # c)
             /\ emission'.stayed = emission.stayed \ {c} /\ emission'.called = emission.called \ {c}
  BY ZenonT(60), <1>1, <1>8, <1>9 DEF N!TypeOK, N!Emission
<1> HIDE DEF r, z
<1>10. /\ N!TypeOK' /\ callbacks'[v] = r /\ next_emit'[v] = z
       /\ \A w \in N!Watchable : w # v => /\ callbacks'[w] = callbacks[w]
                                          /\ next_emit'[w] = next_emit[w]
  <2>1. emission' \in N!Emission \cup {N!Idle} /\ undefined' \in BOOLEAN
    BY <1>1, <1>5, <1>8, <1>9 DEF N!TypeOK
  <2> QED BY Zenon, <2>1, <1>1, <1>5, <1>6, <1>7, TypeKept
<1>11. N!NextEmitIsListed'
  BY <1>1, <1>7, <1>10, PointerKept
<1>12. ASSUME emission # N!Idle PROVE OnTheWay'
  <2>1. OnTheWay /\ EmissionFields
    BY <1>12, <1>1, EmissionHasFields DEF NotifyInv
  <2>2. CASE emission.variable # v
    BY <2>1, <2>2, <1>8, <1>10 DEF OnTheWay, EmissionFields
  <2>3. CASE emission.variable = v
    <3> DEFINE st == emission.stayed
               ca == emission.called
    <3>1. /\ st \subseteq Members(s) /\ ca \subseteq Members(s)
          /\ v # "*" /\ emission.live => Pointed(s, y, st, ca)
          /\ v = "*" /\ emission.here => emission.at \in Members(s) /\ Passed(s, emission.at, st, ca)
      BY <2>1, <2>3 DEF OnTheWay
    <3> HIDE DEF s, y, st, ca, k
    <3>2. ASSUME Pointed(s, y, st, ca) PROVE Pointed(r, z, st \ {c}, ca \ {c})
      BY Zenon, <3>2, <1>2, <1>3, PointedCut, PartsAssumption DEF PartsAssumption, r, z
    <3>3. ASSUME emission.at # c, Passed(s, emission.at, st, ca)
          PROVE  Passed(r, emission.at, st \ {c}, ca \ {c})
      BY <3>3, <1>2, <1>3, PassedCut DEF r
    <3>4. emission'.stayed \subseteq Members(r) /\ emission'.called \subseteq Members(r)
      BY <1>6, <1>9, <1>12, <2>3, <3>1 DEF st, ca
    <3>5. v # "*" /\ emission'.live => Pointed(r, z, emission'.stayed, emission'.called)
      BY Zenon, <1>9, <1>12, <2>3, <3>1, <3>2 DEF st, ca
    <3>6. v = "*" /\ emission'.here =>
            emission'.at \in Members(r) /\ Passed(r, emission'.at, emission'.stayed, emission'.called)
      BY Zenon, <1>6, <1>9, <1>12, <2>3, <3>1, <3>3 DEF st, ca
    <3> QED BY <1>9, <1>10, <1>12, <2>3, <3>4, <3>5, <3>6 DEF OnTheWay
  <2> QED BY <2>2, <2>3
<1>13. emission' # N!Idle' => emission # N!Idle
  BY <1>8 DEF N!Idle, N!None
<1> QED BY <1>10, <1>11, <1>12, <1>13 DEF NotifyInv
\* The first callback of a list
LEMMA FirstFacts ==
  ASSUME N!TypeOK, NEW v \in N!Watchable, callbacks[v] # <<>>
  PROVE  /\ 1 \in 1 .. Len(callbacks[v]) /\ N!First(v) = callbacks[v][1]
         /\ N!First(v) \in Callbacks
BY ListOf DEF N!First

\* An event starts with the first callback.
LEMMA EmitNotificationKeeps ==
  ASSUME NotifyInv, NEW v \in N!Watchable, N!EmitNotification(v)
  PROVE  /\ NotifyInv'
         /\ emission = N!Idle /\ emission'.at \in N!Listed(emission'.variable)
<1> DEFINE s == callbacks[v]
           c == N!First(v)
           z == IF v = "*" THEN next_emit[v] ELSE Following(s, 1)
<1>1. N!TypeOK /\ N!NextEmitIsListed /\ s # <<>> /\ emission = N!Idle
  BY DEF NotifyInv, N!EmitNotification
<1>2. s \in Seq(Callbacks) /\ Injective(s) /\ next_emit[v] \in Members(s) \cup {"none"}
  BY <1>1, ListOf DEF N!NextEmitIsListed, N!None
<1>3. 1 \in 1 .. Len(s) /\ c = s[1] /\ c \in Callbacks /\ N!After(v, c) = Following(s, 1)
  BY <1>1, FirstFacts, AfterFacts
<1>4. /\ callbacks' = callbacks /\ undefined' = undefined
      /\ emission' = [at |-> c, variable |-> v, live |-> TRUE, here |-> TRUE,
                      stayed |-> Members(s), called |-> {c}]
      /\ next_emit' = IF v = "*" THEN next_emit ELSE [next_emit EXCEPT ![v] = Following(s, 1)]
  BY Zenon, <1>1, <1>3, ListOf DEF N!EmitNotification
<1>5. /\ Following(s, 1) \in Members(s) \cup {"none"} /\ Members(s) \subseteq Callbacks
      /\ c \in Members(s)
  <2> HIDE DEF s
  <2> QED BY SMTT(30), <1>2, <1>3, FollowingFacts, PartsAssumption DEF PartsAssumption
<1>6. Pointed(s, Following(s, 1), Members(s), {c}) /\ Passed(s, c, Members(s), {c})
  <2> HIDE DEF s
  <2>1. UpTo(s, 1, Members(s), {})
    BY <1>2, UpToNothing
  <2> HIDE DEF c
  <2>2. {} \cup {s[1]} = {c} /\ s[1] = c
    BY <1>3
  <2>3. /\ Pointed(s, Following(s, 1), Members(s), {} \cup {s[1]})
        /\ Passed(s, s[1], Members(s), {} \cup {s[1]})
    BY Zenon, <2>1, <1>2, <1>3, PointedAdvance, PartsAssumption DEF PartsAssumption
  <2> QED BY <2>2, <2>3
<1>7. emission' \in N!Emission
  <2>1. Members(s) \in SUBSET Callbacks /\ {c} \in SUBSET Callbacks
    BY <1>3, <1>5
  <2> HIDE DEF s, c
  <2> QED BY <2>1, <1>3, <1>4 DEF N!Emission
<1>8. next_emit' = [next_emit EXCEPT ![v] = z] /\ callbacks' = [callbacks EXCEPT ![v] = s]
  BY Zenon, <1>1, <1>4 DEF N!TypeOK
<1>9. z \in Members(s) \cup {"none"} /\ z \in Callbacks \cup {"none"}
  BY <1>2, <1>5
<1> HIDE DEF s, c, z
<1>10. /\ N!TypeOK' /\ callbacks'[v] = s /\ next_emit'[v] = z
       /\ \A w \in N!Watchable : w # v => /\ callbacks'[w] = callbacks[w]
                                          /\ next_emit'[w] = next_emit[w]
  <2>1. undefined' \in BOOLEAN
    BY <1>1, <1>4 DEF N!TypeOK
  <2> QED BY Zenon, <2>1, <1>1, <1>2, <1>7, <1>8, <1>9, TypeKept
<1>11. N!NextEmitIsListed'
  BY <1>1, <1>9, <1>10, PointerKept
<1>12. OnTheWay'
  <2>1. /\ emission'.variable = v /\ emission'.stayed = Members(s) /\ emission'.called = {c}
        /\ emission'.at = c
    BY <1>4
  <2>2. v # "*" => z = Following(s, 1)
    BY DEF z
  <2> QED BY <2>1, <2>2, <1>5, <1>6, <1>10 DEF OnTheWay
<1> QED BY <1>1, <1>4, <1>5, <1>10, <1>11, <1>12, ListOf DEF NotifyInv, s

\* The emission goes on at a callback.
LEMMA ContinueFacts ==
  ASSUME N!TypeOK, emission # N!Idle, NEW v \in N!Watchable, NEW c \in Callbacks
  PROVE  LET e == N!Continue(v, c)
         IN /\ e \in N!Emission /\ e.at = c /\ e.variable = emission.variable
            /\ e.live = emission.live /\ e.here = TRUE /\ e.stayed = emission.stayed
            /\ e.called = emission.called \cup {c}
<1>1. c # "none"
  BY PartsAssumption DEF PartsAssumption
<1>2. N!Continue(v, c) = [emission EXCEPT !.at = c, !.here = TRUE, !.called = @ \cup {c}]
  BY <1>1 DEF N!Continue, N!None
<1>3. emission \in N!Emission
  BY DEF N!TypeOK
<1> QED BY ZenonT(60), <1>2, <1>3 DEF N!Emission

\* Idle is no emission: no callback is called "none".
LEMMA IdleIsNoEmission == \A e \in N!Emission : e # N!Idle
<1> SUFFICES ASSUME NEW e \in N!Emission PROVE e # N!Idle
  OBVIOUS
<1>1. e.at \in Callbacks
  BY DEF N!Emission
<1>2. N!Idle.at = "none"
  BY DEF N!Idle, N!None
<1> QED BY <1>1, <1>2, PartsAssumption DEF PartsAssumption

\* The emission ends when all have been called, or goes on at one that is listed
\* and was not called yet.
Moves ==
    /\ emission' = N!Idle => undefined' \/ emission.stayed \subseteq emission.called
    /\ emission' # N!Idle => /\ emission'.at \in N!Listed(emission'.variable)
                             /\ emission'.at \notin emission.called

\* A callback of a variable returns.
LEMMA ReturnsKeeps ==
  ASSUME NotifyInv, N!Returns
  PROVE  NotifyInv' /\ Moves
<1> DEFINE v == emission.variable
           s == callbacks[v]
           y == next_emit[v]
           st == emission.stayed
           ca == emission.called
<1>1. /\ N!TypeOK /\ N!NextEmitIsListed /\ OnTheWay /\ EmissionFields /\ callbacks' = callbacks
      /\ emission # N!Idle /\ v # "*" /\ v \in N!Watchable
  BY EmissionHasFields DEF NotifyInv, N!Returns, EmissionFields
<1>2. s \in Seq(Callbacks) /\ Injective(s) /\ y \in Members(s) \cup {"none"}
  BY <1>1, ListOf DEF N!NextEmitIsListed, N!None
<1>3. st \subseteq Members(s) /\ ca \subseteq Members(s) /\ (emission.live => Pointed(s, y, st, ca))
  BY <1>1 DEF OnTheWay
<1>4. CASE ~emission.live
  <2>1. emission' = N!Idle /\ next_emit' = next_emit /\ undefined' = TRUE /\ callbacks' = callbacks
    BY <1>4 DEF N!Returns
  <2>2. N!TypeOK' /\ N!NextEmitIsListed'
    BY <2>1, <1>1 DEF N!TypeOK, N!NextEmitIsListed, N!Listed
  <2> QED BY <2>1, <2>2 DEF NotifyInv, Moves, N!Idle, N!None
<1>5. CASE emission.live /\ y = "none"
  <2>1. emission' = N!Idle /\ next_emit' = next_emit /\ undefined' = undefined /\ callbacks' = callbacks
    BY <1>5 DEF N!Returns, N!Continue, N!None
  <2>2. N!TypeOK' /\ N!NextEmitIsListed'
    BY <2>1, <1>1 DEF N!TypeOK, N!NextEmitIsListed, N!Listed
  <2>3. UpTo(s, Len(s) + 1, st, ca)
    BY <1>3, <1>5 DEF Pointed
  <2>4. st \subseteq ca
    <3> HIDE DEF s, st, ca
    <3> QED BY <2>3, <1>2, <1>3 DEF UpTo, Members
  <2> QED BY <2>1, <2>2, <2>4 DEF NotifyInv, Moves, N!Idle, N!None
<1>6. CASE emission.live /\ y # "none"
  <2>1. PICK k \in 1 .. Len(s) : s[k] = y
    BY <1>2, <1>6 DEF Members
  <2>2. y \in Callbacks
    BY <1>2, <2>1
  <2>3. N!After(v, y) = Following(s, k)
    BY <1>1, <2>1, AfterFacts
  <2> DEFINE e == N!Continue(v, y)
             z == Following(s, k)
  <2>4. /\ emission' = e /\ undefined' = undefined
        /\ next_emit' = [next_emit EXCEPT ![v] = z] /\ callbacks' = [callbacks EXCEPT ![v] = s]
    BY <1>1, <1>6, <2>3 DEF N!Returns, N!None, N!TypeOK
  <2>5. /\ e \in N!Emission /\ e.at = y /\ e.variable = v
        /\ e.live = emission.live /\ e.here = TRUE /\ e.stayed = st
        /\ e.called = ca \cup {y}
    BY ZenonT(60), <1>1, <2>2, ContinueFacts
  <2>6. /\ z \in Members(s) \cup {"none"} /\ Members(s) \subseteq Callbacks
    <3> HIDE DEF s
    <3> QED BY Zenon, <1>2, <2>1, FollowingFacts, PartsAssumption DEF PartsAssumption
  <2>7. UpTo(s, k, st, ca)
    BY <1>3, <1>6, <2>1 DEF Pointed
  <2>8. Pointed(s, z, st, ca \cup {y}) /\ y \notin ca
    <3> HIDE DEF s, y, st, ca
    <3>1. y \notin ca
      BY <2>7, <2>1, <1>2 DEF UpTo
    <3> QED BY Zenon, <3>1, <2>7, <2>1, <1>2, PointedAdvance, PartsAssumption DEF PartsAssumption
  <2> HIDE DEF v, s, y, e, z, st, ca
  <2>9. /\ N!TypeOK' /\ callbacks'[v] = s /\ next_emit'[v] = z
        /\ \A w \in N!Watchable : w # v => /\ callbacks'[w] = callbacks[w]
                                           /\ next_emit'[w] = next_emit[w]
    <3>1. emission' \in N!Emission \cup {N!Idle} /\ undefined' \in BOOLEAN
      BY <1>1, <2>4, <2>5 DEF N!TypeOK
    <3>2. z \in Callbacks \cup {"none"}
      BY <2>6
    <3> QED BY Zenon, <3>1, <3>2, <1>1, <1>2, <2>4, TypeKept
  <2>10. N!NextEmitIsListed'
    BY <1>1, <2>6, <2>9, PointerKept
  <2>11. OnTheWay'
    <3>1. st \subseteq Members(s) /\ ca \cup {y} \subseteq Members(s)
      BY <1>2, <1>3, <1>6
    <3>2. Pointed(s, z, st, ca \cup {y})
      BY <2>8
    <3> QED BY <1>1, <2>4, <2>5, <2>9, <3>1, <3>2 DEF OnTheWay
  <2>12. Moves
    BY <1>1, <1>2, <1>6, <2>4, <2>5, <2>8, ListOf, IdleIsNoEmission DEF Moves, ca, v, s
  <2> QED BY <2>9, <2>10, <2>11, <2>12 DEF NotifyInv
<1> QED BY <1>4, <1>5, <1>6

\* A raw callback returns.
LEMMA RawReturnsKeeps ==
  ASSUME NotifyInv, N!RawReturns
  PROVE  NotifyInv' /\ Moves
<1> DEFINE s == callbacks["*"]
           st == emission.stayed
           ca == emission.called
           at == emission.at
<1>1. /\ N!TypeOK /\ N!NextEmitIsListed /\ OnTheWay /\ EmissionFields
      /\ callbacks' = callbacks /\ next_emit' = next_emit
      /\ emission # N!Idle /\ emission.variable = "*" /\ "*" \in N!Watchable
  BY EmissionHasFields DEF NotifyInv, N!RawReturns, N!Watchable
<1>2. s \in Seq(Callbacks) /\ Injective(s) /\ N!Listed("*") = Members(s)
  BY <1>1, ListOf
<1>3. /\ st \subseteq Members(s) /\ ca \subseteq Members(s)
      /\ emission.here => at \in Members(s) /\ Passed(s, at, st, ca)
  BY <1>1 DEF OnTheWay
<1>4. ASSUME emission' \in N!Emission \cup {N!Idle}, undefined' \in BOOLEAN
      PROVE  N!TypeOK' /\ N!NextEmitIsListed'
  BY <1>1, <1>4 DEF N!TypeOK, N!NextEmitIsListed, N!Listed
<1>5. CASE ~emission.here
  <2>1. emission' = N!Idle /\ undefined' = TRUE
    BY <1>5 DEF N!RawReturns
  <2> QED BY <2>1, <1>4 DEF NotifyInv, Moves, N!Idle, N!None
<1>6. CASE emission.here
  <2>1. PICK k \in 1 .. Len(s) : s[k] = at
    BY <1>3, <1>6 DEF Members
  <2>2. N!After("*", at) = Following(s, k)
    BY <1>1, <2>1, AfterFacts
  <2>3. emission' = N!Continue("*", Following(s, k)) /\ undefined' = undefined
    BY <1>6, <2>2 DEF N!RawReturns
  <2>4. UpTo(s, k + 1, st, ca)
    BY <1>3, <1>6, <2>1 DEF Passed
  <2>5. undefined' \in BOOLEAN
    BY <1>1, <2>3 DEF N!TypeOK
  <2>6. Len(s) \in Nat
    BY <1>2
  <2>7. CASE k = Len(s)
    <3>1. emission' = N!Idle
      BY <2>3, <2>6, <2>7 DEF Following, N!Continue, N!None
    <3>2. st \subseteq ca
      <4> HIDE DEF s, st, ca
      <4> QED BY <2>4, <2>6, <2>7, <1>3 DEF UpTo, Members
    <3> QED BY <3>1, <3>2, <2>5, <1>4 DEF NotifyInv, Moves, N!Idle, N!None
  <2>8. CASE k < Len(s)
    <3> DEFINE c == s[k + 1]
               e == N!Continue("*", c)
    <3>1. k + 1 \in 1 .. Len(s)
      BY <2>6, <2>8
    <3>2. Following(s, k) = c /\ c \in Callbacks
      BY <3>1, <2>8, <1>2 DEF Following
    <3>3. /\ e \in N!Emission /\ e.at = c /\ e.variable = "*"
          /\ e.here = TRUE /\ e.stayed = st /\ e.called = ca \cup {c}
      BY ZenonT(60), <1>1, <3>2, ContinueFacts
    <3>4. emission' = e
      BY <2>3, <3>2
    <3>5. Passed(s, c, st, ca \cup {c}) /\ c \notin ca /\ c \in Members(s)
      <4> HIDE DEF s, st, ca
      <4>1. c \notin ca /\ c \in Members(s)
        BY <3>1, <2>4, <2>6 DEF UpTo, Members
      <4> QED BY Zenon, <4>1, <3>1, <2>4, <1>2, PointedAdvance, PartsAssumption DEF PartsAssumption
    <3>6. N!TypeOK' /\ N!NextEmitIsListed'
      BY <1>4, <2>5, <3>3, <3>4
    <3>7. callbacks'["*"] = s
      BY <1>1
    <3> HIDE DEF s, st, ca, c, e
    <3>8. OnTheWay'
      BY Zenon, <1>3, <3>3, <3>4, <3>5, <3>7 DEF OnTheWay
    <3>9. Moves
      BY <1>2, <3>3, <3>4, <3>5, IdleIsNoEmission DEF Moves, ca
    <3> QED BY <3>6, <3>8, <3>9 DEF NotifyInv
  <2> QED BY <2>6, <2>7, <2>8
<1> QED BY <1>5, <1>6
\* Every step keeps the invariant and is one the action properties allow.
LEMMA NotifySteps ==
  ASSUME NotifyInv, N!Next
  PROVE  /\ NotifyInv'
         /\ N!AllAreCalled /\ N!OnlyListedAreCalled
<1>1. CASE N!Returns
  BY <1>1, ReturnsKeeps DEF Moves, N!AllAreCalled, N!OnlyListedAreCalled
<1>2. CASE N!RawReturns
  BY <1>2, RawReturnsKeeps DEF Moves, N!AllAreCalled, N!OnlyListedAreCalled
<1>3. ASSUME NEW v \in N!Watchable, N!EmitNotification(v)
      PROVE  NotifyInv' /\ N!AllAreCalled /\ N!OnlyListedAreCalled
  BY <1>3, EmitNotificationKeeps DEF N!AllAreCalled, N!OnlyListedAreCalled
<1>4. ASSUME NEW v \in N!Watchable, NEW c \in Callbacks, N!AddNotify(v, c)
      PROVE  NotifyInv' /\ N!AllAreCalled /\ N!OnlyListedAreCalled
  <2>1. emission' = emission
    BY <1>4 DEF N!AddNotify
  <2> QED BY <1>4, <2>1, AddNotifyKeeps DEF N!AllAreCalled, N!OnlyListedAreCalled
<1>5. ASSUME NEW v \in N!Watchable, NEW c \in Callbacks, N!RemoveNotify(v, c)
      PROVE  NotifyInv' /\ N!AllAreCalled /\ N!OnlyListedAreCalled
  <2>1. emission # N!Idle => emission' # N!Idle /\ emission'.at = emission.at
    <3> SUFFICES ASSUME emission # N!Idle PROVE emission' # N!Idle /\ emission'.at = emission.at
      OBVIOUS
    <3>1. emission \in N!Emission
      BY DEF NotifyInv, N!TypeOK
    <3>2. emission' \in N!Emission /\ emission'.at = emission.at
      BY Zenon, <1>5, <3>1 DEF N!RemoveNotify, N!Emission
    <3> QED BY <3>2, IdleIsNoEmission
  <2>2. emission = N!Idle => emission' = emission
    BY <1>5 DEF N!RemoveNotify
  <2> QED BY <1>5, <2>1, <2>2, RemoveNotifyKeeps DEF N!AllAreCalled, N!OnlyListedAreCalled
<1> QED BY <1>1, <1>2, <1>3, <1>4, <1>5 DEF N!Next

\* In the whole: the invariant while this part runs
InNotify == part = "notify" => NotifyInv

\* It is inductive, and its steps are right.
LEMMA NotifyInvIsInductive ==
  /\ Init => InNotify
  /\ InNotify /\ [Next]_vars => InNotify'
  /\ InNotify /\ [Next]_vars => (part = "notify" => N!NextEmitIsListed /\ N!AllAreCalled /\ N!OnlyListedAreCalled)
<1>1. Init => InNotify
  <2> SUFFICES ASSUME Init, part = "notify" PROVE NotifyInv
    BY DEF InNotify
  <2>1. N!Init
    BY DEF Init
  <2> QED BY <2>1, InitNotify
<1>2. ASSUME InNotify, [Next]_vars, part = "notify"
      PROVE  InNotify' /\ N!AllAreCalled /\ N!OnlyListedAreCalled
  <2>0. NotifyInv
    BY <1>2 DEF InNotify
  <2>1. CASE NStep
    BY <2>0, <2>1, NotifySteps DEF NStep, InNotify
  <2>2. CASE nvars' = nvars
    <3>1. callbacks' = callbacks /\ next_emit' = next_emit /\ emission' = emission /\ undefined' = undefined
      BY <2>2 DEF nvars
    <3>2. NotifyInv'
      BY <2>0, <3>1 DEF NotifyInv, OnTheWay, N!TypeOK, N!NextEmitIsListed, N!Listed
    <3> QED BY <3>1, <3>2 DEF InNotify, N!AllAreCalled, N!OnlyListedAreCalled
  <2> QED BY <1>2, <2>1, <2>2 DEF Next, IStep, WStep, DStep, SStep, HStep, CStep, PStep, vars
<1>3. ASSUME InNotify, [Next]_vars, part # "notify" PROVE InNotify'
  <2>1. part' = part
    BY Zenon, <1>3 DEF Next, NStep, IStep, WStep, DStep, SStep, HStep, CStep, PStep, vars
  <2> QED BY <1>3, <2>1 DEF InNotify
<1> QED BY <1>1, <1>2, <1>3 DEF InNotify, NotifyInv

\* NotifyReaches: whatever callbacks add and remove while an event is handed to them,
\* next_emit stays in its list, every callback that was there throughout is called,
\* and none that was removed, and none twice.
THEOREM EventsReachTheirCallbacks == Spec => NotifyReaches
<1>1. Spec => []InNotify
  BY NotifyInvIsInductive, PTL DEF Spec
<1>2. InNotify /\ [Next]_vars => [part = "notify" => /\ N!NextEmitIsListed
                          /\ N!AllAreCalled /\ N!OnlyListedAreCalled]_vars
  BY NotifyInvIsInductive
<1> QED BY <1>1, <1>2, PTL DEF Spec, NotifyReaches

-----------------------------------------------------------------------------
(* The introspection cache.                                                *)

\* No task was answered with XML that is no service description.
GotDescriptions == \A t \in Tasks : tasks[t].scpd # "no scpd"

\* Then whoever has, or will be given, an introspection finds one in the cache.  What
\* is downloaded has a URL.
IntrospectionInv ==
    /\ I!TypeOK
    /\ scpd = "no url" => \A t \in Tasks : tasks[t].stage # "downloading"
    /\ GotDescriptions =>
          \A t \in Tasks :
             tasks[t].stage \in {"returning", "returned"} /\ tasks[t].result \in I!Usable
                 => introspection # "none"

\* At the start nothing is introspected.
LEMMA InitIntrospection == I!Init => IntrospectionInv
<1> SUFFICES ASSUME I!Init PROVE IntrospectionInv
  OBVIOUS
<1>1. tasks \in [Tasks -> I!Task] /\ \A t \in Tasks : tasks[t].stage = "idle"
  BY Zenon DEF I!Init, I!Task, I!None
<1>2. scpd \in I!Documents \cup {"no url"} /\ introspection = "none"
  BY Zenon DEF I!Init, I!None
<1>3. \A t \in Tasks : /\ tasks[t].stage # "downloading"
                       /\ tasks[t].stage # "returning" /\ tasks[t].stage # "returned"
  BY <1>1
<1> QED BY Zenon, <1>1, <1>2, <1>3 DEF IntrospectionInv, I!TypeOK, I!None

\* A task as it is returned
LEMMA ReturnedFacts ==
  ASSUME I!TypeOK, NEW t \in Tasks, NEW result \in I!Usable \cup {"none", "error"},
         tasks' = I!Returned(t, result)
  PROVE  /\ tasks' \in [Tasks -> I!Task]
         /\ tasks'[t].result \in {result, "error"} /\ tasks'[t].scpd = tasks[t].scpd
         /\ tasks'[t].stage = "returned"
         /\ \A u \in Tasks : u # t => tasks'[u] = tasks[u]
BY ZenonT(60) DEF I!TypeOK, I!Returned, I!Task, I!None

\* ... and as it is returned with a document that was got
LEMMA GotFacts ==
  ASSUME I!TypeOK, NEW t \in Tasks, NEW result \in I!Usable \cup {"none", "error"},
         scpd \in I!Documents, tasks' = I!Got(t, result)
  PROVE  /\ tasks' \in [Tasks -> I!Task]
         /\ tasks'[t].result \in {result, "error"} /\ tasks'[t].scpd = scpd
         /\ \A u \in Tasks : u # t => tasks'[u] = tasks[u]
<1> DEFINE task == [tasks[t] EXCEPT !.stage = "returned",
                        !.result = IF tasks[t].cancelled THEN "error" ELSE result,
                        !.scpd = scpd]
<1>1. tasks[t] \in I!Task /\ tasks \in [Tasks -> I!Task]
  BY Zenon DEF I!TypeOK
<1>2. tasks' = [tasks EXCEPT ![t] = task]
  BY <1>1 DEF I!Got, I!Returned, I!Task
<1>3. task \in I!Task /\ task.result \in {result, "error"} /\ task.scpd = scpd
  BY <1>1 DEF I!Task, I!None
<1> QED BY Zenon, <1>1, <1>2, <1>3

\* Every step keeps it: a document that a download gets late is a description too, or
\* the premise is lost.
LEMMA NextKeepsIntrospection == IntrospectionInv /\ I!Next => IntrospectionInv'
<1> SUFFICES ASSUME IntrospectionInv, I!Next PROVE IntrospectionInv'
  OBVIOUS
<1>0. /\ I!TypeOK /\ introspection \in I!Usable \cup {"none"}
      /\ "error" \notin I!Usable /\ "none" \notin I!Usable /\ "no url" \notin I!Usable
  BY Zenon DEF IntrospectionInv, I!TypeOK, I!Usable, I!None
<1>1. CASE I!ScpdChanges
  <2>1. /\ tasks' = tasks /\ introspection' = introspection
        /\ scpd' \in I!Documents /\ scpd' # "no url"
    BY Zenon, <1>1 DEF I!ScpdChanges, I!Documents
  <2> QED BY Zenon, <1>0, <2>1 DEF IntrospectionInv, GotDescriptions, I!TypeOK
<1>2. ASSUME NEW t \in Tasks, I!IntrospectAsync(t) PROVE IntrospectionInv'
  <2>1. PICK task \in I!Task :
           /\ tasks' = [tasks EXCEPT ![t] = task]
           /\ task.stage = "returning" /\ task.result \in I!Usable => introspection # "none"
           /\ task.stage # "returned" /\ task.scpd = tasks[t].scpd
           /\ task.stage = "downloading" => scpd # "no url"
    <3>1. tasks[t] \in I!Task /\ tasks[t].stage = "idle"
      BY Zenon, <1>0, <1>2 DEF I!TypeOK, I!IntrospectAsync
    <3>2. CASE introspection # "none"
      <4> DEFINE task == [tasks[t] EXCEPT !.stage = "returning", !.result = introspection]
      <4>1. tasks' = [tasks EXCEPT ![t] = task]
        BY Zenon, <1>2, <3>2 DEF I!IntrospectAsync, I!None
      <4>2. task \in I!Task /\ task.stage = "returning" /\ task.scpd = tasks[t].scpd
        BY Zenon, <1>0, <3>1 DEF I!Task, I!None
      <4> QED BY Zenon, <4>1, <4>2, <3>2
    <3>3. CASE introspection = "none" /\ scpd = "no url"
      <4> DEFINE task == [tasks[t] EXCEPT !.stage = "returning", !.result = "error"]
      <4>1. tasks' = [tasks EXCEPT ![t] = task]
        BY Zenon, <1>2, <3>3 DEF I!IntrospectAsync, I!None
      <4>2. /\ task \in I!Task /\ task.stage = "returning" /\ task.result = "error"
            /\ task.scpd = tasks[t].scpd
        BY Zenon, <3>1 DEF I!Task
      <4> QED BY Zenon, <4>1, <4>2, <1>0
    <3>4. CASE introspection = "none" /\ scpd # "no url"
      <4> DEFINE task == [tasks[t] EXCEPT !.stage = "downloading"]
      <4>1. tasks' = [tasks EXCEPT ![t] = task]
        BY Zenon, <1>2, <3>4 DEF I!IntrospectAsync, I!None
      <4>2. task \in I!Task /\ task.stage = "downloading" /\ task.scpd = tasks[t].scpd
        BY <3>1 DEF I!Task
      <4> QED BY Zenon, <4>1, <4>2, <3>4
    <3> QED BY Zenon, <3>2, <3>3, <3>4
  <2>2. scpd' = scpd /\ introspection' = introspection
    BY Zenon, <1>2 DEF I!IntrospectAsync
  <2>3. /\ tasks' \in [Tasks -> I!Task] /\ tasks'[t] = task
        /\ \A u \in Tasks : u # t => tasks'[u] = tasks[u]
    BY Zenon, <2>1, <1>0 DEF I!TypeOK
  <2>4. \A u \in Tasks : tasks'[u].scpd = tasks[u].scpd
    BY Zenon, <2>1, <2>3
  <2> QED BY Zenon, <2>1, <2>2, <2>3, <2>4, <1>0 DEF IntrospectionInv, GotDescriptions, I!TypeOK
<1>3. ASSUME NEW t \in Tasks, I!Cancel(t) PROVE IntrospectionInv'
  <2>1. /\ tasks' \in [Tasks -> I!Task]
        /\ \A u \in Tasks : /\ tasks'[u].stage = tasks[u].stage
                             /\ tasks'[u].result = tasks[u].result
                             /\ tasks'[u].scpd = tasks[u].scpd
    BY ZenonT(60), <1>0, <1>3 DEF I!Cancel, I!TypeOK, I!Task
  <2>2. scpd' = scpd /\ introspection' = introspection
    BY <1>3 DEF I!Cancel
  <2> QED BY Zenon, <2>1, <2>2 DEF IntrospectionInv, GotDescriptions, I!TypeOK
<1>4. ASSUME NEW t \in Tasks, I!TaskReturns(t) PROVE IntrospectionInv'
  <2>1. /\ tasks[t].stage = "returning" /\ tasks' = I!Returned(t, tasks[t].result)
        /\ scpd' = scpd /\ introspection' = introspection
    BY <1>4 DEF I!TaskReturns
  <2>2. tasks[t].result \in I!Usable \cup {"none", "error"}
    BY Zenon, <1>0 DEF I!TypeOK, I!Task, I!None
  <2>3. /\ tasks' \in [Tasks -> I!Task] /\ tasks'[t].result \in {tasks[t].result, "error"}
        /\ tasks'[t].scpd = tasks[t].scpd /\ tasks'[t].stage = "returned"
        /\ \A u \in Tasks : u # t => tasks'[u] = tasks[u]
    BY Zenon, <1>0, <2>1, <2>2, ReturnedFacts
  <2>4. \A u \in Tasks : tasks'[u].scpd = tasks[u].scpd
    BY Zenon, <2>3
  <2> QED BY Zenon, <1>0, <2>1, <2>3, <2>4 DEF IntrospectionInv, GotDescriptions, I!TypeOK
<1>5. ASSUME NEW t \in Tasks, I!DownloadFails(t) PROVE IntrospectionInv'
  <2>1. /\ tasks' = I!Returned(t, "error")
        /\ scpd' = scpd /\ introspection' = introspection
    BY <1>5 DEF I!DownloadFails
  <2>2. /\ tasks' \in [Tasks -> I!Task] /\ tasks'[t].result \in {"error"}
        /\ tasks'[t].scpd = tasks[t].scpd /\ tasks'[t].stage = "returned"
        /\ \A u \in Tasks : u # t => tasks'[u] = tasks[u]
    BY Zenon, <1>0, <2>1, ReturnedFacts
  <2>3. \A u \in Tasks : tasks'[u].scpd = tasks[u].scpd
    BY Zenon, <2>2
  <2> QED BY Zenon, <1>0, <2>1, <2>2, <2>3 DEF IntrospectionInv, GotDescriptions, I!TypeOK
<1>6. ASSUME NEW t \in Tasks, I!GotScpd(t) PROVE IntrospectionInv'
  <2> DEFINE result == IF scpd \in I!Usable THEN scpd ELSE "error"
  <2>1. /\ tasks' = I!Got(t, result) /\ scpd' = scpd /\ scpd # "no xml"
        /\ introspection' = IF scpd \in I!Usable THEN scpd ELSE "none"
        /\ tasks[t].stage = "downloading"
    BY Zenon, <1>6 DEF I!GotScpd, I!None
  <2>2. CASE scpd = "no url"
    BY Zenon, <2>1, <2>2, <1>0 DEF IntrospectionInv
  <2>3. CASE scpd \in I!Documents
    <3>1. /\ tasks' \in [Tasks -> I!Task] /\ tasks'[t].result \in {result, "error"}
          /\ tasks'[t].scpd = scpd /\ \A u \in Tasks : u # t => tasks'[u] = tasks[u]
      BY Zenon, <1>0, <2>1, <2>3, GotFacts
    <3>2. scpd \in I!Usable \/ scpd = "no scpd"
      BY Zenon, <2>1, <2>3 DEF I!Documents, I!Usable
    <3>3. introspection' \in I!Usable \cup {"none"}
      BY Zenon, <2>1
    <3>4. GotDescriptions' => scpd \in I!Usable
      BY Zenon, <3>1, <3>2 DEF GotDescriptions
    <3>5. scpd \in I!Usable => introspection' # "none"
      BY Zenon, <2>1, <1>0
    <3> QED BY Zenon, <1>0, <2>1, <3>1, <3>3, <3>4, <3>5 DEF IntrospectionInv, I!TypeOK, I!None
  <2> QED BY Zenon, <2>2, <2>3, <1>0 DEF I!TypeOK
<1> QED BY <1>1, <1>2, <1>3, <1>4, <1>5, <1>6 DEF I!Next

\* In the whole: the invariant while this part runs
InIntrospection == part = "introspection" => IntrospectionInv

\* It is inductive.
LEMMA IntrospectionInvIsInductive == Spec => []InIntrospection
<1>1. Init => InIntrospection
  BY InitIntrospection DEF Init, InIntrospection
<1>2. InIntrospection /\ [Next]_vars => InIntrospection'
  <2> SUFFICES ASSUME InIntrospection, [Next]_vars, part' = "introspection" PROVE IntrospectionInv'
    BY DEF InIntrospection
  <2>1. CASE IStep
    BY <2>1, NextKeepsIntrospection DEF IStep, InIntrospection
  <2>2. CASE UNCHANGED vars
    BY Zenon, <2>2 DEF vars, ivars, InIntrospection, IntrospectionInv, GotDescriptions, I!TypeOK
  <2>3. CASE NStep \/ CStep \/ WStep \/ DStep \/ SStep \/ HStep \/ PStep
    BY Zenon, <2>3 DEF NStep, CStep, WStep, DStep, SStep, HStep, PStep
  <2> QED BY <2>1, <2>2, <2>3 DEF Next
<1> QED BY <1>1, <1>2, PTL DEF Spec

\* StaysIntrospected: a service that has been introspected stays so, however the
\* downloads overlap, fail and are cancelled, unless a task was answered with XML that
\* is no service description.
THEOREM IntrospectedStaysSo == Spec => []StaysIntrospected
<1>1. InIntrospection => StaysIntrospected
  BY Zenon DEF InIntrospection, IntrospectionInv, GotDescriptions, StaysIntrospected,
         I!StaysIntrospected, I!IntrospectedForGood, I!None
<1> QED BY <1>1, IntrospectionInvIsInductive, PTL

-----------------------------------------------------------------------------
(* The context manager: the array of root devices.                         *)

\* Removal from a GPtrArray that fills the gap with the last entry
LEMMA RemoveFastType ==
  ASSUME NEW B, NEW array \in Seq(B), NEW d
  PROVE  C!RemoveFast(array, d) \in Seq(B)
BY DEF C!RemoveFast

\* ... removes that entry and nothing else.
LEMMA RemoveFastMembers ==
  ASSUME NEW B, NEW array \in Seq(B), Injective(array), NEW d \in Members(array)
  PROVE  /\ Injective(C!RemoveFast(array, d))
         /\ Members(C!RemoveFast(array, d)) = Members(array) \ {d}
<1> DEFINE L == Len(array)
           R == C!RemoveFast(array, d)
<1>1. PICK k \in 1 .. L : array[k] = d
  BY DEF Members
<1>2. L \in Nat /\ Len(R) = L - 1 /\ L - 1 \in Nat
  BY <1>1 DEF C!RemoveFast
<1>3. \A i \in 1 .. L - 1 : R[i] = IF i = k THEN array[L] ELSE array[i]
  BY <1>1 DEF C!RemoveFast, Injective
<1> HIDE DEF R
<1>4. Injective(R)
  BY <1>1, <1>2, <1>3 DEF Injective
<1>5. ASSUME NEW x \in Members(R) PROVE x \in Members(array) \ {d}
  <2>1. PICK i \in 1 .. L - 1 : x = R[i]
    BY <1>2, <1>5 DEF Members
  <2>2. PICK j \in 1 .. L : x = array[j] /\ j # k
    BY <2>1, <1>2, <1>3, <1>1
  <2> QED BY <2>2, <1>1 DEF Members, Injective
<1>6. ASSUME NEW x \in Members(array) \ {d} PROVE x \in Members(R)
  <2>1. PICK j \in 1 .. L : x = array[j] /\ j # k
    BY <1>1 DEF Members
  <2>2. PICK i \in 1 .. L - 1 : R[i] = x
    <3>1. CASE j = L BY <3>1, <2>1, <1>1, <1>2, <1>3
    <3>2. CASE j # L BY <3>2, <2>1, <1>2, <1>3
    <3> QED BY <3>1, <3>2
  <2> QED BY <2>2, <1>2 DEF Members
<1>7. Members(R) = Members(array) \ {d}
  BY <1>5, <1>6
<1> QED BY <1>4, <1>7 DEF R

\* Removed() goes through arrays, each made from the one before.
Removal(after, B, array, devices) ==
    /\ after \in [0 .. Len(devices) -> Seq(B)]
    /\ after[0] = array
    /\ \A n \in 1 .. Len(devices) : after[n] = C!RemoveFast(after[n - 1], devices[n])
    /\ C!Removed(array, devices) = after[Len(devices)]

\* There is such a sequence of arrays.
LEMMA RemovedInSteps ==
  ASSUME NEW B, NEW array \in Seq(B), NEW devices \in Seq(B)
  PROVE  \E after : Removal(after, B, array, devices)
<1> DEFINE Q == Len(devices)
           T == Seq(B)
           after[n \in 0 .. Q] ==
             IF n = 0 THEN array ELSE C!RemoveFast(after[n - 1], devices[n])
           step == [p \in (1 .. Q) \X T |-> C!RemoveFast(p[2], devices[p[1]])]
<1>1. Q \in Nat /\ array \in T /\ step \in [(1 .. Q) \X T -> T]
  BY RemoveFastType
<1>2. PICK g : Repeats(g, T, array, Q, step)
  <2> HIDE DEF step, Q, after, T
  <2> QED BY Zenon, <1>1, Iteration
<1>3. g = [n \in 0 .. Q |-> IF n = 0 THEN array ELSE C!RemoveFast(g[n - 1], devices[n])]
  <2>1. ASSUME NEW n \in 1 .. Q PROVE g[n] = C!RemoveFast(g[n - 1], devices[n])
    <3>1. g[n - 1] \in T BY <1>2 DEF Repeats
    <3> QED BY Zenon, <1>2, <3>1 DEF Repeats
  <2> QED BY <1>2, <2>1 DEF Repeats
<1>4. after = [n \in 0 .. Q |-> IF n = 0 THEN array ELSE C!RemoveFast(after[n - 1], devices[n])]
  BY Zenon, <1>3
<1>5. after[0] = array /\ \A n \in 1 .. Q : after[n] = C!RemoveFast(after[n - 1], devices[n])
  <2> HIDE DEF after
  <2> QED BY <1>4, <1>1
<1>6. C!Removed(array, devices) = after[Q]
  BY DEF C!Removed
<1> HIDE DEF after
<1> DEFINE Typed == {n \in 0 .. Q : after[n] \in T}
<1>7. 0 \in Typed
  BY <1>5
<1>8. ASSUME NEW n \in 1 .. Q, n - 1 \in Typed PROVE n \in Typed
  BY <1>5, <1>8, RemoveFastType
<1>9. \A n \in 0 .. Q : n \in Typed
  <2> HIDE DEF Typed
  <2> QED BY Zenon, <1>1, <1>7, <1>8, Induction
<1>10. after \in [0 .. Q -> T]
  BY <1>4, <1>9
<1> QED BY <1>5, <1>6, <1>10 DEF Removal

\* The array that is left has root devices in it.
LEMMA RemovedType ==
  ASSUME NEW B, NEW array \in Seq(B), NEW devices \in Seq(B)
  PROVE  C!Removed(array, devices) \in Seq(B)
<1>1. PICK after : Removal(after, B, array, devices)
  BY RemovedInSteps
<1>2. Len(devices) \in 0 .. Len(devices)
  OBVIOUS
<1> QED BY <1>1, <1>2 DEF Removal

\* ... those that were not removed.
LEMMA RemovedMembers ==
  ASSUME NEW B, NEW array \in Seq(B), Injective(array),
         NEW devices \in Seq(B), Injective(devices), Members(devices) \subseteq Members(array)
  PROVE  /\ Injective(C!Removed(array, devices))
         /\ Members(C!Removed(array, devices)) = Members(array) \ Members(devices)
<1> DEFINE Q == Len(devices)
<1>1. PICK after : Removal(after, B, array, devices)
  BY RemovedInSteps
<1> DEFINE Gone(n) == {devices[i] : i \in 1 .. n}
           Right(n) == Injective(after[n]) /\ Members(after[n]) = Members(array) \ Gone(n)
           All == {n \in 0 .. Q : Right(n)}
<1>2. 0 \in All
  <2>1. Gone(0) = {} OBVIOUS
  <2> QED BY <1>1, <2>1 DEF Removal
<1>3. ASSUME NEW n \in 1 .. Q, n - 1 \in All PROVE n \in All
  <2> DEFINE last == after[n - 1]
             d == devices[n]
  <2>1. last \in Seq(B) /\ Injective(last) BY <1>1, <1>3 DEF Removal
  <2>2. d \in Members(last)
    <3>1. d \in Members(array) BY DEF Members
    <3>2. d \notin Gone(n - 1) BY DEF Injective
    <3> QED BY <1>3, <3>1, <3>2
  <2>3. Gone(n) = Gone(n - 1) \cup {d}
    <3>1. 1 .. n = (1 .. n - 1) \cup {n} OBVIOUS
    <3> QED BY <3>1
  <2>4. after[n] = C!RemoveFast(last, d) BY <1>1 DEF Removal
  <2>5. Injective(C!RemoveFast(last, d)) /\ Members(C!RemoveFast(last, d)) = Members(last) \ {d}
    <3> HIDE DEF last, d
    <3> QED BY <2>1, <2>2, RemoveFastMembers
  <2>6. Members(after[n]) = Members(array) \ Gone(n)
    BY <2>4, <2>5, <1>3, <2>3
  <2> QED BY <2>4, <2>5, <2>6
<1>4. Right(Q)
  <2>1. Q \in Nat /\ Q \in 0 .. Q OBVIOUS
  <2>2. Q \in All
    <3> HIDE DEF All, Q
    <3> QED BY Zenon, <1>2, <1>3, <2>1, Induction
  <2> QED BY <2>2
<1>5. Gone(Q) = Members(devices)
  BY DEF Members
<1> QED BY Zenon, <1>1, <1>4, <1>5 DEF Removal

-----------------------------------------------------------------------------
(* The objects that the manager keeps, and the array of root devices.      *)

\* Each context has a list of its objects; the array has all of them, once.
Ledger(objs, array) ==
    /\ objs \in [Contexts -> Seq(RootDevices)]
    /\ array \in Seq(RootDevices)
    /\ \A c \in Contexts : Injective(objs[c])
    /\ \A c, e \in Contexts : c # e => Members(objs[c]) \cap Members(objs[e]) = {}
    /\ Injective(array)
    /\ Members(array) = UNION {Members(objs[c]) : c \in Contexts}

\* The hash table has each of its contexts once.
LEMMA OrderIsAll ==
  ASSUME NEW X, IsFiniteSet(X), NEW order \in C!SetToSeqs(X)
  PROVE  order \in Seq(X) /\ Injective(order) /\ Members(order) = X
<1> DEFINE n == Cardinality(X)
<1>1. n \in Nat
  BY FS_CardinalityType
<1>2. order \in [1 .. n -> X] /\ \A i, j \in 1 .. n : i # j => order[i] # order[j]
  BY DEF C!SetToSeqs, C!Injection, C!IsInjective, C!Cardinality, Cardinality
<1>3. order \in Seq(X) /\ Len(order) = n
  BY <1>1, <1>2
<1>4. order \in Injection(1 .. n, X)
  BY <1>2 DEF Injection, IsInjective
<1>5. Cardinality(1 .. n) = n
  <2> HIDE DEF n
  <2> QED BY <1>1, FS_Interval
<1>6. order \in Surjection(1 .. n, X)
  BY <1>4, <1>5, FS_Injection
<1>7. Members(order) = X
  BY <1>2, <1>3, <1>6 DEF Surjection, Members
<1> QED BY <1>2, <1>3, <1>7 DEF Injective

\* The lists of some contexts are dropped, and the array has what is left.
LEMMA LedgerAfterDrop ==
  ASSUME NEW objs, NEW array, Ledger(objs, array),
         NEW X \in SUBSET Contexts, NEW left \in Seq(RootDevices), Injective(left),
         Members(left) = Members(array) \ UNION {Members(objs[c]) : c \in X}
  PROVE  Ledger([c \in Contexts |-> IF c \in X THEN <<>> ELSE objs[c]], left)
<1> DEFINE kept == [c \in Contexts |-> IF c \in X THEN <<>> ELSE objs[c]]
<1>1. kept \in [Contexts -> Seq(RootDevices)]
  BY DEF Ledger
<1>2. \A c \in Contexts : kept[c] = IF c \in X THEN <<>> ELSE objs[c]
  OBVIOUS
<1> HIDE DEF kept
<1>3. \A c \in Contexts : Injective(kept[c]) /\ Members(kept[c]) = IF c \in X THEN {} ELSE Members(objs[c])
  BY Zenon, <1>2, EmptyMembers DEF Ledger
<1>4. \A c, e \in Contexts : c # e => Members(kept[c]) \cap Members(kept[e]) = {}
  BY <1>3 DEF Ledger
<1>5. ASSUME NEW d \in Members(left) PROVE d \in UNION {Members(kept[c]) : c \in Contexts}
  <2>1. d \in Members(array) /\ \A c \in X : d \notin Members(objs[c])
    BY <1>5
  <2>2. PICK c \in Contexts : d \in Members(objs[c])
    BY <2>1 DEF Ledger
  <2> QED BY <2>1, <2>2, <1>3
<1>6. ASSUME NEW c \in Contexts, NEW d \in Members(kept[c]) PROVE d \in Members(left)
  <2>1. c \notin X /\ d \in Members(objs[c])
    BY <1>3, <1>6
  <2>2. d \in Members(array)
    BY <2>1 DEF Ledger
  <2>3. \A e \in X : d \notin Members(objs[e])
    BY <2>1 DEF Ledger
  <2> QED BY <2>2, <2>3
<1>7. Members(left) = UNION {Members(kept[c]) : c \in Contexts}
  <2>1. \A d \in UNION {Members(kept[c]) : c \in Contexts} : d \in Members(left)
    BY <1>6
  <2> QED BY Zenon, <1>5, <2>1
<1> QED BY <1>1, <1>3, <1>4, <1>7 DEF Ledger, kept

\* What is left when the objects of several contexts are dropped.
LEMMA RemovedInOrderMembers ==
  ASSUME Ledger(objects, root_devices), NEW order \in Seq(Contexts), Injective(order)
  PROVE  LET left == C!RemovedInOrder(order)
         IN /\ left \in Seq(RootDevices) /\ Injective(left)
            /\ Members(left) = Members(root_devices)
                                 \ UNION {Members(objects[c]) : c \in Members(order)}
<1> DEFINE Q == Len(order)
           T == Seq(RootDevices)
           after[n \in 0 .. Q] ==
             IF n = 0 THEN root_devices ELSE C!Removed(after[n - 1], objects[order[n]])
           step == [p \in (1 .. Q) \X T |-> C!Removed(p[2], objects[order[p[1]]])]
<1>1. /\ Q \in Nat /\ Q \in 0 .. Q /\ root_devices \in T
      /\ \A n \in 1 .. Q : order[n] \in Contexts /\ objects[order[n]] \in T
  BY DEF Ledger
<1>2. step \in [(1 .. Q) \X T -> T]
  BY <1>1, RemovedType
<1>3. PICK g : Repeats(g, T, root_devices, Q, step)
  <2> HIDE DEF step, Q, after, T
  <2> QED BY Zenon, <1>1, <1>2, Iteration
<1>4. g = [n \in 0 .. Q |-> IF n = 0 THEN root_devices ELSE C!Removed(g[n - 1], objects[order[n]])]
  <2>1. ASSUME NEW n \in 1 .. Q PROVE g[n] = C!Removed(g[n - 1], objects[order[n]])
    <3>1. g[n - 1] \in T BY <1>3 DEF Repeats
    <3> QED BY Zenon, <1>3, <3>1 DEF Repeats
  <2> QED BY <1>3, <2>1 DEF Repeats
<1>5. after = [n \in 0 .. Q |->
                 IF n = 0 THEN root_devices ELSE C!Removed(after[n - 1], objects[order[n]])]
  BY Zenon, <1>4
<1>6. after[0] = root_devices /\ \A n \in 1 .. Q : after[n] = C!Removed(after[n - 1], objects[order[n]])
  <2> HIDE DEF after
  <2> QED BY <1>5, <1>1
<1>7. C!RemovedInOrder(order) = after[Q]
  BY DEF C!RemovedInOrder
<1> HIDE DEF after
<1> DEFINE Gone(n) == UNION {Members(objects[order[i]]) : i \in 1 .. n}
           Right(n) == /\ after[n] \in T /\ Injective(after[n])
                       /\ Members(after[n]) = Members(root_devices) \ Gone(n)
           All == {n \in 0 .. Q : Right(n)}
<1>8. 0 \in All
  <2>1. Gone(0) = {} OBVIOUS
  <2> QED BY <1>6, <1>1, <2>1 DEF Ledger
<1>9. ASSUME NEW n \in 1 .. Q, n - 1 \in All PROVE n \in All
  <2> DEFINE last == after[n - 1]
             devices == objects[order[n]]
  <2>1. last \in T /\ Injective(last) /\ Members(last) = Members(root_devices) \ Gone(n - 1)
    BY <1>9
  <2>2. devices \in T /\ Injective(devices) /\ Members(devices) \subseteq Members(root_devices)
    BY <1>1 DEF Ledger
  <2>3. Members(devices) \cap Gone(n - 1) = {}
    <3>1. \A i \in 1 .. n - 1 : i \in 1 .. Q /\ i # n OBVIOUS
    <3>2. \A i \in 1 .. n - 1 : order[i] # order[n] BY <3>1 DEF Injective
    <3>3. \A i \in 1 .. n - 1 : Members(objects[order[i]]) \cap Members(devices) = {}
      BY Zenon, <3>1, <3>2, <1>1 DEF Ledger
    <3> QED BY <3>3
  <2>4. Gone(n) = Gone(n - 1) \cup Members(devices)
    <3>1. 1 .. n = (1 .. n - 1) \cup {n} OBVIOUS
    <3> QED BY <3>1
  <2>5. after[n] = C!Removed(last, devices) BY <1>6
  <2>6. Members(devices) \subseteq Members(last) BY <2>1, <2>2, <2>3
  <2>7. /\ C!Removed(last, devices) \in T /\ Injective(C!Removed(last, devices))
        /\ Members(C!Removed(last, devices)) = Members(last) \ Members(devices)
    <3> HIDE DEF last, devices
    <3> QED BY SMTT(30), <2>1, <2>2, <2>6, RemovedType, RemovedMembers
  <2>8. Members(after[n]) = Members(root_devices) \ Gone(n)
    BY <2>5, <2>7, <2>1, <2>4
  <2> QED BY <2>5, <2>7, <2>8
<1>10. Right(Q)
  <2>1. Q \in All
    <3> HIDE DEF All, Q
    <3> QED BY <1>1, <1>8, <1>9, Induction
  <2> QED BY <2>1
<1>11. Gone(Q) = UNION {Members(objects[c]) : c \in Members(order)}
  BY DEF Members
<1> QED BY Zenon, <1>7, <1>10, <1>11

\* The filter drops the objects of all contexts it blocks.
LEMMA DropAllKeeps ==
  ASSUME Ledger(objects, root_devices), NEW X \in SUBSET Contexts, IsFiniteSet(X), C!DropAll(X)
  PROVE  /\ Ledger(objects', root_devices')
         /\ objects' = [c \in Contexts |-> IF c \in X THEN <<>> ELSE objects[c]]
<1>1. PICK order \in C!SetToSeqs(X) : root_devices' = C!RemovedInOrder(order)
  BY DEF C!DropAll
<1>2. order \in Seq(X) /\ Injective(order) /\ Members(order) = X
  BY OrderIsAll
<1>3. order \in Seq(Contexts)
  BY <1>2
<1>4. /\ root_devices' \in Seq(RootDevices) /\ Injective(root_devices')
      /\ Members(root_devices') = Members(root_devices) \ UNION {Members(objects[c]) : c \in X}
  BY <1>1, <1>2, <1>3, RemovedInOrderMembers
<1>5. objects' = [c \in Contexts |-> IF c \in X THEN <<>> ELSE objects[c]]
  BY DEF C!DropAll
<1>6. Ledger([c \in Contexts |-> IF c \in X THEN <<>> ELSE objects[c]], root_devices')
  BY <1>4, LedgerAfterDrop
<1> QED BY <1>5, <1>6

\* A context that vanishes takes its objects with it.
LEMMA DropObjectsKeeps ==
  ASSUME Ledger(objects, root_devices), NEW c \in Contexts, C!DropObjects(c)
  PROVE  /\ Ledger(objects', root_devices')
         /\ objects' = [objects EXCEPT ![c] = <<>>]
         /\ Members(root_devices') \subseteq Members(root_devices)
<1>1. /\ root_devices \in Seq(RootDevices) /\ Injective(root_devices)
      /\ objects[c] \in Seq(RootDevices) /\ Injective(objects[c])
      /\ Members(objects[c]) \subseteq Members(root_devices)
  BY DEF Ledger
<1>2. root_devices' = C!Removed(root_devices, objects[c]) /\ objects' = [objects EXCEPT ![c] = <<>>]
  BY DEF C!DropObjects
<1>3. /\ root_devices' \in Seq(RootDevices) /\ Injective(root_devices')
      /\ Members(root_devices') = Members(root_devices) \ Members(objects[c])
  BY <1>1, <1>2, RemovedType, RemovedMembers
<1>4. Members(root_devices') = Members(root_devices) \ UNION {Members(objects[e]) : e \in {c}}
  BY <1>3
<1>5. Ledger([e \in Contexts |-> IF e \in {c} THEN <<>> ELSE objects[e]], root_devices')
  <2> DEFINE X == {c}
  <2>1. X \in SUBSET Contexts OBVIOUS
  <2>2. Members(root_devices') = Members(root_devices) \ UNION {Members(objects[e]) : e \in X}
    BY <1>4
  <2> HIDE DEF X
  <2>3. Ledger([e \in Contexts |-> IF e \in X THEN <<>> ELSE objects[e]], root_devices')
    BY <1>3, <2>1, <2>2, LedgerAfterDrop
  <2> QED BY <2>3 DEF X
<1>6. objects' = [e \in Contexts |-> IF e \in {c} THEN <<>> ELSE objects[e]]
  BY Zenon, <1>2 DEF Ledger
<1> QED BY Zenon, <1>2, <1>3, <1>5, <1>6

-----------------------------------------------------------------------------
(* Boot ids.                                                               *)

\* A boot id and those of the clients
Boots == [id : Nat, client : [Contexts -> Nat]]

\* A root device in the array has a context.
LEMMA ContextOfType ==
  ASSUME Ledger(objects, root_devices), NEW d \in Members(root_devices)
  PROVE  C!ContextOf(d) \in Contexts
<1>1. PICK c \in Contexts : d \in Members(objects[c])
  BY DEF Ledger
<1>2. \E i \in DOMAIN objects[c] : objects[c][i] = d
  BY <1>1 DEF Members, Ledger
<1> QED BY <1>2 DEF C!ContextOf

\* do_boot_id_update_for_root_devices() counts for each client.
LEMMA UpdatedType ==
  ASSUME NEW client \in [Contexts -> Nat], NEW devices \in Seq(RootDevices)
  PROVE  C!Updated(client, devices) \in [Contexts -> Nat]
<1>1. ASSUME NEW c \in Contexts
      PROVE  C!Cardinality({i \in DOMAIN devices : C!ContextOf(devices[i]) = c}) \in Nat
  <2> DEFINE J == {i \in DOMAIN devices : C!ContextOf(devices[i]) = c}
  <2>1. IsFiniteSet(1 .. Len(devices))
    BY FS_Interval
  <2>2. J \in SUBSET (1 .. Len(devices))
    OBVIOUS
  <2>3. Cardinality(J) \in Nat
    <3> HIDE DEF J
    <3> QED BY Zenon, <2>1, <2>2, FS_Subset, FS_CardinalityType
  <2> QED BY <2>3 DEF C!Cardinality, Cardinality
<1> QED BY <1>1 DEF C!Updated

\* ... and leaves a boot id.
LEMMA BootIdUpdateType ==
  ASSUME Ledger(objects, root_devices), NEW id \in Nat, NEW client \in [Contexts -> Nat],
         NEW devices \in Seq(RootDevices), Members(devices) \subseteq Members(root_devices)
  PROVE  C!BootIdUpdate(id, client, devices) \in Nat
<1>1. CASE devices = <<>>
  BY <1>1 DEF C!BootIdUpdate
<1>2. CASE devices # <<>>
  <2>1. C!Last(devices) \in Members(devices)
    BY <1>2 DEF Members, C!Last
  <2>2. C!ContextOf(C!Last(devices)) \in Contexts
    BY <2>1, ContextOfType
  <2> QED BY <1>2, <2>2, UpdatedType DEF C!BootIdUpdate
<1> QED BY <1>1, <1>2

\* An announcement leaves boot ids.
LEMMA AnnounceType ==
  ASSUME Ledger(objects, root_devices), NEW boot \in Boots, NEW c \in Contexts
  PROVE  C!Announce(boot, c) \in Boots
<1>1. boot.id \in Nat /\ boot.client \in [Contexts -> Nat] /\ root_devices \in Seq(RootDevices)
  BY DEF Boots, Ledger
<1>2. C!BootIdUpdate(boot.id, boot.client, root_devices) \in Nat
  BY Zenon, <1>1, BootIdUpdateType
<1>3. C!Updated(boot.client, root_devices) \in [Contexts -> Nat]
  BY <1>1, UpdatedType
<1> QED BY <1>2, <1>3 DEF C!Announce, Boots

\* So does one after the other.
LEMMA AnnouncedInOrderType ==
  ASSUME Ledger(objects, root_devices), boot_id \in Nat, client_boot \in [Contexts -> Nat],
         NEW order \in Seq(Contexts)
  PROVE  C!AnnouncedInOrder(order) \in Boots
<1> DEFINE Q == Len(order)
           start == [id |-> boot_id, client |-> client_boot]
           after[n \in 0 .. Q] == IF n = 0 THEN start ELSE C!Announce(after[n - 1], order[n])
           step == [p \in (1 .. Q) \X Boots |-> C!Announce(p[2], order[p[1]])]
<1>1. /\ Q \in Nat /\ Q \in 0 .. Q /\ start \in Boots
      /\ \A n \in 1 .. Q : order[n] \in Contexts
  BY DEF Boots
<1>2. step \in [(1 .. Q) \X Boots -> Boots]
  BY <1>1, AnnounceType
<1>3. PICK g : Repeats(g, Boots, start, Q, step)
  <2> HIDE DEF step, Q, after, start
  <2> QED BY Zenon, <1>1, <1>2, Iteration
<1>4. g = [n \in 0 .. Q |-> IF n = 0 THEN start ELSE C!Announce(g[n - 1], order[n])]
  <2>1. ASSUME NEW n \in 1 .. Q PROVE g[n] = C!Announce(g[n - 1], order[n])
    <3>1. g[n - 1] \in Boots BY SMTT(30), <1>3 DEF Repeats
    <3> QED BY Zenon, <1>3, <3>1 DEF Repeats
  <2> HIDE DEF start
  <2> QED BY <1>3, <2>1 DEF Repeats
<1>5. after = [n \in 0 .. Q |-> IF n = 0 THEN start ELSE C!Announce(after[n - 1], order[n])]
  BY Zenon, <1>4
<1>6. C!AnnouncedInOrder(order) = after[Q]
  BY DEF C!AnnouncedInOrder
<1> HIDE DEF after, start
<1>7. after[0] = start /\ \A n \in 1 .. Q : after[n] = C!Announce(after[n - 1], order[n])
  BY SMTT(30), <1>5, <1>1
<1> DEFINE All == {n \in 0 .. Q : after[n] \in Boots}
<1>8. 0 \in All
  BY <1>7, <1>1
<1>9. ASSUME NEW n \in 1 .. Q, n - 1 \in All PROVE n \in All
  BY <1>7, <1>9, <1>1, AnnounceType
<1>10. Q \in All
  <2> HIDE DEF All, Q
  <2> QED BY Zenon, <1>1, <1>8, <1>9, Induction
<1> QED BY <1>6, <1>10

-----------------------------------------------------------------------------
(* The inductive invariant of the context manager.                         *)

InUse == up \ filtered

\* The manager has the contexts that are up; those the filter does not let through
\* are filtered, the others in use: told of, they alone have objects, and none but
\* they may be active, of those the subclass has.
ContextsInv ==
    /\ C!TypeOK
    /\ IsFiniteSet(up)
    /\ contexts = up
    /\ filtered = {c \in up : C!ContextFiltered(entries, enabled, c)}
    /\ told = [c \in Contexts |-> IF c \in InUse THEN 1 ELSE 0]
    /\ \A c \in Contexts \ InUse : objects[c] = <<>>
    /\ \A c \in up \cup withdrawn : c \in active => c \in InUse
    /\ Ledger(objects, root_devices)

\* At the start there is no context.
LEMMA InitContexts == C!Init => ContextsInv
<1> SUFFICES ASSUME C!Init PROVE ContextsInv
  OBVIOUS
<1> USE DEF C!Init, InUse
<1>1. C!TypeOK
  <2>1. objects \in [Contexts -> Seq(RootDevices)] /\ root_devices \in Seq(RootDevices)
    OBVIOUS
  <2>2. told \in [Contexts -> 0 .. 1] /\ boot_id \in Nat /\ client_boot \in [Contexts -> Nat]
    OBVIOUS
  <2> QED BY Zenon, <2>1, <2>2 DEF C!TypeOK
<1>2. IsFiniteSet(up)
  BY FS_EmptySet
<1>3. Ledger(objects, root_devices)
  BY EmptyMembers DEF Ledger
<1> QED BY <1>1, <1>2, <1>3 DEF ContextsInv

\* A context comes up that the filter blocks.
LEMMA ContextBlockedKeeps ==
  ASSUME ContextsInv, NEW c \in Contexts, C!ContextBlocked(c) PROVE ContextsInv'
<1> USE DEF ContextsInv, InUse, C!ContextBlocked, C!filter, C!boots
<1>1. C!TypeOK'
  BY DEF C!TypeOK
<1>2. IsFiniteSet(up')
  BY FS_AddElement
<1>3. filtered' = {e \in up' : C!ContextFiltered(entries, enabled, e)'}
  BY DEF C!ContextFiltered, C!CheckContext
<1>4. InUse' = InUse /\ contexts' = up'
  BY DEF C!TypeOK
<1>5. Ledger(objects', root_devices')
  OBVIOUS
<1>6. \A e \in up' \cup withdrawn' : e \in active' => e \in InUse'
  OBVIOUS
<1> QED BY <1>1, <1>2, <1>3, <1>4, <1>5, <1>6

\* One comes up that it lets through.
LEMMA ContextAvailableKeeps ==
  ASSUME ContextsInv, NEW c \in Contexts, C!ContextAvailable(c) PROVE ContextsInv'
<1> USE DEF ContextsInv, InUse, C!ContextAvailable, C!filter
<1>1. boot_id' \in Nat /\ client_boot' \in [Contexts -> Nat]
  <2> DEFINE boot == [id |-> boot_id, client |-> client_boot]
  <2>1. boot \in Boots
    BY DEF Boots, C!TypeOK
  <2>2. C!Announce(boot, c) \in Boots
    <3> HIDE DEF boot
    <3> QED BY <2>1, AnnounceType
  <2> QED BY <2>2 DEF Boots
<1>2. told' = [e \in Contexts |-> IF e \in InUse' THEN 1 ELSE 0]
  <2>1. InUse' = InUse \cup {c} /\ c \notin InUse /\ told' = [told EXCEPT ![c] = told[c] + 1]
    OBVIOUS
  <2>2. told = [e \in Contexts |-> IF e \in InUse THEN 1 ELSE 0]
    OBVIOUS
  <2> QED BY <2>1, <2>2
<1>3. C!TypeOK'
  BY <1>1, <1>2 DEF C!TypeOK
<1>4. IsFiniteSet(up')
  BY FS_AddElement
<1>5. filtered' = {e \in up' : C!ContextFiltered(entries, enabled, e)'}
  BY DEF C!ContextFiltered, C!CheckContext
<1>6. InUse' = InUse \cup {c} /\ contexts' = up'
  BY DEF C!TypeOK
<1>7. Ledger(objects', root_devices')
  OBVIOUS
<1>8. \A e \in up' \cup withdrawn' : e \in active' => e \in InUse'
  BY <1>6
<1> QED BY <1>2, <1>3, <1>4, <1>5, <1>6, <1>7, <1>8

\* A blocked context vanishes.
LEMMA BlockedUnavailableKeeps ==
  ASSUME ContextsInv, NEW c \in Contexts, C!BlockedUnavailable(c) PROVE ContextsInv'
<1> USE DEF ContextsInv, InUse, C!BlockedUnavailable, C!filter, C!boots
<1>1. Ledger(objects', root_devices') /\ objects' = [objects EXCEPT ![c] = <<>>]
  BY DropObjectsKeeps
<1>2. C!TypeOK'
  BY <1>1 DEF C!TypeOK, Ledger
<1>3. IsFiniteSet(up')
  BY FS_RemoveElement
<1>4. filtered' = {e \in up' : C!ContextFiltered(entries, enabled, e)'}
  BY DEF C!ContextFiltered, C!CheckContext
<1>5. contexts' = up' /\ InUse' = InUse
  BY DEF C!TypeOK
<1>6. \A e \in Contexts \ InUse' : objects'[e] = <<>>
  BY <1>1, <1>5 DEF Ledger
<1>7. \A e \in up' \cup withdrawn' : e \in active' => e \in InUse'
  BY <1>5
<1> QED BY <1>1, <1>2, <1>3, <1>4, <1>5, <1>6, <1>7

\* A context in use vanishes.
LEMMA ContextUnavailableKeeps ==
  ASSUME ContextsInv, NEW c \in Contexts, C!ContextUnavailable(c) PROVE ContextsInv'
<1> USE DEF ContextsInv, InUse, C!ContextUnavailable, C!filter
<1>1. /\ Ledger(objects', root_devices') /\ objects' = [objects EXCEPT ![c] = <<>>]
      /\ Members(root_devices') \subseteq Members(root_devices)
  BY DropObjectsKeeps
<1>2. boot_id' \in Nat /\ client_boot' \in [Contexts -> Nat]
  <2>1. root_devices' \in Seq(RootDevices)
    BY <1>1 DEF Ledger
  <2> QED BY Zenon, <1>1, <2>1, BootIdUpdateType, UpdatedType DEF C!TypeOK
<1>3. told' = [e \in Contexts |-> IF e \in InUse' THEN 1 ELSE 0]
  <2>1. InUse' = InUse \ {c} /\ c \in InUse /\ told' = [told EXCEPT ![c] = told[c] - 1]
    BY DEF C!TypeOK
  <2>2. told = [e \in Contexts |-> IF e \in InUse THEN 1 ELSE 0]
    OBVIOUS
  <2> HIDE DEF InUse, ContextsInv, C!ContextUnavailable
  <2> QED BY <2>1, <2>2
<1>4. C!TypeOK'
  <2>1. told' \in [Contexts -> 0 .. 1]
    BY <1>3
  <2>2. filtered' \subseteq contexts' /\ referenced' \subseteq filtered'
    BY DEF C!TypeOK
  <2>3. objects' \in [Contexts -> Seq(RootDevices)] /\ root_devices' \in Seq(RootDevices)
    BY <1>1 DEF Ledger
  <2> QED BY Zenon, <1>2, <2>1, <2>2, <2>3 DEF C!TypeOK
<1>5. IsFiniteSet(up')
  BY FS_RemoveElement
<1>6. filtered' = {e \in up' : C!ContextFiltered(entries, enabled, e)'}
  BY DEF C!ContextFiltered, C!CheckContext
<1>7. InUse' = InUse \ {c} /\ contexts' = up'
  BY DEF C!TypeOK
<1>8. \A e \in Contexts \ InUse' : objects'[e] = <<>>
  BY <1>1 DEF Ledger
<1>9. \A e \in up' \cup withdrawn' : e \in active' => e \in InUse'
  BY <1>7
<1> QED BY <1>1, <1>3, <1>4, <1>5, <1>6, <1>7, <1>8, <1>9

\* A context that has vanished is dropped by the subclass.
LEMMA DroppedKeeps ==
  ASSUME ContextsInv, NEW c \in Contexts, C!Dropped(c) PROVE ContextsInv'
<1> USE DEF ContextsInv, InUse, C!Dropped, C!filter, C!boots
<1>1. C!TypeOK' /\ c \notin up
  BY DEF C!TypeOK
<1>2. filtered' = {e \in up' : C!ContextFiltered(entries, enabled, e)'}
  BY DEF C!ContextFiltered, C!CheckContext
<1>3. \A e \in up' \cup withdrawn' : e \in active' => e \in InUse'
  BY <1>1
<1> QED BY <1>1, <1>2, <1>3

\* The entries of the filter are edited, and contexts move both ways.
LEMMA EditedKeeps ==
  ASSUME ContextsInv, NEW E \in SUBSET Entries, C!Edited(E) PROVE ContextsInv'
<1> DEFINE blocked == C!NewlyBlocked(E)
           passing == C!NewlyPassing(E)
<1> USE DEF ContextsInv, InUse, C!Edited, C!boots
<1>1. /\ entries' = E /\ up' = up /\ contexts' = contexts /\ enabled' = enabled
      /\ withdrawn' = withdrawn /\ boot_id' = boot_id /\ client_boot' = client_boot
  OBVIOUS
<1>2. CASE ~enabled
  <2>1. UNCHANGED <<filtered, referenced, active, told, objects, root_devices>>
    BY <1>2 DEF C!EntriesChanged
  <2>2. C!TypeOK'
    BY <1>1, <2>1 DEF C!TypeOK
  <2>3. filtered' = {e \in up' : C!ContextFiltered(entries, enabled, e)'}
    BY <1>1, <1>2, <2>1 DEF C!ContextFiltered
  <2> QED BY <1>1, <2>1, <2>2, <2>3
<1>3. CASE enabled
  <2>1. /\ filtered' = (filtered \cup blocked) \ passing
        /\ referenced' = referenced \ passing
        /\ active' = (active \cup passing) \ blocked
        /\ told' = [c \in Contexts |-> told[c] + (IF c \in passing THEN 1 ELSE 0)
                                               - (IF c \in blocked THEN 1 ELSE 0)]
        /\ C!DropAll(blocked)
    BY Zenon, <1>3 DEF C!EntriesChanged
  <2>2. /\ blocked = {c \in up \ filtered : C!ContextFiltered(E, TRUE, c)}
        /\ passing = {c \in filtered : ~C!ContextFiltered(E, TRUE, c)}
    BY DEF C!NewlyBlocked, C!NewlyPassing
  <2>3. up \in SUBSET Contexts /\ filtered \subseteq up /\ blocked \in SUBSET Contexts
    BY Zenon, <2>2 DEF C!TypeOK
  <2> HIDE DEF blocked, passing
  <2>4. IsFiniteSet(blocked)
    <3>1. blocked \in SUBSET up BY Zenon, <2>2
    <3> QED BY <3>1, FS_Subset
  <2>5. /\ Ledger(objects', root_devices')
        /\ objects' = [c \in Contexts |-> IF c \in blocked THEN <<>> ELSE objects[c]]
    BY <2>1, <2>3, <2>4, DropAllKeeps
  <2>6. filtered' = {e \in up' : C!ContextFiltered(entries, enabled, e)'}
    <3>1. \A e : C!ContextFiltered(entries, enabled, e)' <=> C!ContextFiltered(E, TRUE, e)
      BY <1>1, <1>3 DEF C!ContextFiltered, C!CheckContext
    <3> QED BY Zenon, <1>1, <2>1, <2>2, <3>1
  <2>7. InUse' = (InUse \cup passing) \ blocked
    BY Zenon, <1>1, <2>1, <2>2, <2>3
  <2>8. told' = [c \in Contexts |-> IF c \in InUse' THEN 1 ELSE 0]
    <3>1. \A c \in Contexts : told[c] = IF c \in up /\ c \notin filtered THEN 1 ELSE 0
      OBVIOUS
    <3>2. \A c \in Contexts : c \in InUse' <=> ((c \in up /\ c \notin filtered) \/ c \in passing)
                                                 /\ c \notin blocked
      BY <2>7
    <3>3. ASSUME NEW c \in Contexts
          PROVE  told[c] + (IF c \in passing THEN 1 ELSE 0) - (IF c \in blocked THEN 1 ELSE 0)
                   = IF c \in InUse' THEN 1 ELSE 0
      <4>1. told[c] = IF c \in up /\ c \notin filtered THEN 1 ELSE 0
        BY <3>1
      <4>2. /\ c \in passing => c \in filtered /\ c \notin blocked
            /\ c \in blocked => c \in up /\ c \notin filtered /\ c \notin passing
        BY Zenon, <2>2
      <4>3. c \in InUse' <=> ((c \in up /\ c \notin filtered) \/ c \in passing)
                              /\ c \notin blocked
        BY <3>2
      <4> HIDE DEF ContextsInv, C!Edited
      <4> QED BY <4>1, <4>2, <4>3
    <3> QED BY <2>1, <3>3
  <2>9. \A c \in Contexts \ InUse' : objects'[c] = <<>>
    BY Zenon, <2>1, <2>2, <2>5
  <2>10. C!TypeOK'
    <3>1. told' \in [Contexts -> 0 .. 1] BY <2>8
    <3>2. filtered' \subseteq contexts' /\ referenced' \subseteq filtered' /\ active' \subseteq Contexts
      BY Zenon, <1>1, <2>1, <2>2, <2>3 DEF C!TypeOK
    <3>3. objects' \in [Contexts -> Seq(RootDevices)] /\ root_devices' \in Seq(RootDevices)
      BY <2>5 DEF Ledger
    <3> QED BY <1>1, <3>1, <3>2, <3>3 DEF C!TypeOK
  <2>11. \A e \in up' \cup withdrawn' : e \in active' => e \in InUse'
    BY Zenon, <1>1, <2>1, <2>2, <2>3, <2>7
  <2> QED BY <1>1, <2>5, <2>6, <2>8, <2>9, <2>10, <2>11
<1> QED BY <1>2, <1>3 DEF C!TypeOK

\* The filter is enabled.
LEMMA EnableKeeps ==
  ASSUME ContextsInv, C!Enable PROVE ContextsInv'
<1> DEFINE blocked == {c \in contexts : C!ContextFiltered(entries, TRUE, c)}
<1> USE DEF ContextsInv, InUse, C!Enable, C!boots
<1>1. filtered = {}
  BY DEF C!ContextFiltered
<1>2. /\ enabled' = TRUE /\ filtered' = blocked /\ active' = active \ blocked
      /\ told' = [c \in Contexts |-> told[c] - (IF c \in blocked THEN 1 ELSE 0)]
      /\ C!DropAll(blocked)
      /\ up' = up /\ contexts' = contexts /\ referenced' = referenced /\ entries' = entries
      /\ withdrawn' = withdrawn /\ boot_id' = boot_id /\ client_boot' = client_boot
  BY Zenon, <1>1
<1>3. blocked \in SUBSET up /\ blocked \in SUBSET Contexts
  BY Zenon DEF C!TypeOK
<1>4. filtered' = {e \in up' : C!ContextFiltered(entries, enabled, e)'}
  <2>1. \A e : C!ContextFiltered(entries, enabled, e)' <=> C!ContextFiltered(entries, TRUE, e)
    BY <1>2 DEF C!ContextFiltered, C!CheckContext
  <2> QED BY Zenon, <1>2, <2>1
<1> HIDE DEF blocked
<1>5. IsFiniteSet(blocked)
  BY <1>3, FS_Subset
<1>6. /\ Ledger(objects', root_devices')
      /\ objects' = [c \in Contexts |-> IF c \in blocked THEN <<>> ELSE objects[c]]
  BY <1>2, <1>3, <1>5, DropAllKeeps
<1>7. InUse' = InUse \ blocked
  BY Zenon, <1>1, <1>2
<1>8. told' = [c \in Contexts |-> IF c \in InUse' THEN 1 ELSE 0]
  <2>1. ASSUME NEW c \in Contexts
        PROVE  told[c] - (IF c \in blocked THEN 1 ELSE 0) = IF c \in InUse' THEN 1 ELSE 0
    <3>1. told[c] = IF c \in InUse THEN 1 ELSE 0
      OBVIOUS
    <3>2. (c \in blocked => c \in InUse) /\ (c \in InUse' <=> c \in InUse /\ c \notin blocked)
      BY Zenon, <1>1, <1>3, <1>7
    <3> HIDE DEF ContextsInv, C!Enable
    <3> QED BY <3>1, <3>2
  <2> QED BY Zenon, <1>2, <2>1
<1>9. \A c \in Contexts \ InUse' : objects'[c] = <<>>
  BY Zenon, <1>2, <1>6
<1>10. C!TypeOK'
  <2>1. told' \in [Contexts -> 0 .. 1]
    <3> HIDE DEF ContextsInv, C!Enable
    <3> QED BY <1>8
  <2>2. filtered' \subseteq contexts' /\ referenced' \subseteq filtered' /\ active' \subseteq Contexts
    BY Zenon, <1>1, <1>2, <1>3 DEF C!TypeOK
  <2>3. objects' \in [Contexts -> Seq(RootDevices)] /\ root_devices' \in Seq(RootDevices)
    BY <1>6 DEF Ledger
  <2> QED BY Zenon, <1>2, <2>1, <2>2, <2>3 DEF C!TypeOK
<1>11. \A e \in up' \cup withdrawn' : e \in active' => e \in InUse'
  BY Zenon, <1>2, <1>7
<1> QED BY Zenon, <1>2, <1>4, <1>6, <1>8, <1>9, <1>10, <1>11

\* The filter is disabled: all that was filtered is announced.
LEMMA DisableKeeps ==
  ASSUME ContextsInv, C!Disable PROVE ContextsInv'
<1> USE DEF ContextsInv, InUse, C!Disable
<1>1. PICK order \in C!SetToSeqs(filtered) :
         boot_id' = C!AnnouncedInOrder(order).id /\ client_boot' = C!AnnouncedInOrder(order).client
  OBVIOUS
<1>2. IsFiniteSet(filtered)
  <2>1. filtered \in SUBSET up OBVIOUS
  <2> QED BY Zenon, <2>1, FS_Subset
<1>3. order \in Seq(Contexts)
  <2>1. order \in Seq(filtered) BY <1>2, OrderIsAll
  <2>2. filtered \subseteq Contexts BY Zenon DEF C!TypeOK
  <2> HIDE DEF ContextsInv, C!Disable
  <2> QED BY <2>1, <2>2
<1>4. boot_id' \in Nat /\ client_boot' \in [Contexts -> Nat]
  <2>1. C!AnnouncedInOrder(order) \in Boots
    BY <1>3, AnnouncedInOrderType DEF C!TypeOK
  <2> QED BY <1>1, <2>1 DEF Boots
<1>5. told' = [c \in Contexts |-> IF c \in InUse' THEN 1 ELSE 0]
  <2>1. ASSUME NEW c \in Contexts
        PROVE  told[c] + (IF c \in filtered THEN 1 ELSE 0) = IF c \in InUse' THEN 1 ELSE 0
    <3>1. told[c] = IF c \in InUse THEN 1 ELSE 0
      OBVIOUS
    <3>2. (c \in filtered => c \notin InUse) /\ (c \in InUse' <=> c \in InUse \/ c \in filtered)
      OBVIOUS
    <3> HIDE DEF ContextsInv, C!Disable
    <3> QED BY <3>1, <3>2
  <2>2. told' = [c \in Contexts |-> told[c] + (IF c \in filtered THEN 1 ELSE 0)]
    OBVIOUS
  <2> HIDE DEF ContextsInv, C!Disable
  <2> QED BY <2>1, <2>2
<1>6. C!TypeOK'
  <2>1. told' \in [Contexts -> 0 .. 1]
    <3> HIDE DEF ContextsInv, C!Disable
    <3> QED BY <1>5
  <2> QED BY Zenon, <1>4, <2>1 DEF C!TypeOK
<1>7. filtered' = {e \in up' : C!ContextFiltered(entries, enabled, e)'}
  BY DEF C!ContextFiltered
<1>8. \A e \in up' \cup withdrawn' : e \in active' => e \in InUse'
  OBVIOUS
<1> QED BY Zenon, <1>5, <1>6, <1>7, <1>8

\* What a new member does to an array
LEMMA AppendKeeps ==
  ASSUME NEW B, NEW s \in Seq(B), NEW x \in B
  PROVE  /\ Append(s, x) \in Seq(B) /\ Members(Append(s, x)) = Members(s) \cup {x}
         /\ Injective(s) /\ x \notin Members(s) => Injective(Append(s, x))
<1>1. /\ Append(s, x) \in Seq(B) /\ DOMAIN Append(s, x) = DOMAIN s \cup {Len(s) + 1}
      /\ DOMAIN s = 1 .. Len(s) /\ Append(s, x)[Len(s) + 1] = x
      /\ \A i \in DOMAIN s : Append(s, x)[i] = s[i]
  OBVIOUS
<1>2. Members(Append(s, x)) = Members(s) \cup {x}
  BY <1>1 DEF Members
<1>3. ASSUME Injective(s), x \notin Members(s) PROVE Injective(Append(s, x))
  BY <1>1, <1>3 DEF Members, Injective
<1> QED BY <1>1, <1>2, <1>3

\* A root device is managed on a context in use.
LEMMA ManageRootDeviceKeeps ==
  ASSUME ContextsInv, NEW c \in Contexts, NEW d \in RootDevices, C!ManageRootDevice(c, d)
  PROVE  ContextsInv'
<1> USE DEF ContextsInv, InUse, C!ManageRootDevice, C!filter, C!boots
<1>1. c \in InUse
  OBVIOUS
<1>2. d \notin Members(root_devices) /\ \A e \in Contexts : d \notin Members(objects[e])
  <2>1. \A i \in DOMAIN root_devices : root_devices[i] # d
    OBVIOUS
  <2>2. Ledger(objects, root_devices)
    OBVIOUS
  <2> HIDE DEF ContextsInv, C!ManageRootDevice
  <2>3. d \notin Members(root_devices)
    BY <2>1, <2>2 DEF Members, Ledger
  <2> QED BY <2>2, <2>3 DEF Ledger
<1>3. \A s \in Seq(RootDevices) : \A x \in RootDevices :
         /\ Append(s, x) \in Seq(RootDevices) /\ Members(Append(s, x)) = Members(s) \cup {x}
         /\ Injective(s) /\ x \notin Members(s) => Injective(Append(s, x))
  BY AppendKeeps
<1>4. Ledger(objects', root_devices')
  <2>1. \A e \in Contexts : objects'[e] = IF e = c THEN Append(objects[c], d) ELSE objects[e]
    BY DEF Ledger
  <2>2. \A e \in Contexts : /\ objects'[e] \in Seq(RootDevices) /\ Injective(objects'[e])
                            /\ Members(objects'[e]) =
                                 IF e = c THEN Members(objects[c]) \cup {d} ELSE Members(objects[e])
    <3>1. \A e \in Contexts : objects[e] \in Seq(RootDevices) /\ Injective(objects[e])
      BY DEF Ledger
    <3>2. LET new == Append(objects[c], d)
          IN /\ new \in Seq(RootDevices) /\ Injective(new)
             /\ Members(new) = Members(objects[c]) \cup {d}
      BY <3>1, <1>2, <1>3
    <3> HIDE DEF ContextsInv, C!ManageRootDevice
    <3> QED BY Zenon, <2>1, <3>1, <3>2
  <2>3. /\ root_devices' \in Seq(RootDevices) /\ Injective(root_devices')
        /\ Members(root_devices') = Members(root_devices) \cup {d}
    BY <1>2, <1>3 DEF Ledger
  <2>4. objects' \in [Contexts -> Seq(RootDevices)]
    BY <1>3 DEF Ledger
  <2>5. \A e, f \in Contexts : e # f => Members(objects'[e]) \cap Members(objects'[f]) = {}
    BY <2>2, <1>2 DEF Ledger
  <2>6. Members(root_devices') = UNION {Members(objects'[e]) : e \in Contexts}
    <3>1. \A x \in Members(root_devices') : \E e \in Contexts : x \in Members(objects'[e])
      BY <2>2, <2>3 DEF Ledger
    <3>2. \A e \in Contexts : \A x \in Members(objects'[e]) : x \in Members(root_devices')
      BY <2>2, <2>3 DEF Ledger
    <3> QED BY <3>1, <3>2
  <2> QED BY Zenon, <2>2, <2>3, <2>4, <2>5, <2>6 DEF Ledger
<1>5. C!TypeOK'
  BY <1>4 DEF C!TypeOK, Ledger
<1>6. \A e \in Contexts \ InUse' : objects'[e] = <<>>
  BY <1>1 DEF Ledger
<1>7. filtered' = {e \in up' : C!ContextFiltered(entries, enabled, e)'}
  BY DEF C!ContextFiltered, C!CheckContext
<1> QED BY <1>4, <1>5, <1>6, <1>7

\* Every step keeps the invariant.
LEMMA NextKeepsContexts == ContextsInv /\ C!Next => ContextsInv'
<1> SUFFICES ASSUME ContextsInv, C!Next PROVE ContextsInv'
  OBVIOUS
<1>1. ASSUME NEW c \in Contexts, C!ContextBlocked(c) PROVE ContextsInv'
  BY <1>1, ContextBlockedKeeps
<1>2. ASSUME NEW c \in Contexts, C!ContextAvailable(c) PROVE ContextsInv'
  BY <1>2, ContextAvailableKeeps
<1>3. ASSUME NEW c \in Contexts, C!BlockedUnavailable(c) PROVE ContextsInv'
  BY <1>3, BlockedUnavailableKeeps
<1>4. ASSUME NEW c \in Contexts, C!ContextUnavailable(c) PROVE ContextsInv'
  BY <1>4, ContextUnavailableKeeps
<1>5. ASSUME NEW c \in Contexts, NEW d \in RootDevices, C!ManageRootDevice(c, d) PROVE ContextsInv'
  BY <1>5, ManageRootDeviceKeeps
<1>6. ASSUME NEW E \in SUBSET Entries, C!AddEntries(E) PROVE ContextsInv'
  <2>1. entries \cup E \in SUBSET Entries BY DEF ContextsInv, C!TypeOK
  <2> QED BY <1>6, <2>1, EditedKeeps DEF C!AddEntries
<1>7. ASSUME NEW e \in Entries, C!RemoveEntry(e) PROVE ContextsInv'
  <2>1. entries \ {e} \in SUBSET Entries BY DEF ContextsInv, C!TypeOK
  <2> QED BY <1>7, <2>1, EditedKeeps DEF C!RemoveEntry
<1>8. CASE C!Clear
  <2>1. {} \in SUBSET Entries OBVIOUS
  <2> QED BY <1>8, <2>1, EditedKeeps DEF C!Clear
<1>9. CASE C!Enable
  BY <1>9, EnableKeeps
<1>10. CASE C!Disable
  BY <1>10, DisableKeeps
<1>11. ASSUME NEW c \in Contexts, C!Dropped(c) PROVE ContextsInv'
  BY <1>11, DroppedKeeps
<1> QED BY <1>1, <1>2, <1>3, <1>4, <1>5, <1>6, <1>7, <1>8, <1>9, <1>10, <1>11 DEF C!Next

\* It says what the application is told, ...
LEMMA ContextsInvTells == ContextsInv => C!ToldMatches
<1> SUFFICES ASSUME ContextsInv, NEW c \in Contexts
             PROVE  LET passes == ~enabled \/ entries = {} \/ entries \cap Names[c] # {}
                    IN told[c] = IF c \in up /\ passes THEN 1 ELSE 0
  BY DEF C!ToldMatches
<1>1. C!ContextFiltered(entries, enabled, c)
        <=> ~(~enabled \/ entries = {} \/ entries \cap Names[c] # {})
  BY DEF C!ContextFiltered, C!CheckContext
<1>2. c \in InUse <=> c \in up /\ ~C!ContextFiltered(entries, enabled, c)
  BY DEF ContextsInv, InUse
<1>3. told[c] = IF c \in InUse THEN 1 ELSE 0
  BY DEF ContextsInv
<1> QED BY <1>1, <1>2, <1>3

\* ... and that the other contexts are silent.
LEMMA ContextsInvIsSilent == ContextsInv => C!FilteredIsSilent
<1> SUFFICES ASSUME ContextsInv PROVE C!FilteredIsSilent
  OBVIOUS
<1>1. \A c \in Contexts : told[c] # 1 => c \in Contexts \ InUse
  <2>1. \A c \in Contexts : told[c] = IF c \in InUse THEN 1 ELSE 0
    BY DEF ContextsInv
  <2> QED BY <2>1
<1>4. \A c \in up \cup withdrawn : told[c] # 1 => c \notin active
  <2>1. up \subseteq Contexts /\ withdrawn \subseteq Contexts
    BY DEF ContextsInv, C!TypeOK
  <2>2. \A c \in up \cup withdrawn : c \in active => c \in InUse
    BY DEF ContextsInv
  <2> QED BY Zenon, <1>1, <2>1, <2>2
<1>5. \A c \in Contexts : told[c] # 1 => objects[c] = <<>>
  <2>1. \A c \in Contexts \ InUse : objects[c] = <<>>
    BY DEF ContextsInv
  <2> QED BY Zenon, <1>1, <2>1
<1>2. \A B : \A s \in Seq(B) : C!Range(s) = Members(s)
  BY DEF C!Range, Members
<1>3. C!Range(root_devices) = UNION {C!Range(objects[c]) : c \in Contexts}
  <2>1. /\ root_devices \in Seq(RootDevices) /\ \A c \in Contexts : objects[c] \in Seq(RootDevices)
        /\ Members(root_devices) = UNION {Members(objects[c]) : c \in Contexts}
    BY DEF ContextsInv, Ledger
  <2>2. \A c \in Contexts : C!Range(objects[c]) = Members(objects[c])
    BY <1>2, <2>1
  <2>3. {C!Range(objects[c]) : c \in Contexts} = {Members(objects[c]) : c \in Contexts}
    BY <2>2
  <2> QED BY <1>2, <2>1, <2>3
<1> QED BY <1>3, <1>4, <1>5 DEF C!FilteredIsSilent

-----------------------------------------------------------------------------
(* The part in the whole.                                                  *)

\* In the whole: the invariant while this part runs
InContexts == part = "contexts" => ContextsInv

\* It is inductive.
LEMMA ContextsInvIsInductive == Spec => []InContexts
<1>1. Init => InContexts
  BY InitContexts DEF Init, InContexts
<1>2. InContexts /\ [Next]_vars => InContexts'
  <2> SUFFICES ASSUME InContexts, [Next]_vars, part' = "contexts" PROVE ContextsInv'
    BY DEF InContexts
  <2>1. CASE CStep
    BY <2>1, NextKeepsContexts DEF CStep, InContexts
  <2>2. CASE UNCHANGED vars
    BY Zenon, <2>2 DEF vars, cvars, InContexts, ContextsInv, InUse, C!TypeOK, C!ContextFiltered, C!CheckContext
  <2>3. CASE NStep \/ IStep \/ WStep \/ DStep \/ SStep \/ HStep \/ PStep
    BY Zenon, <2>3 DEF NStep, IStep, WStep, DStep, SStep, HStep, PStep
  <2> QED BY <2>1, <2>2, <2>3 DEF Next
<1> QED BY <1>1, <1>2, PTL DEF Spec

\* ToldMatches: through every change of contexts and filter, the application has been
\* told of exactly the contexts that are up and that the filter lets through.
THEOREM ContextsAreTold == Spec => []ToldMatches
<1>1. InContexts => ToldMatches
  BY ContextsInvTells DEF InContexts, ToldMatches
<1> QED BY <1>1, ContextsInvIsInductive, PTL

\* FilteredIsSilent: a context that is blocked, or was withdrawn and is kept, is not
\* active and has no objects, and the array of root devices is exactly what the contexts
\* have.
THEOREM SilenceIsKept == Spec => []FilteredIsSilent
<1>1. InContexts => FilteredIsSilent
  BY ContextsInvIsSilent DEF InContexts, FilteredIsSilent
<1> QED BY <1>1, ContextsInvIsInductive, PTL

-----------------------------------------------------------------------------
(* WebServer: the lists and the handlers.                                  *)

HostRules == [agent : Agents, local : Seq(STRING)]
HostPathDatas == [path : W!Paths, local : Seq(STRING), rules : Seq(HostRules),
                  language : Languages \cup {"en"}]

\* The hosting that the context has, as HostAt() takes it
Now == [datas |-> datas, listed |-> host_path_datas, handlers |-> handlers,
        server |-> listening]

\* Without a server there are no handlers, and each handler has a data of its path that
\* is in the list of the context.
HostsSound(h) ==
    /\ h.server \in BOOLEAN
    /\ h.datas \in Seq(HostPathDatas)
    /\ h.listed \in Seq(1 .. Len(h.datas))
    /\ DOMAIN h.handlers \subseteq W!Paths
    /\ ~h.server => DOMAIN h.handlers = {}
    /\ \A p \in DOMAIN h.handlers : /\ h.handlers[p] \in Members(h.listed)
                                    /\ h.datas[h.handlers[p]].path = p

\* Each of some devices whose UDN no other has is served its description.
Own(d) == \A e \in RootDevices \ {d} : UdnOf[e] # UdnOf[d]
ServesAll(h, R) ==
    \A d \in R : Own(d) => /\ <<UdnOf[d]>> \in DOMAIN h.handlers
                           /\ h.datas[h.handlers[<<UdnOf[d]>>]].local = <<d>>

\* A file that is sent begins as the local path does that the agent is served from.
WebAnswer ==
    answer = W!NoAnswer \/
    /\ answer.request \in Requests
    /\ \E p \in DOMAIN handlers : answer.of = handlers[p]
    /\ answer.response.status \in {200, 206} =>
           W!IsPrefix(W!LocalFor(datas[answer.of], W!AgentOf(answer.request)),
                      answer.response.file)

WebInv ==
    /\ HostsSound(Now)
    /\ DOMAIN available \subseteq RootDevices /\ ServesAll(Now, DOMAIN available)
    /\ default_language \in Languages \cup {"en"}
    /\ user_agents \in [Clients -> Agents \cup {W!None}]
    /\ WebAnswer

\* The range of a list
LEMMA ListRange ==
  ASSUME NEW T, NEW s \in Seq(T)
  PROVE  /\ W!Range(s) = {s[i] : i \in 1 .. Len(s)} /\ W!Range(s) \subseteq T
         /\ DOMAIN s = 1 .. Len(s) /\ Len(s) \in Nat
<1>1. W!Range(s) = {s[i] : i \in DOMAIN s}
  BY DEF W!Range
<1>2. DOMAIN s = 1 .. Len(s) /\ Len(s) \in Nat /\ \A i \in 1 .. Len(s) : s[i] \in T
  OBVIOUS
<1> QED BY <1>1, <1>2

\* A list of one
LEMMA ListOfOne == ASSUME NEW T, NEW x \in T PROVE <<x>> \in Seq(T) /\ <<x>> # <<>>
<1>1. <<x>> # <<>>
  OBVIOUS
<1>2. <<x>> \in Seq(T)
  OBVIOUS
<1> QED BY <1>1, <1>2

\* Paths are lists of names.
LEMMA PathsAreLists ==
  /\ W!Paths \subseteq Seq(STRING) /\ AppPaths \subseteq W!Paths /\ <<>> \in W!Paths
  /\ \A d \in RootDevices : /\ <<UdnOf[d]>> \in W!Paths /\ <<d>> \in Seq(STRING)
                            /\ DirOf[d] \in Seq(STRING) /\ <<UdnOf[d]>> # <<>>
                            /\ <<UdnOf[d]>> \notin AppPaths
<1>1. \A d \in RootDevices : d \in STRING /\ UdnOf[d] \in STRING /\ DirOf[d] \in Seq(STRING)
  BY WebAssumption
<1>2. \A x \in STRING : <<x>> \in Seq(STRING) /\ <<x>> # <<>>
  BY ListOfOne
<1>3. AppPaths \subseteq Seq(STRING) /\ \A d \in RootDevices : <<UdnOf[d]>> \notin AppPaths
  BY WebAssumption
<1>4. <<>> \in Seq(STRING)
  OBVIOUS
<1> QED BY <1>1, <1>2, <1>3, <1>4 DEF W!Paths

\* Each handler has a data.
LEMMA HandlersHaveData ==
  ASSUME NEW h, HostsSound(h), NEW p \in DOMAIN h.handlers
  PROVE  h.handlers[p] \in 1 .. Len(h.datas) /\ h.datas[h.handlers[p]] \in HostPathDatas
<1>1. Members(h.listed) \subseteq 1 .. Len(h.datas)
  BY MembersType DEF HostsSound
<1>2. h.handlers[p] \in 1 .. Len(h.datas) /\ h.datas \in Seq(HostPathDatas)
  BY <1>1 DEF HostsSound
<1> QED BY <1>2

\* Hosting a path: the data is the last one, and its handler replaces that of the path.
LEMMA HostAtSound ==
  ASSUME NEW h, HostsSound(h), NEW local \in Seq(STRING), NEW path \in W!Paths,
         default_language \in Languages \cup {"en"},
         NEW x, x = W!HostAt(h, local, path)
  PROVE  /\ HostsSound(x) /\ x.server = h.server
         /\ h.server => /\ path \in DOMAIN x.handlers
                        /\ x.datas[x.handlers[path]].local = local
         /\ \A R : ServesAll(h, R) /\ (\A d \in R : Own(d) => <<UdnOf[d]>> # path)
                       => ServesAll(x, R)
<1> DEFINE new == Len(h.datas) + 1
           data == [path |-> path, local |-> local, rules |-> <<>>,
                    language |-> default_language]
<1>1. /\ x.datas = Append(h.datas, data) /\ x.listed = Append(h.listed, new)
      /\ x.handlers = IF h.server THEN W!Put(h.handlers, path, new) ELSE h.handlers
      /\ x.server = h.server
  BY DEF W!HostAt
<1>2. data \in HostPathDatas /\ data.path = path /\ data.local = local
  BY DEF HostPathDatas
<1> HIDE DEF data
<1>3. /\ x.datas \in Seq(HostPathDatas) /\ Len(h.datas) \in Nat
      /\ Len(x.datas) = Len(h.datas) + 1 /\ x.datas[new] = data
      /\ \A i \in 1 .. Len(h.datas) : x.datas[i] = h.datas[i]
  BY <1>1, <1>2, AppendFacts DEF HostsSound
<1>4. new \in 1 .. Len(x.datas) /\ 1 .. Len(h.datas) \subseteq 1 .. Len(x.datas)
  BY <1>3
<1>5. h.listed \in Seq(1 .. Len(x.datas))
  <2>1. h.listed \in Seq(1 .. Len(h.datas))
    BY DEF HostsSound
  <2> QED BY <1>4, <2>1
<1>6. x.listed \in Seq(1 .. Len(x.datas)) /\ Members(x.listed) = Members(h.listed) \cup {new}
  BY <1>1, <1>4, <1>5, AppendFacts
<1>7. /\ DOMAIN x.handlers = IF h.server THEN DOMAIN h.handlers \cup {path}
                                         ELSE DOMAIN h.handlers
      /\ \A p \in DOMAIN h.handlers : p # path => x.handlers[p] = h.handlers[p]
      /\ h.server => x.handlers[path] = new
      /\ ~h.server => x.handlers = h.handlers
  BY <1>1 DEF W!Put
<1>8. \A p \in DOMAIN h.handlers : h.handlers[p] \in 1 .. Len(h.datas)
  BY HandlersHaveData
<1>9. \A p \in DOMAIN x.handlers : /\ x.handlers[p] \in Members(x.listed)
                                   /\ x.datas[x.handlers[p]].path = p
  <2> SUFFICES ASSUME NEW p \in DOMAIN x.handlers
               PROVE  /\ x.handlers[p] \in Members(x.listed)
                      /\ x.datas[x.handlers[p]].path = p
    OBVIOUS
  <2>1. CASE h.server /\ p = path
    BY <1>2, <1>3, <1>6, <1>7, <2>1
  <2>2. CASE p # path \/ ~h.server
    <3>1. p \in DOMAIN h.handlers /\ x.handlers[p] = h.handlers[p]
      BY <1>7, <2>2
    <3>2. h.handlers[p] \in Members(h.listed) /\ h.datas[h.handlers[p]].path = p
      BY <3>1 DEF HostsSound
    <3> QED BY <1>3, <1>6, <1>8, <3>1, <3>2
  <2> QED BY <2>1, <2>2
<1>10. DOMAIN x.handlers \subseteq W!Paths /\ (~h.server => DOMAIN x.handlers = {})
  BY <1>7 DEF HostsSound
<1>11. HostsSound(x)
  BY <1>1, <1>3, <1>6, <1>9, <1>10 DEF HostsSound
<1>12. h.server => path \in DOMAIN x.handlers /\ x.datas[x.handlers[path]].local = local
  BY <1>2, <1>3, <1>7
<1>13. ASSUME NEW R, ServesAll(h, R), \A d \in R : Own(d) => <<UdnOf[d]>> # path
       PROVE  ServesAll(x, R)
  <2> SUFFICES ASSUME NEW d \in R, Own(d)
               PROVE  /\ <<UdnOf[d]>> \in DOMAIN x.handlers
                      /\ x.datas[x.handlers[<<UdnOf[d]>>]].local = <<d>>
    BY DEF ServesAll
  <2> DEFINE p == <<UdnOf[d]>>
  <2>1. p \in DOMAIN h.handlers /\ h.datas[h.handlers[p]].local = <<d>> /\ p # path
    BY <1>13 DEF ServesAll
  <2> HIDE DEF p
  <2>2. /\ p \in DOMAIN x.handlers /\ x.handlers[p] = h.handlers[p]
        /\ x.datas[h.handlers[p]] = h.datas[h.handlers[p]]
    BY <1>3, <1>7, <1>8, <2>1
  <2>3. p \in DOMAIN x.handlers /\ x.datas[x.handlers[p]].local = <<d>>
    BY <2>1, <2>2
  <2> QED BY Zenon, <2>3 DEF p
<1> QED BY <1>1, <1>11, <1>12, <1>13

\* The rules of a data
LEMMA RulesAre ==
  ASSUME NEW d \in HostPathDatas
  PROVE  /\ d.path \in W!Paths /\ d.local \in Seq(STRING)
         /\ d.rules \in Seq(HostRules)
         /\ DOMAIN d.rules = 1 .. Len(d.rules) /\ Len(d.rules) \in Nat
         /\ \A k \in DOMAIN d.rules : /\ d.rules[k].agent \in Agents
                                      /\ d.rules[k].local \in Seq(STRING)
<1> DEFINE rules == d.rules
<1>1. /\ d.path \in W!Paths /\ d.local \in Seq(STRING)
      /\ rules \in Seq(HostRules)
  BY DEF HostPathDatas
<1> HIDE DEF rules
<1>2. DOMAIN rules = 1 .. Len(rules) /\ Len(rules) \in Nat
  BY <1>1
<1>3. ASSUME NEW k \in DOMAIN rules
      PROVE  rules[k].agent \in Agents /\ rules[k].local \in Seq(STRING)
  <2>1. rules[k] \in HostRules
    BY <1>1, <1>2
  <2> QED BY <2>1 DEF HostRules
<1> QED BY <1>1, <1>2, <1>3 DEF rules

\* What the run checks follows.
LEMMA WebInvTells == WebInv => W!TypeOK /\ W!HandlerIsListed /\ W!DescriptionServed
<1> SUFFICES ASSUME WebInv PROVE W!TypeOK /\ W!HandlerIsListed /\ W!DescriptionServed
  OBVIOUS
<1>1. /\ Now.datas = datas /\ Now.listed = host_path_datas /\ Now.handlers = handlers
      /\ Now.server = listening
  BY DEF Now
<1>2. /\ listening \in BOOLEAN /\ datas \in Seq(HostPathDatas)
      /\ host_path_datas \in Seq(1 .. Len(datas)) /\ DOMAIN handlers \subseteq W!Paths
      /\ \A p \in DOMAIN handlers : /\ handlers[p] \in Members(host_path_datas)
                                    /\ datas[handlers[p]].path = p
  BY <1>1 DEF WebInv, HostsSound
<1>3. /\ W!Range(host_path_datas) = Members(host_path_datas)
      /\ W!Range(host_path_datas) \subseteq 1 .. Len(datas)
      /\ DOMAIN datas = 1 .. Len(datas)
  BY <1>2, ListRange DEF Members
<1>4. W!HandlerIsListed
  BY <1>2, <1>3 DEF W!HandlerIsListed
<1>5. W!DescriptionServed
  <2>1. ServesAll(Now, DOMAIN available)
    BY DEF WebInv
  <2> QED BY <1>1, <2>1 DEF ServesAll, Own, W!DescriptionServed
<1>6. \A i \in DOMAIN datas : /\ datas[i].path \in W!Paths
                              /\ \A k \in DOMAIN datas[i].rules : datas[i].rules[k].agent \in Agents
  <2> SUFFICES ASSUME NEW i \in DOMAIN datas
               PROVE  /\ datas[i].path \in W!Paths
                      /\ \A k \in DOMAIN datas[i].rules : datas[i].rules[k].agent \in Agents
    OBVIOUS
  <2>1. datas[i] \in HostPathDatas
    BY <1>2
  <2> QED BY <2>1, RulesAre
<1>7. W!Range(handlers) \subseteq DOMAIN datas
  BY <1>2, <1>3 DEF W!Range
<1>8. answer = W!NoAnswer \/ W!RequestOK(answer.request)
  BY WebAssumption DEF WebInv, WebAnswer
<1>9. W!TypeOK
  BY <1>2, <1>3, <1>6, <1>7, <1>8 DEF WebInv, W!TypeOK
<1> QED BY <1>4, <1>5, <1>9

\* The hosting after a step
LEMMA Become ==
  ASSUME NEW h, h.server = listening', W!Become(h), HostsSound(h)
  PROVE  HostsSound(Now)' /\ \A R : ServesAll(h, R) => ServesAll(Now', R)
<1>1. /\ Now'.datas = h.datas /\ Now'.listed = h.listed /\ Now'.handlers = h.handlers
      /\ Now'.server = h.server
  BY DEF W!Become, Now
<1> HIDE DEF Now
<1>2. HostsSound(Now')
  BY <1>1 DEF HostsSound
<1>3. \A R : ServesAll(h, R) => ServesAll(Now', R)
  BY <1>1 DEF ServesAll
<1> QED BY <1>2, <1>3 DEF HostsSound

\* The hosting that a step starts from
LEMMA HostingIsSound ==
  ASSUME WebInv, W!GetServer
  PROVE  /\ HostsSound(W!Hosting) /\ W!Hosting.server = listening' /\ listening' \in BOOLEAN
         /\ W!Hosting.datas = datas
         /\ ServesAll(W!Hosting, DOMAIN available)
<1> DEFINE h == W!Hosting
<1>1. /\ h.datas = datas /\ h.listed = host_path_datas /\ h.handlers = handlers
      /\ h.server = listening'
  BY DEF W!Hosting
<1>2. /\ Now.datas = datas /\ Now.listed = host_path_datas /\ Now.handlers = handlers
      /\ Now.server = listening
  BY DEF Now
<1> HIDE DEF h
<1>3. HostsSound(Now) /\ ServesAll(Now, DOMAIN available)
  BY DEF WebInv
<1>4. h.server \in BOOLEAN /\ (~h.server => ~Now.server)
  BY <1>1, <1>2, <1>3 DEF HostsSound, W!GetServer
<1>5. HostsSound(h)
  BY <1>1, <1>2, <1>3, <1>4 DEF HostsSound
<1>6. ServesAll(h, DOMAIN available)
  BY <1>1, <1>2, <1>3 DEF ServesAll
<1> QED BY <1>1, <1>4, <1>5, <1>6 DEF h

\* An application hosts a path.
LEMMA HostPathKeeps ==
  ASSUME WebInv, NEW l \in Locals, NEW p \in AppPaths, W!HostPath(l, p)
  PROVE  WebInv'
<1> DEFINE x == W!HostAt(W!Hosting, l, p)
<1>1. /\ HostsSound(W!Hosting) /\ W!Hosting.server = listening'
      /\ ServesAll(W!Hosting, DOMAIN available)
  BY HostingIsSound DEF W!HostPath
<1>2. l \in Seq(STRING) /\ p \in W!Paths
  BY WebAssumption, PathsAreLists
<1>3. \A d \in DOMAIN available : <<UdnOf[d]>> # p
  BY PathsAreLists DEF WebInv
<1>4. default_language \in Languages \cup {"en"}
  BY DEF WebInv
<1>5. HostsSound(x) /\ x.server = listening' /\ ServesAll(x, DOMAIN available)
  <2>1. /\ HostsSound(x) /\ x.server = W!Hosting.server
        /\ \A R : ServesAll(W!Hosting, R) /\ (\A d \in R : Own(d) => <<UdnOf[d]>> # p)
                      => ServesAll(x, R)
    BY <1>1, <1>2, <1>4, HostAtSound
  <2> QED BY Zenon, <1>1, <1>3, <2>1
<1>6. W!Become(x)
  BY DEF W!HostPath
<1> HIDE DEF x
<1>7. HostsSound(Now)' /\ ServesAll(Now', DOMAIN available)
  BY <1>5, <1>6, Become
<1>8. /\ available' = available /\ default_language' = default_language
      /\ user_agents' = user_agents /\ answer' = W!NoAnswer
  BY DEF W!HostPath
<1>9. ServesAll(Now, DOMAIN available)'
  BY <1>7, <1>8 DEF ServesAll
<1> QED BY <1>7, <1>8, <1>9 DEF WebInv, WebAnswer, W!NoAnswer

\* A device is made: its description first, then the folder it is in.
LEMMA NewRootDeviceKeeps ==
  ASSUME WebInv, NEW d \in RootDevices, NEW parses, W!NewRootDevice(d, parses)
  PROVE  WebInv'
<1>1. /\ W!GetServer /\ default_language' = default_language /\ answer' = W!NoAnswer
      /\ user_agents' = user_agents
  BY DEF W!NewRootDevice
<1>2. CASE listening' /\ parses
  <2> DEFINE h == W!Hosting
             x == W!HostAt(h, <<d>>, <<UdnOf[d]>>)
             y == W!HostAt(x, DirOf[d], <<>>)
             R == DOMAIN available
             more == R \cup {d}
  <2>1. W!Become(y) /\ available' = W!Put(available, d, FALSE)
    BY <1>2 DEF W!NewRootDevice
  <2>2. DOMAIN available' = more
    BY <2>1 DEF W!Put
  <2>3. HostsSound(h) /\ h.server = listening' /\ ServesAll(h, R) /\ R \subseteq RootDevices
    BY <1>1, HostingIsSound DEF WebInv
  <2>4. default_language \in Languages \cup {"en"} /\ d \notin R
    BY DEF WebInv, W!NewRootDevice
  <2>5. /\ <<UdnOf[d]>> \in W!Paths /\ <<d>> \in Seq(STRING) /\ DirOf[d] \in Seq(STRING)
        /\ <<>> \in W!Paths /\ \A e \in RootDevices : <<UdnOf[e]>> # <<>>
    BY PathsAreLists
  <2>6. \A e \in R : Own(e) => <<UdnOf[e]>> # <<UdnOf[d]>>
    BY <2>3, <2>4 DEF Own
  <2> HIDE DEF h, R
  <2> DEFINE dp == <<d>>
             loc == <<UdnOf[d]>>
  <2>7. /\ HostsSound(x) /\ x.server = h.server /\ <<UdnOf[d]>> \in DOMAIN x.handlers
        /\ x.datas[x.handlers[<<UdnOf[d]>>]].local = <<d>>
        /\ ServesAll(x, R)
    <3>1. x = W!HostAt(h, dp, loc) /\ loc \in W!Paths /\ dp \in Seq(STRING)
      BY <2>5
    <3> HIDE DEF x, dp, loc
    <3>2. /\ HostsSound(x) /\ x.server = h.server
          /\ h.server => loc \in DOMAIN x.handlers /\ x.datas[x.handlers[loc]].local = dp
          /\ ServesAll(h, R) /\ (\A e \in R : Own(e) => <<UdnOf[e]>> # loc)
                 => ServesAll(x, R)
      BY <2>3, <2>4, <3>1, HostAtSound
    <3>3. \A e \in R : Own(e) => <<UdnOf[e]>> # loc
      BY <2>6 DEF loc
    <3>4. /\ HostsSound(x) /\ x.server = h.server /\ ServesAll(x, R)
          /\ loc \in DOMAIN x.handlers /\ x.datas[x.handlers[loc]].local = dp
      BY Zenon, <1>2, <2>3, <3>2, <3>3
    <3> QED BY Zenon, <3>4 DEF loc, dp
  <2> HIDE DEF x
  <2>8. ServesAll(x, more)
    BY <2>7 DEF ServesAll
  <2>9. \A e \in more : Own(e) => <<UdnOf[e]>> # <<>>
    BY <2>3, <2>5
  <2> HIDE DEF more
  <2>10. HostsSound(y) /\ y.server = x.server /\ ServesAll(y, more)
    <3> DEFINE dir == DirOf[d]
               root == <<>>
    <3>1. y = W!HostAt(x, dir, root) /\ dir \in Seq(STRING) /\ root \in W!Paths
      BY <2>5
    <3> HIDE DEF y, dir, root
    <3>3. HostsSound(x)
      BY <2>7
    <3>2. /\ HostsSound(y) /\ y.server = x.server
          /\ ServesAll(x, more) /\ (\A e \in more : Own(e) => <<UdnOf[e]>> # root)
                 => ServesAll(y, more)
      BY <2>4, <3>1, <3>3, HostAtSound
    <3>4. \A e \in more : Own(e) => <<UdnOf[e]>> # root
      BY <2>9 DEF root
    <3> QED BY Zenon, <2>8, <3>2, <3>4
  <2> HIDE DEF y
  <2>11. HostsSound(Now)' /\ ServesAll(Now', more)
    BY <2>1, <2>3, <2>7, <2>10, Become
  <2>12. ServesAll(Now, DOMAIN available)'
    BY <2>2, <2>11 DEF ServesAll
  <2>13. DOMAIN available' \subseteq RootDevices
    BY <2>2, <2>3 DEF more
  <2> QED BY <1>1, <2>11, <2>12, <2>13 DEF WebInv, WebAnswer, W!NoAnswer
<1>3. CASE ~(listening' /\ parses)
  <2>1. /\ datas' = datas /\ host_path_datas' = host_path_datas /\ handlers' = handlers
        /\ available' = available
    BY <1>3 DEF W!NewRootDevice
  <2> DEFINE h == W!Hosting
  <2>2. HostsSound(h) /\ h.server = listening' /\ ServesAll(h, DOMAIN available)
    BY <1>1, HostingIsSound
  <2>3. W!Become(h)
    BY <2>1 DEF W!Become, W!Hosting
  <2> HIDE DEF h
  <2>4. HostsSound(Now)' /\ ServesAll(Now', DOMAIN available)
    BY <2>2, <2>3, Become
  <2>5. ServesAll(Now, DOMAIN available)'
    BY <2>1, <2>4 DEF ServesAll
  <2> QED BY <1>1, <2>1, <2>4, <2>5 DEF WebInv, WebAnswer, W!NoAnswer
<1> QED BY <1>2, <1>3

\* A step that changes what the data say, and neither their paths nor their local paths
LEMMA SameHosting ==
  ASSUME WebInv, answer' = W!NoAnswer,
         datas' \in Seq(HostPathDatas), Len(datas') = Len(datas),
         \A i \in 1 .. Len(datas) : /\ datas'[i].path = datas[i].path
                                    /\ datas'[i].local = datas[i].local,
         host_path_datas' = host_path_datas, handlers' = handlers, listening' = listening,
         DOMAIN available' \subseteq DOMAIN available,
         default_language' \in Languages \cup {"en"}, user_agents' = user_agents
  PROVE  WebInv'
<1>1. /\ Now.datas = datas /\ Now.listed = host_path_datas /\ Now.handlers = handlers
      /\ Now.server = listening
      /\ Now'.datas = datas' /\ Now'.listed = host_path_datas /\ Now'.handlers = handlers
      /\ Now'.server = listening
  BY DEF Now
<1>2. HostsSound(Now) /\ ServesAll(Now, DOMAIN available)
  BY DEF WebInv
<1>3. \A p \in DOMAIN handlers : handlers[p] \in 1 .. Len(datas)
  BY <1>1, <1>2, HandlersHaveData
<1> HIDE DEF Now
<1>4. HostsSound(Now')
  BY <1>1, <1>2, <1>3 DEF HostsSound
<1>5. ServesAll(Now', DOMAIN available')
  BY <1>1, <1>2, <1>3 DEF ServesAll
<1>6. HostsSound(Now)' /\ ServesAll(Now, DOMAIN available)'
  BY <1>4, <1>5 DEF HostsSound, ServesAll
<1> QED BY <1>6 DEF WebInv, WebAnswer, W!NoAnswer

\* A rule for an agent is added to the first data of a path.
LEMMA HostPathForAgentKeeps ==
  ASSUME WebInv, NEW l \in Locals, NEW p, NEW a \in Agents, W!HostPathForAgent(l, p, a)
  PROVE  WebInv'
<1> DEFINE d == host_path_datas[W!EntryOf(p)]
           rule == [agent |-> a, local |-> l]
<1>1. datas' = [datas EXCEPT ![d].rules = Append(@, rule)]
  BY DEF W!HostPathForAgent
<1>2. datas \in Seq(HostPathDatas) /\ l \in Seq(STRING)
  BY WebAssumption DEF WebInv, HostsSound, Now
<1>3. rule \in HostRules
  BY <1>2 DEF HostRules
<1> HIDE DEF rule, d
<1>4. DOMAIN datas = 1 .. Len(datas) /\ Len(datas) \in Nat
  BY <1>2
<1>5. DOMAIN datas' = 1 .. Len(datas)
  BY <1>1, <1>4
<1>6. ASSUME NEW i \in 1 .. Len(datas)
      PROVE  /\ datas'[i] \in HostPathDatas
             /\ datas'[i].path = datas[i].path /\ datas'[i].local = datas[i].local
  <2>1. datas[i] \in HostPathDatas
    BY <1>2
  <2>2. CASE i # d
    <3>1. datas'[i] = datas[i]
      BY <1>1, <1>4, <2>2
    <3> QED BY <2>1, <3>1
  <2>3. CASE i = d
    <3> DEFINE old == datas[i]
    <3>1. datas'[i] = [old EXCEPT !.rules = Append(old.rules, rule)]
      BY <1>1, <1>4, <2>3
    <3>2. Append(old.rules, rule) \in Seq(HostRules)
      <4>1. old.rules \in Seq(HostRules)
        BY <2>1, RulesAre
      <4> QED BY <1>3, <4>1, AppendFacts
    <3> HIDE DEF old
    <3>3. old \in HostPathDatas
      BY <2>1 DEF old
    <3>4. /\ [old EXCEPT !.rules = Append(old.rules, rule)] \in HostPathDatas
          /\ [old EXCEPT !.rules = Append(old.rules, rule)].path = old.path
          /\ [old EXCEPT !.rules = Append(old.rules, rule)].local = old.local
      BY <3>2, <3>3 DEF HostPathDatas
    <3> QED BY Zenon, <3>1, <3>4 DEF old
  <2> QED BY <2>2, <2>3
<1>7. datas' \in Seq(HostPathDatas) /\ Len(datas') = Len(datas)
  <2> DEFINE changed == datas'
  <2>1. changed = [i \in 1 .. Len(datas) |-> changed[i]]
    BY <1>1, <1>5
  <2>2. \A i \in 1 .. Len(datas) : changed[i] \in HostPathDatas
    BY <1>6
  <2> HIDE DEF changed
  <2>3. changed \in Seq(HostPathDatas) /\ Len(changed) = Len(datas)
    BY <1>4, <2>1, <2>2
  <2> QED BY Zenon, <2>3 DEF changed
<1> QED BY <1>6, <1>7, SameHosting DEF W!HostPathForAgent, WebInv

\* A language is set, in the data of the list too.
LEMMA SetDefaultLanguageKeeps ==
  ASSUME WebInv, NEW l \in Languages, W!SetDefaultLanguage(l)
  PROVE  WebInv'
<1>1. datas' = [i \in DOMAIN datas |->
                   IF i \in W!Range(host_path_datas) THEN [datas[i] EXCEPT !.language = l]
                                                     ELSE datas[i]]
  BY DEF W!SetDefaultLanguage
<1>2. datas \in Seq(HostPathDatas)
  BY DEF WebInv, HostsSound, Now
<1>3. DOMAIN datas = 1 .. Len(datas) /\ Len(datas) \in Nat
  BY <1>2
<1>4. ASSUME NEW i \in 1 .. Len(datas)
      PROVE  /\ datas'[i] \in HostPathDatas
             /\ datas'[i].path = datas[i].path /\ datas'[i].local = datas[i].local
  <2> DEFINE old == datas[i]
  <2>1. old \in HostPathDatas
    BY <1>2
  <2>2. datas'[i] = old \/ datas'[i] = [old EXCEPT !.language = l]
    BY <1>1, <1>3
  <2> HIDE DEF old
  <2>3. /\ [old EXCEPT !.language = l] \in HostPathDatas
        /\ [old EXCEPT !.language = l].path = old.path
        /\ [old EXCEPT !.language = l].local = old.local
    BY <2>1 DEF HostPathDatas
  <2> QED BY Zenon, <2>1, <2>2, <2>3 DEF old
<1>5. datas' \in Seq(HostPathDatas) /\ Len(datas') = Len(datas)
  BY <1>1, <1>3, <1>4
<1> QED BY <1>4, <1>5, SameHosting DEF W!SetDefaultLanguage

\* The first entry for a path
LEMMA EntryIs ==
  ASSUME WebInv, NEW p, W!EntriesAt(p) # {}
  PROVE  /\ W!EntryOf(p) \in 1 .. Len(host_path_datas)
         /\ datas[host_path_datas[W!EntryOf(p)]].path = p
<1>1. host_path_datas \in Seq(1 .. Len(datas))
  BY DEF WebInv, HostsSound, Now
<1>2. DOMAIN host_path_datas = 1 .. Len(host_path_datas) /\ Len(host_path_datas) \in Nat
  BY <1>1
<1> DEFINE E == W!EntriesAt(p)
<1>3. E \in SUBSET Nat /\ E # {}
  BY <1>2 DEF W!EntriesAt
<1>4. \E i \in E : \A k \in E : i <= k
  <2> HIDE DEF E
  <2> QED BY <1>3, SmallestNumber
<1>5. W!EntryOf(p) \in E
  BY <1>4 DEF W!EntryOf
<1> QED BY <1>2, <1>5 DEF W!EntriesAt

\* A path is unhosted: with its first entry, its handler goes.
LEMMA UnhostPathKeeps ==
  ASSUME WebInv, NEW p \in AppPaths, W!UnhostPath(p)
  PROVE  WebInv'
<1> DEFINE k == W!EntryOf(p)
           left == Cut(host_path_datas, k)
<1>1. /\ k \in 1 .. Len(host_path_datas) /\ datas[host_path_datas[k]].path = p
  BY EntryIs DEF W!UnhostPath
<1>2. /\ host_path_datas' = left /\ datas' = datas
      /\ handlers' = IF listening' THEN W!Without(handlers, p) ELSE handlers
      /\ listening' \in {listening, TRUE} /\ available' = available
      /\ default_language' = default_language /\ user_agents' = user_agents
      /\ answer' = W!NoAnswer
  BY DEF W!UnhostPath, W!RemoveAt, Cut, W!GetServer
<1>3. /\ Now.datas = datas /\ Now.listed = host_path_datas /\ Now.handlers = handlers
      /\ Now.server = listening
      /\ Now'.datas = datas /\ Now'.listed = left /\ Now'.handlers = handlers'
      /\ Now'.server = listening'
  BY <1>2 DEF Now
<1>4. HostsSound(Now) /\ ServesAll(Now, DOMAIN available)
  BY DEF WebInv
<1> HIDE DEF Now, k
<1>5. /\ host_path_datas \in Seq(1 .. Len(datas)) /\ datas \in Seq(HostPathDatas)
      /\ listening \in BOOLEAN /\ DOMAIN handlers \subseteq W!Paths
      /\ ~listening => DOMAIN handlers = {}
      /\ \A q \in DOMAIN handlers : /\ handlers[q] \in Members(host_path_datas)
                                    /\ datas[handlers[q]].path = q
  BY <1>3, <1>4 DEF HostsSound
<1>6. /\ left \in Seq(1 .. Len(datas)) /\ Len(left) = Len(host_path_datas) - 1
      /\ Len(host_path_datas) \in Nat
      /\ \A i \in 1 .. Len(host_path_datas) - 1 :
            left[i] = IF i < k THEN host_path_datas[i] ELSE host_path_datas[i + 1]
  BY <1>1, <1>5, CutIndices
<1> HIDE DEF left
<1>7. ASSUME NEW i \in 1 .. Len(host_path_datas), i # k
      PROVE  host_path_datas[i] \in Members(left)
  <2>1. CASE i < k
    <3>1. i \in 1 .. Len(left) /\ left[i] = host_path_datas[i]
      BY <1>1, <1>6, <2>1
    <3> QED BY <3>1 DEF Members
  <2>2. CASE i > k
    <3>1. i - 1 \in 1 .. Len(left) /\ ~(i - 1 < k) /\ i - 1 + 1 = i
      BY <1>1, <1>6, <2>2
    <3>2. left[i - 1] = host_path_datas[i]
      BY <1>6, <3>1
    <3> QED BY <3>1, <3>2 DEF Members
  <2> QED BY <1>1, <1>6, <1>7, <2>1, <2>2
<1>8. /\ DOMAIN handlers' \subseteq DOMAIN handlers /\ p \notin DOMAIN handlers'
      /\ \A q \in DOMAIN handlers \ {p} : q \in DOMAIN handlers' /\ handlers'[q] = handlers[q]
  <2>1. CASE listening'
    BY <1>2, <2>1 DEF W!Without
  <2>2. CASE ~listening'
    BY <1>2, <1>5, <2>2
  <2> QED BY <2>1, <2>2
<1>9. ASSUME NEW q \in DOMAIN handlers'
      PROVE  handlers'[q] \in Members(left) /\ datas[handlers'[q]].path = q
  <2>1. /\ q \in DOMAIN handlers /\ handlers'[q] = handlers[q] /\ q # p
        /\ handlers[q] \in Members(host_path_datas) /\ datas[handlers[q]].path = q
    BY <1>5, <1>8
  <2>2. PICK i \in 1 .. Len(host_path_datas) : handlers[q] = host_path_datas[i]
    BY <2>1 DEF Members
  <2>3. i # k
    BY <1>1, <2>1, <2>2
  <2> QED BY <1>7, <2>1, <2>2, <2>3
<1>10. listening' \in BOOLEAN /\ (~listening' => DOMAIN handlers' = {})
  BY <1>2, <1>5, <1>8
<1>11. HostsSound(Now')
  BY <1>3, <1>5, <1>6, <1>8, <1>9, <1>10 DEF HostsSound
<1>12. ServesAll(Now', DOMAIN available)
  <2> SUFFICES ASSUME NEW d \in DOMAIN available, Own(d)
               PROVE  /\ <<UdnOf[d]>> \in DOMAIN Now'.handlers
                      /\ Now'.datas[Now'.handlers[<<UdnOf[d]>>]].local = <<d>>
    BY DEF ServesAll
  <2> DEFINE q == <<UdnOf[d]>>
  <2>1. q # p
    BY PathsAreLists DEF WebInv
  <2>2. q \in DOMAIN handlers /\ datas[handlers[q]].local = <<d>>
    BY <1>3, <1>4 DEF ServesAll
  <2> HIDE DEF q
  <2>3. q \in DOMAIN Now'.handlers /\ Now'.datas[Now'.handlers[q]].local = <<d>>
    BY <1>3, <1>8, <2>1, <2>2
  <2> QED BY Zenon, <2>3 DEF q
<1>13. HostsSound(Now)' /\ ServesAll(Now, DOMAIN available)'
  BY <1>2, <1>11, <1>12 DEF HostsSound, ServesAll
<1> QED BY <1>2, <1>13 DEF WebInv, WebAnswer, W!NoAnswer

\* The other steps leave the hosting alone.
LEMMA GroupsKeep ==
  ASSUME WebInv, NEW d, NEW a, W!SetAvailable(d, a) \/ W!DisposeDevice(d)
  PROVE  WebInv'
<1>1. /\ datas' = datas /\ host_path_datas' = host_path_datas /\ handlers' = handlers
      /\ listening' = listening /\ DOMAIN available' \subseteq DOMAIN available
      /\ default_language' = default_language /\ user_agents' = user_agents
      /\ answer' = W!NoAnswer
  BY DEF W!SetAvailable, W!DisposeDevice, W!Without
<1>2. datas \in Seq(HostPathDatas) /\ default_language \in Languages \cup {"en"}
  BY DEF WebInv, HostsSound, Now
<1> QED BY <1>1, <1>2, SameHosting

-----------------------------------------------------------------------------
(* WebServer: the file that is found.                                      *)

\* A set of numbers up to a bound has a largest one.
LEMMA LargestNumber ==
  ASSUME NEW n \in Nat, NEW T \in SUBSET (0 .. n), T # {}
  PROVE  \E x \in T : \A y \in T : y <= x
<1> DEFINE U == {n - x : x \in T}
<1>1. U \in SUBSET Nat /\ U # {}
  <2>1. \A x \in T : x \in 0 .. n /\ n - x \in Nat
    OBVIOUS
  <2>2. PICK x \in T : TRUE
    OBVIOUS
  <2> QED BY <2>1, <2>2
<1>2. PICK u \in U : \A v \in U : u <= v
  <2> HIDE DEF U
  <2> QED BY <1>1, SmallestNumber
<1>3. PICK x \in T : u = n - x
  BY <1>2
<1>4. ASSUME NEW y \in T PROVE y <= x
  <2>1. n - y \in U
    OBVIOUS
  <2>2. n - x <= n - y
    BY <1>2, <1>3, <2>1
  <2> QED BY <2>2
<1> QED BY <1>4

\* A list in a set is one in a larger set.
LEMMA WiderList == ASSUME NEW A, NEW B, A \subseteq B, NEW s \in Seq(A) PROVE s \in Seq(B)
OBVIOUS

\* What is appended to a list leaves it beginning as before.
LEMMA PrefixFacts ==
  ASSUME NEW T, NEW s \in Seq(T), NEW u \in Seq(T)
  PROVE  /\ W!IsPrefix(s, s) /\ W!IsPrefix(s, s \o u)
         /\ \A x \in T : W!IsPrefix(s, u) => W!IsPrefix(s, Append(u, x))
<1>1. DOMAIN s = 1 .. Len(s) /\ Len(s) \in Nat /\ Len(u) \in Nat
  OBVIOUS
<1>2. W!IsPrefix(s, s)
  BY <1>1 DEF W!IsPrefix
<1>3. W!IsPrefix(s, s \o u)
  <2>1. Len(s \o u) = Len(s) + Len(u) /\ \A i \in 1 .. Len(s) : (s \o u)[i] = s[i]
    BY <1>1, JoinFacts
  <2> QED BY <1>1, <2>1 DEF W!IsPrefix
<1>4. ASSUME NEW x \in T, W!IsPrefix(s, u) PROVE W!IsPrefix(s, Append(u, x))
  <2>1. Len(Append(u, x)) = Len(u) + 1 /\ \A i \in 1 .. Len(u) : Append(u, x)[i] = u[i]
    BY AppendFacts
  <2>2. Len(s) <= Len(u) /\ \A i \in 1 .. Len(s) : s[i] = u[i]
    BY <1>1, <1>4 DEF W!IsPrefix
  <2>3. Len(s) <= Len(u) + 1 /\ \A i \in 1 .. Len(s) : i \in 1 .. Len(u)
    BY <1>1, <2>2
  <2> QED BY <1>1, <2>1, <2>2, <2>3 DEF W!IsPrefix
<1> QED BY <1>2, <1>3, <1>4

\* The tries on the way to a file below a local path
Going(local, T, V) ==
    {x \in [status : {0}, local : Seq(T), locales : Seq(V)] : W!IsPrefix(local, x.local)}
Ended(local, T, V) ==
    {x \in [status : {200}, file : Seq(T), locales : Seq(V)] : W!IsPrefix(local, x.file)}
        \cup [status : {301, 403, 404, 500}]

LEMMA TriedIs ==
  ASSUME NEW r, NEW T, NEW V, V \subseteq T, "index.html" \in T, NEW local \in Seq(T),
         NEW x \in Going(local, T, V)
  PROVE  W!Tried(r, x) \in Going(local, T, V) \cup Ended(local, T, V)
<1> DEFINE name == W!AppendLocale(x.local, x.locales)
           G == Going(local, T, V)
           F == Ended(local, T, V)
<1>1. /\ x.local \in Seq(T) /\ x.locales \in Seq(V) /\ W!IsPrefix(local, x.local)
  BY DEF Going
<1>2. name \in Seq(T) /\ W!IsPrefix(local, name)
  <2>1. CASE x.locales = <<>>
    BY <1>1, <2>1 DEF W!AppendLocale
  <2>2. CASE x.locales # <<>>
    <3>1. Head(x.locales) \in T
      BY <1>1, <2>2
    <3>2. name = Append(x.local, Head(x.locales))
      BY <2>2 DEF W!AppendLocale
    <3> QED BY <1>1, <3>1, <3>2, AppendFacts, PrefixFacts
  <2> QED BY <2>1, <2>2
<1> HIDE DEF name
<1>3. [status |-> 403] \in F /\ [status |-> 404] \in F /\ [status |-> 500] \in F
      /\ [status |-> 301] \in F
  BY DEF Ended
<1>4. x.locales # <<>> => [status |-> 0, local |-> x.local, locales |-> Tail(x.locales)] \in G
  <2>1. x.locales # <<>> => Tail(x.locales) \in Seq(V)
    BY <1>1
  <2> QED BY <1>1, <2>1 DEF Going
<1>5. [status |-> 0, local |-> Append(name, "index.html"), locales |-> x.locales] \in G
  <2>1. Append(name, "index.html") \in Seq(T) /\ W!IsPrefix(local, Append(name, "index.html"))
    BY <1>2, AppendFacts, PrefixFacts
  <2> QED BY <1>1, <2>1 DEF Going
<1>6. [status |-> 200, file |-> name, locales |-> x.locales] \in F
  BY <1>1, <1>2 DEF Ended
<1> HIDE DEF G, F
<1>7. W!Tried(r, x) \in G \cup F
  BY <1>3, <1>4, <1>5, <1>6 DEF W!Tried, name
<1> QED BY <1>7 DEF G, F

\* Below a local path, only files that begin with it are found.
LEMMA OpenFinds ==
  ASSUME NEW r, NEW local \in Seq(STRING), NEW V, NEW locales \in Seq(V)
  PROVE  LET found == W!Open(r, local, locales)
         IN /\ found.status \in {0, 200, 301, 403, 404, 500}
            /\ found.status = 200 => W!IsPrefix(local, found.file)
<1> DEFINE T == STRING \cup V \cup {"index.html"}
           Q == Len(locales) + Cardinality(DOMAIN Files) + 1
           K == Going(local, T, V) \cup Ended(local, T, V)
           first == [status |-> 0, local |-> local, locales |-> locales]
           New(x) == IF x.status = 0 THEN W!Tried(r, x) ELSE x
           step == [x \in (1 .. Q) \X K |-> New(x[2])]
           after[n \in 0 .. Q] == IF n = 0 THEN first ELSE New(after[n - 1])
<1>1. Q \in Nat
  <2>1. Len(locales) \in Nat
    OBVIOUS
  <2>2. Cardinality(DOMAIN Files) \in Nat
    BY PartsAssumption, FS_CardinalityType
  <2> QED BY <2>1, <2>2
<1>2. local \in Seq(T) /\ "index.html" \in T /\ V \subseteq T
  <2>1. STRING \subseteq T /\ V \subseteq T /\ "index.html" \in T
    OBVIOUS
  <2> HIDE DEF T
  <2>2. local \in Seq(T)
    BY Zenon, <2>1, WiderList
  <2> QED BY <2>1, <2>2
<1>3. first \in K
  <2>1. W!IsPrefix(local, local)
    BY PrefixFacts
  <2> QED BY <1>2, <2>1 DEF Going
<1> HIDE DEF T
<1>4. ASSUME NEW x \in K PROVE New(x) \in K
  <2>1. CASE x.status = 0
    <3>1. x \in Going(local, T, V)
      BY <2>1 DEF Ended
    <3> QED BY <1>2, <2>1, <3>1, TriedIs
  <2>2. CASE x.status # 0
    BY <2>2
  <2> QED BY <2>1, <2>2
<1> HIDE DEF New, K, Q, first
<1>5. step \in [(1 .. Q) \X K -> K]
  BY <1>4
<1>6. PICK g : Repeats(g, K, first, Q, step)
  <2> HIDE DEF step
  <2> QED BY <1>1, <1>3, <1>5, Iteration
<1>7. g \in [0 .. Q -> K] /\ g[0] = first
  BY <1>6 DEF Repeats
<1>8. ASSUME NEW n \in 1 .. Q PROVE g[n - 1] \in K /\ g[n] = New(g[n - 1])
  <2>1. g[n - 1] \in K
    BY <1>1, <1>7
  <2>2. g[n] = step[<<n, g[n - 1]>>]
    BY <1>6 DEF Repeats
  <2> QED BY <2>1, <2>2
<1>9. g = [n \in 0 .. Q |-> IF n = 0 THEN first ELSE New(g[n - 1])]
  BY <1>7, <1>8
<1>10. after = [n \in 0 .. Q |-> IF n = 0 THEN first ELSE New(after[n - 1])]
  BY <1>9
<1>11. W!Open(r, local, locales) = after[Q]
  BY DEF W!Open, New, Q, first, Cardinality, W!Cardinality
<1> HIDE DEF after
<1>12. after[0] = first /\ \A n \in 1 .. Q : after[n] = New(after[n - 1])
  BY <1>1, <1>10
<1> DEFINE Good == {n \in 0 .. Q : after[n] \in K}
<1>13. 0 \in Good
  BY <1>1, <1>3, <1>12
<1>14. ASSUME NEW n \in 1 .. Q, n - 1 \in Good PROVE n \in Good
  BY <1>4, <1>12, <1>14
<1>15. Q \in Good
  <2>1. Q \in 0 .. Q BY <1>1
  <2> HIDE DEF Good
  <2> QED BY <1>1, <1>13, <1>14, <2>1, Induction
<1>16. after[Q] \in K
  BY <1>15
<1>17. \A x \in K : /\ x.status \in {0, 200, 301, 403, 404, 500}
                    /\ x.status = 200 => W!IsPrefix(local, x.file)
  BY DEF K, Going, Ended
<1> QED BY <1>11, <1>16, <1>17

\* The handler that is chosen is one of those there are.
LEMMA HandlerIs ==
  ASSUME WebInv, NEW path \in Seq(STRING), W!Serving(path) # {}
  PROVE  \E p \in DOMAIN handlers : W!HandlerFor(path) = handlers[p]
<1> DEFINE Q == W!Serving(path)
           L == {Len(p) : p \in Q}
<1>1. Q \subseteq DOMAIN handlers /\ \A p \in Q : Len(p) <= Len(path)
  BY DEF W!Serving, W!IsPrefix
<1>2. \A p \in Q : Len(p) \in Nat
  <2>1. DOMAIN handlers \subseteq Seq(STRING)
    BY PathsAreLists DEF WebInv, HostsSound, Now
  <2> QED BY <1>1, <2>1
<1>3. Q # {} /\ Len(path) \in Nat
  OBVIOUS
<1> HIDE DEF Q
<1>4. L \in SUBSET (0 .. Len(path)) /\ L # {}
  <2>1. \A p \in Q : Len(p) \in 0 .. Len(path)
    BY <1>1, <1>2, <1>3
  <2>2. PICK p \in Q : TRUE
    BY <1>3
  <2> QED BY <2>1, <2>2
<1>5. PICK n \in L : \A m \in L : m <= n
  <2> HIDE DEF L
  <2> QED BY <1>3, <1>4, LargestNumber
<1>6. \E p \in Q : \A o \in Q : Len(o) <= Len(p)
  BY <1>5
<1>7. (CHOOSE p \in Q : \A o \in Q : Len(o) <= Len(p)) \in Q
  BY <1>6
<1>8. W!HandlerFor(path) = handlers[CHOOSE p \in Q : \A o \in Q : Len(o) <= Len(p)]
  BY DEF W!HandlerFor, Q
<1> QED BY <1>1, <1>7, <1>8

\* construct_local_path(): the last rule for an agent, if it has one
LEMMA LocalIs ==
  ASSUME NEW d \in HostPathDatas, NEW a
  PROVE  LET own == {k \in DOMAIN d.rules : d.rules[k].agent = a}
         IN /\ W!LocalFor(d, a) \in Seq(STRING)
            /\ \A k \in own : (\A o \in own : o <= k) => W!LocalFor(d, a) = d.rules[k].local
<1> DEFINE own == {k \in DOMAIN d.rules : d.rules[k].agent = a}
           n == Len(d.rules)
           last == CHOOSE k \in own : \A o \in own : k >= o
<1>1. /\ DOMAIN d.rules = 1 .. n /\ n \in Nat /\ d.local \in Seq(STRING)
      /\ \A k \in DOMAIN d.rules : d.rules[k].local \in Seq(STRING)
  BY RulesAre
<1>2. W!LocalFor(d, a) = IF own = {} THEN d.local ELSE d.rules[last].local
  BY DEF W!LocalFor
<1>3. own \subseteq DOMAIN d.rules
  OBVIOUS
<1> HIDE DEF own, n
<1>4. own \in SUBSET (0 .. n)
  BY <1>1, <1>3
<1>5. own # {} => last \in own /\ \A o \in own : last >= o
  <2> SUFFICES ASSUME own # {} PROVE last \in own /\ \A o \in own : last >= o
    OBVIOUS
  <2>1. PICK k \in own : \A o \in own : o <= k
    BY <1>1, <1>4, LargestNumber
  <2>2. \A o \in own : k >= o
    BY <1>1, <1>4, <2>1
  <2> QED BY <2>2
<1> HIDE DEF last
<1>6. W!LocalFor(d, a) \in Seq(STRING)
  BY <1>1, <1>2, <1>3, <1>5
<1>7. ASSUME NEW k \in own, \A o \in own : o <= k PROVE W!LocalFor(d, a) = d.rules[k].local
  <2>1. last \in own /\ last >= k /\ last <= k
    BY <1>5, <1>7
  <2>2. last = k
    BY <1>1, <1>4, <2>1
  <2> QED BY Zenon, <1>2, <1>7, <2>2
<1> QED BY <1>6, <1>7 DEF own

\* A body is sent of the file that was found.
LEMMA RespondSends ==
  ASSUME NEW r, NEW d, W!Respond(r, d).status \in {200, 206}
  PROVE  LET found == W!Open(r, W!ConstructLocalPath(r, d), W!AcceptLocales(r.accept))
         IN found.status = 206 \/ (found.status = 200 /\ W!Respond(r, d).file = found.file)
<1> DEFINE found == W!Open(r, W!ConstructLocalPath(r, d), W!AcceptLocales(r.accept))
           response == W!Respond(r, d)
<1>1. \/ response = [status |-> 501]
      \/ found.status = 200 /\ response = W!Body(r, d, found)
      \/ response = [status |-> found.status] /\ found.status # 200
  BY DEF W!Respond
<1>2. W!Body(r, d, found) = [status |-> 416] \/ W!Body(r, d, found).file = found.file
  BY DEF W!Body
<1>3. response.status \in {200, 206}
  OBVIOUS
<1> HIDE DEF found, response
<1>4. CASE response = [status |-> 501]
  <2>1. response.status = 501
    BY <1>4
  <2> QED BY <1>3, <2>1
<1>5. CASE found.status = 200 /\ response = W!Body(r, d, found)
  <2>1. CASE W!Body(r, d, found) = [status |-> 416]
    <3>1. response.status = 416
      BY <1>5, <2>1
    <3> QED BY <1>3, <3>1
  <2>2. CASE W!Body(r, d, found).file = found.file
    BY <1>5, <2>2 DEF found, response
  <2> QED BY <1>2, <2>1, <2>2
<1>6. CASE response = [status |-> found.status] /\ found.status # 200
  <2>1. found.status = 206
    BY <1>3, <1>6
  <2> QED BY <2>1 DEF found
<1> QED BY <1>1, <1>4, <1>5, <1>6

\* The locales of a header are a list.
LEMMA LocalesAreAList ==
  ASSUME NEW T, NEW header \in Seq(T)
  PROVE  \E V : W!AcceptLocales(header) \in Seq(V)
<1> DEFINE kept == W!Named(header)
           locales == W!AcceptLocales(header)
           n == W!Cardinality(kept)
           V == {locales[k] : k \in 1 .. n}
<1>1. DOMAIN header = 1 .. Len(header) /\ Len(header) \in Nat
  OBVIOUS
<1>2. n \in Nat
  <2>1. IsFiniteSet(1 .. Len(header))
    BY <1>1, FS_Interval
  <2>2. kept \subseteq 1 .. Len(header)
    BY <1>1 DEF W!Named
  <2>3. IsFiniteSet(kept)
    BY <2>1, <2>2, FS_Subset
  <2>4. n = Cardinality(kept)
    BY DEF Cardinality, W!Cardinality
  <2> QED BY <2>3, <2>4, FS_CardinalityType
<1>3. DOMAIN locales = 1 .. n /\ locales = [k \in 1 .. n |-> locales[k]]
  <2>1. locales = [k \in 1 .. n |-> W!Bit(header, k).tag]
    BY Zenon DEF W!AcceptLocales
  <2>2. \A f : f = [k \in 1 .. n |-> W!Bit(header, k).tag] =>
               DOMAIN f = 1 .. n /\ f = [k \in 1 .. n |-> f[k]]
    BY Zenon
  <2> QED BY Zenon, <2>1, <2>2
<1> HIDE DEF n, locales
<1>4. \A k \in 1 .. n : locales[k] \in V
  OBVIOUS
<1> HIDE DEF V
<1>5. locales \in Seq(V)
  BY <1>2, <1>3, <1>4
<1> QED BY <1>5 DEF locales

\* What is sent to an agent begins with the local path of the data for it.
LEMMA ServedBelowLocal ==
  ASSUME NEW r \in Requests, NEW d \in HostPathDatas, W!Respond(r, d).status \in {200, 206}
  PROVE  W!IsPrefix(W!LocalFor(d, W!AgentOf(r)), W!Respond(r, d).file)
<1> DEFINE base == W!LocalFor(d, W!AgentOf(r))
           rest == SubSeq(r.path, Len(d.path) + 1, Len(r.path))
           local == W!ConstructLocalPath(r, d)
           locales == W!AcceptLocales(r.accept)
           found == W!Open(r, local, locales)
           response == W!Respond(r, d)
<1>1. r.path \in Seq(STRING) /\ r.accept \in Seq([tag : STRING, q : 0 .. 10])
  BY WebAssumption DEF W!RequestOK
<1>2. base \in Seq(STRING)
  BY LocalIs
<1>3. d.path \in Seq(STRING)
  <2>1. d.path \in W!Paths
    BY DEF HostPathDatas
  <2> QED BY <2>1, PathsAreLists
<1>4. rest \in Seq(STRING)
  BY <1>1, <1>3
<1>5. local = base \o rest
  BY DEF W!ConstructLocalPath
<1>6. PICK V : locales \in Seq(V)
  BY <1>1, LocalesAreAList
<1>7. found.status = 206 \/ (found.status = 200 /\ response.file = found.file)
  BY RespondSends
<1> HIDE DEF base, rest, response, locales, local
<1>8. local \in Seq(STRING) /\ W!IsPrefix(base, local)
  BY <1>2, <1>4, <1>5, PrefixFacts
<1>9. /\ found.status \in {0, 200, 301, 403, 404, 500}
      /\ found.status = 200 => W!IsPrefix(local, found.file)
  BY <1>6, <1>8, OpenFinds
<1> HIDE DEF found
<1>10. W!IsPrefix(local, response.file)
  BY <1>7, <1>9
<1>11. W!IsPrefix(base, response.file)
  <2> DEFINE file == response.file
  <2> HIDE DEF file
  <2>1. Len(base) \in Nat /\ Len(local) \in Nat /\ Len(base) <= Len(local)
        /\ \A i \in 1 .. Len(base) : base[i] = local[i]
    BY <1>2, <1>8 DEF W!IsPrefix
  <2>2. Len(local) <= Len(file) /\ \A i \in 1 .. Len(local) : local[i] = file[i]
    BY <1>10, <2>1 DEF W!IsPrefix, file
  <2> QED BY <2>1, <2>2 DEF W!IsPrefix, file
<1> QED BY <1>11 DEF base, response

\* A request is answered.
LEMMA ServeKeeps ==
  ASSUME WebInv, NEW r \in Requests, W!Serve(r)
  PROVE  WebInv'
<1> DEFINE d == datas[W!HandlerFor(r.path)]
           response == W!Respond(r, d)
<1>1. /\ answer' = [request |-> r, response |-> response, of |-> W!HandlerFor(r.path)]
      /\ user_agents' = W!UpdateClientCache(r) /\ W!Serving(r.path) # {}
      /\ datas' = datas /\ host_path_datas' = host_path_datas /\ handlers' = handlers
      /\ listening' = listening /\ default_language' = default_language
      /\ available' = available
  BY DEF W!Serve
<1>2. /\ r.path \in Seq(STRING) /\ r.agent \in Agents \cup {W!None} /\ r.client \in Clients
  BY WebAssumption DEF W!RequestOK
<1>3. PICK p \in DOMAIN handlers : W!HandlerFor(r.path) = handlers[p]
  BY <1>1, <1>2, HandlerIs
<1>4. d \in HostPathDatas
  <2>1. HostsSound(Now) /\ Now.datas = datas /\ Now.handlers = handlers
    BY DEF WebInv, Now
  <2>2. datas \in Seq(HostPathDatas) /\ handlers[p] \in 1 .. Len(datas)
    BY <1>3, <2>1, HandlersHaveData DEF HostsSound
  <2> QED BY <1>3, <2>2
<1>5. user_agents \in [Clients -> Agents \cup {W!None}]
  BY DEF WebInv
<1>6. /\ user_agents' \in [Clients -> Agents \cup {W!None}]
      /\ r.agent = W!None => user_agents' = user_agents
  <2>1. \/ user_agents' = user_agents
        \/ r.agent # W!None /\ user_agents' = [user_agents EXCEPT ![r.client] = r.agent]
    BY <1>1 DEF W!UpdateClientCache
  <2> QED BY <1>2, <1>5, <2>1
<1>7. W!AgentOf(r)' = W!AgentOf(r)
  BY <1>6 DEF W!AgentOf
<1>8. response.status \in {200, 206} =>
          W!IsPrefix(W!LocalFor(d, W!AgentOf(r)), response.file)
  BY <1>4, ServedBelowLocal
<1> HIDE DEF response
<1>9. /\ answer'.request = r /\ answer'.response = response
      /\ answer'.of = W!HandlerFor(r.path) /\ datas'[answer'.of] = d
  BY <1>1
<1> HIDE DEF d
<1>10. W!AgentOf(answer.request)' = W!AgentOf(r)
  BY <1>7, <1>9 DEF W!AgentOf
<1>11. WebAnswer'
  <2>1. answer'.request \in Requests /\ \E q \in DOMAIN handlers' : answer'.of = handlers'[q]
    BY <1>1, <1>3, <1>9
  <2>2. answer'.response.status \in {200, 206} =>
            W!IsPrefix(W!LocalFor(datas'[answer'.of], W!AgentOf(answer.request)'),
                       answer'.response.file)
    BY Zenon, <1>8, <1>9, <1>10
  <2> QED BY Zenon, <2>1, <2>2 DEF WebAnswer
<1>12. HostsSound(Now)' /\ ServesAll(Now, DOMAIN available)'
  <2>1. HostsSound(Now) /\ ServesAll(Now, DOMAIN available) /\ Now' = Now
    BY <1>1 DEF WebInv, Now
  <2> QED BY <1>1, <2>1 DEF HostsSound, ServesAll
<1> QED BY <1>1, <1>6, <1>11, <1>12 DEF WebInv

\* An answer is sent.
LEMMA SentKeeps == ASSUME WebInv, W!Sent PROVE WebInv'
<1>1. /\ datas' = datas /\ host_path_datas' = host_path_datas /\ handlers' = handlers
      /\ listening' = listening /\ available' = available
      /\ default_language' = default_language /\ user_agents' = user_agents
      /\ answer' = W!NoAnswer
  BY DEF W!Sent
<1>2. datas \in Seq(HostPathDatas) /\ default_language \in Languages \cup {"en"}
  BY DEF WebInv, HostsSound, Now
<1> QED BY <1>1, <1>2, SameHosting

\* It holds at the beginning.
LEMMA InitWeb == W!Init => WebInv
<1> SUFFICES ASSUME W!Init PROVE WebInv
  OBVIOUS
<1>1. /\ listening = FALSE /\ datas = <<>> /\ host_path_datas = <<>> /\ handlers = <<>>
      /\ default_language = "en" /\ user_agents = [c \in Clients |-> W!None]
      /\ available = <<>> /\ answer = W!NoAnswer
  BY DEF W!Init
<1>2. /\ Now.datas = <<>> /\ Now.listed = <<>> /\ Now.handlers = <<>> /\ Now.server = FALSE
  BY <1>1 DEF Now
<1>3. DOMAIN handlers = {} /\ DOMAIN available = {}
  BY <1>1
<1>4. <<>> \in Seq(HostPathDatas) /\ <<>> \in Seq(1 .. Len(Now.datas))
  <2>1. \A B : <<>> \in Seq(B)
    OBVIOUS
  <2> QED BY <2>1
<1>5. HostsSound(Now)
  BY <1>1, <1>2, <1>3, <1>4 DEF HostsSound
<1>6. ServesAll(Now, DOMAIN available)
  BY <1>3 DEF ServesAll
<1>7. user_agents \in [Clients -> Agents \cup {W!None}]
  BY <1>1
<1> QED BY <1>1, <1>3, <1>5, <1>6, <1>7 DEF WebInv, WebAnswer

\* Every step of the server keeps it.
LEMMA NextKeepsWeb == WebInv /\ W!Next => WebInv'
<1> SUFFICES ASSUME WebInv, W!Next PROVE WebInv'
  OBVIOUS
<1>1. ASSUME NEW l \in Locals, NEW p \in AppPaths, W!HostPath(l, p) PROVE WebInv'
  BY <1>1, HostPathKeeps
<1>2. ASSUME NEW l \in Locals, NEW p \in AppPaths, NEW a \in Agents, W!HostPathForAgent(l, p, a)
      PROVE  WebInv'
  BY <1>2, HostPathForAgentKeeps
<1>3. ASSUME NEW p \in AppPaths, W!UnhostPath(p) PROVE WebInv'
  BY <1>3, UnhostPathKeeps
<1>4. ASSUME NEW l \in Languages, W!SetDefaultLanguage(l) PROVE WebInv'
  BY <1>4, SetDefaultLanguageKeeps
<1>5. ASSUME NEW d \in RootDevices, NEW parses \in BOOLEAN, W!NewRootDevice(d, parses)
      PROVE  WebInv'
  BY <1>5, NewRootDeviceKeeps
<1>6. ASSUME NEW d \in RootDevices, NEW a \in BOOLEAN, W!SetAvailable(d, a) PROVE WebInv'
  BY <1>6, GroupsKeep
<1>7. ASSUME NEW d \in RootDevices, W!DisposeDevice(d) PROVE WebInv'
  BY <1>7, GroupsKeep
<1>8. ASSUME NEW r \in Requests, W!Serve(r) PROVE WebInv'
  BY <1>8, ServeKeeps
<1>9. ASSUME W!Sent PROVE WebInv'
  BY <1>9, SentKeeps
<1> QED BY Zenon, <1>1, <1>2, <1>3, <1>4, <1>5, <1>6, <1>7, <1>8, <1>9 DEF W!Next

\* A path with one entry: it is the data of the path's handler.
LEMMA OnlyEntry ==
  ASSUME WebInv, NEW p \in DOMAIN handlers, Cardinality(W!EntriesAt(p)) = 1
  PROVE  host_path_datas[W!EntryOf(p)] = handlers[p]
<1> DEFINE E == W!EntriesAt(p)
<1>1. /\ host_path_datas \in Seq(1 .. Len(datas)) /\ handlers[p] \in Members(host_path_datas)
      /\ datas[handlers[p]].path = p
  BY DEF WebInv, HostsSound, Now
<1>2. PICK i \in 1 .. Len(host_path_datas) : host_path_datas[i] = handlers[p]
  BY <1>1 DEF Members
<1>3. DOMAIN host_path_datas = 1 .. Len(host_path_datas) /\ Len(host_path_datas) \in Nat
  BY <1>1
<1>4. i \in E
  BY <1>1, <1>2, <1>3 DEF W!EntriesAt
<1>5. W!EntryOf(p) \in E
  BY <1>4, EntryIs DEF W!EntriesAt
<1>6. E \subseteq 1 .. Len(host_path_datas)
  BY <1>3 DEF W!EntriesAt
<1> HIDE DEF E
<1>7. IsFiniteSet(E)
  <2>1. IsFiniteSet(1 .. Len(host_path_datas))
    BY <1>3, FS_Interval
  <2> QED BY <1>6, <2>1, FS_Subset
<1>8. \E x : E = {x}
  <2>1. Cardinality(E) = 1
    BY DEF E
  <2> QED BY <1>7, <2>1, FS_Singleton
<1>9. W!EntryOf(p) = i
  <2>1. PICK x : E = {x}
    BY <1>8
  <2> QED BY <1>4, <1>5, <2>1
<1> QED BY <1>2, <1>9

\* AgentsGetTheirFiles follows.
LEMMA WebInvServes == WebInv => W!AgentsGetTheirFiles
<1> SUFFICES ASSUME WebInv PROVE W!AgentsGetTheirFiles
  OBVIOUS
<1> DEFINE path == datas[answer.of].path
           d == datas[host_path_datas[W!EntryOf(path)]]
           agent == W!AgentOf(answer.request)
           own == {j \in DOMAIN d.rules : d.rules[j].agent = agent}
<1>1. SUFFICES ASSUME W!Served, Cardinality(W!EntriesAt(path)) = 1
               PROVE  \A j \in own : (\A k \in own : k <= j) =>
                          W!IsPrefix(d.rules[j].local, answer.response.file)
  BY Zenon DEF W!AgentsGetTheirFiles, Cardinality, W!Cardinality
<1>2. PICK p \in DOMAIN handlers : answer.of = handlers[p]
  BY <1>1 DEF WebInv, WebAnswer, W!Served
<1>3. W!IsPrefix(W!LocalFor(datas[answer.of], agent), answer.response.file)
  BY <1>1 DEF WebInv, WebAnswer, W!Served
<1>4. /\ path = p /\ datas[answer.of] \in HostPathDatas
  <2>1. HostsSound(Now) /\ Now.datas = datas /\ Now.handlers = handlers
    BY DEF WebInv, Now
  <2>2. datas \in Seq(HostPathDatas) /\ handlers[p] \in 1 .. Len(datas)
        /\ datas[handlers[p]].path = p
    BY <1>2, <2>1, HandlersHaveData DEF HostsSound
  <2> QED BY <1>2, <2>2
<1>5. d = datas[answer.of]
  BY <1>1, <1>2, <1>4, OnlyEntry
<1> HIDE DEF d, agent, path
<1>6. d \in HostPathDatas
  BY <1>4, <1>5
<1>7. \A k \in own : (\A o \in own : o <= k) => W!LocalFor(d, agent) = d.rules[k].local
  BY <1>6, LocalIs
<1> QED BY <1>3, <1>5, <1>7

\* In the whole
InWeb == part = "web" => WebInv

LEMMA WebInvIsInductive == Spec => []InWeb
<1>1. Init => InWeb
  BY InitWeb DEF Init, InWeb
<1>2. InWeb /\ [Next]_vars => InWeb'
  <2> SUFFICES ASSUME InWeb, [Next]_vars, part' = "web" PROVE WebInv'
    BY DEF InWeb
  <2>1. CASE WStep
    BY <2>1, NextKeepsWeb DEF WStep, InWeb
  <2>2. CASE UNCHANGED vars
    BY Zenon, <2>2 DEF vars, wvars, InWeb, WebInv, WebAnswer, Now, W!AgentOf
  <2>3. CASE NStep \/ IStep \/ DStep \/ SStep \/ HStep \/ CStep \/ PStep
    BY Zenon, <2>3 DEF NStep, IStep, DStep, SStep, HStep, CStep, PStep
  <2> QED BY <2>1, <2>2, <2>3 DEF Next
<1> QED BY <1>1, <1>2, PTL DEF Spec

\* FilesServed: whatever is hosted, hosted again and unhosted, each handler works on a
\* data of its path that the context has, the description of each root device with a UDN
\* of its own is served, and from a path that is hosted once each agent gets the file of
\* the last rule for it.
THEOREM FilesAreServed == Spec => []FilesServed
<1>1. InWeb => FilesServed
  BY WebInvTells, WebInvServes DEF InWeb, FilesServed
<1> QED BY <1>1, WebInvIsInductive, PTL

-----------------------------------------------------------------------------
(* Addresses.                                                              *)

LEMMA AddressesTypes == (H!Init => H!TypeOK) /\ (H!TypeOK /\ H!Next => H!TypeOK')
<1>1. H!Init => H!TypeOK
  BY DEF H!Init, H!TypeOK, H!NoAnswer
<1>2. ASSUME NEW address, NEW prefix, H!AskMask(address, prefix) PROVE H!TypeOK'
  BY <1>2 DEF H!TypeOK, H!AskMask
<1>3. ASSUME NEW family, NEW host, H!AskRewrite(family, host) PROVE H!TypeOK'
  BY <1>3 DEF H!TypeOK, H!AskRewrite
<1>4. ASSUME NEW header, NEW own, NEW own_port, H!AskHost(header, own, own_port)
      PROVE  H!TypeOK'
  BY <1>4 DEF H!TypeOK, H!AskHost
<1> QED BY Zenon, <1>1, <1>2, <1>3, <1>4 DEF H!Next

\* The byte in which a prefix ends keeps its first bits, and has none behind them, if
\* more than three bits of it are inside.
LEMMA LastByteFacts ==
  ASSUME NEW b \in 0 .. 255, NEW n \in 4 .. 8
  PROVE  LET m == H!LastByte(b, n)
         IN m % (2 ^ (8 - n)) = 0 /\ m \div (2 ^ (8 - n)) = b \div (2 ^ (8 - n))
<1> DEFINE k == 2 ^ (8 - n)
<1>1. k \in {1, 2, 4, 8, 16} /\ 2 ^ (4 - (n - 4)) = k
  <2>1. 2 ^ 0 = 1 /\ 2 ^ 1 = 2 /\ 2 ^ 2 = 4 /\ 2 ^ 3 = 8 /\ 2 ^ 4 = 16
    BY SMT
  <2>2. 8 - n = 0 \/ 8 - n = 1 \/ 8 - n = 2 \/ 8 - n = 3 \/ 8 - n = 4
    OBVIOUS
  <2>3. k = 1 \/ k = 2 \/ k = 4 \/ k = 8 \/ k = 16
    BY Zenon, <2>1, <2>2
  <2>4. 4 - (n - 4) = 8 - n
    OBVIOUS
  <2> QED BY Zenon, <2>3, <2>4
<1>2. H!LastByte(b, n) = (b - (b % 16)) + ((b % 16) - (b % k))
  <2>1. H!LastByte(b, n) = (b - (b % 16)) + ((b % 16) - (b % (2 ^ (4 - (n - 4)))))
    BY DEF H!LastByte, H!HighNibble, H!LowBits
  <2> QED BY Zenon, <1>1, <2>1
<1> HIDE DEF k
<1>3. H!LastByte(b, n) = b - (b % k)
  BY <1>1, <1>2
<1>4. (b - (b % k)) % k = 0 /\ (b - (b % k)) \div k = b \div k
  <2>1. CASE k = 1 BY <2>1
  <2>2. CASE k = 2 BY <2>2
  <2>3. CASE k = 4 BY <2>3
  <2>4. CASE k = 8 BY <2>4
  <2>5. CASE k = 16 BY <2>5
  <2> QED BY Zenon, <1>1, <2>1, <2>2, <2>3, <2>4, <2>5
<1> QED BY Zenon, <1>3, <1>4 DEF k

\* What is left of a byte of which all bits, or none, are inside
LEMMA ByteFacts ==
  ASSUME NEW b \in 0 .. 255, NEW k
  PROVE  /\ k = 1 => b % k = 0
         /\ k = 256 => 0 % k = 0 /\ 0 \div k = b \div k
         /\ (b % 16) - (b % 16) = 0
<1>1. CASE k = 1 BY <1>1
<1>2. CASE k = 256 BY <1>2
<1>3. (b % 16) - (b % 16) = 0 BY SMT
<1> QED BY <1>1, <1>2, <1>3

\* generate_mask() finds the network
LEMMA NetworkFacts ==
  ASSUME NEW address \in [1 .. Length -> Bytes], NEW prefix \in 0 .. 8 * Length,
         prefix % 8 \notin 1 .. 3
  PROVE  LET network == H!Network(address, prefix)
         IN /\ ~H!BitsBehind(network, prefix) /\ network # <<>>
            /\ \A i \in 1 .. Length :
                  H!FirstBits(network, prefix, i) = H!FirstBits(address, prefix, i)
<1> DEFINE network == H!Network(address, prefix)
           whole == IF prefix = 0 THEN 0 ELSE (prefix - 1) \div 8
           n == prefix - 8 * whole
<1>1. Length \in Nat \ {0} /\ Bytes \subseteq 0 .. 255
  BY PartsAssumption
<1>2. prefix \in Nat /\ whole \in Nat /\ n \in Nat /\ prefix = 8 * whole + n
      /\ (prefix = 0 => n = 0) /\ (prefix # 0 => n \in 1 .. 8)
  BY <1>1
<1>3. (n = 0 /\ whole = 0) \/ n \in 4 .. 8
  BY <1>2
<1>4. network = [i \in 1 .. Length |->
                    CASE i <= whole -> address[i]
                      [] i = whole + 1 -> H!LastByte(address[i], n)
                      [] OTHER -> 0]
  BY DEF H!Network
<1> HIDE DEF network, whole, n
<1>5. 2 ^ 0 = 1 /\ 2 ^ 4 = 16 /\ 2 ^ 8 = 256
  BY SMT
<1>6. ASSUME NEW i \in 1 .. Length
      PROVE  LET k == 2 ^ (8 - H!Inside(i, prefix))
             IN network[i] % k = 0 /\ network[i] \div k = address[i] \div k
  <2> DEFINE b == address[i]
             c == network[i]
             shift == 8 - H!Inside(i, prefix)
  <2>1. b \in 0 .. 255
    <3>1. address[i] \in Bytes OBVIOUS
    <3> QED BY Zenon, <1>1, <3>1
  <2>2. i \in Nat /\ i >= 1
    BY <1>1
  <2>3. /\ i <= whole => c = b
        /\ i = whole + 1 => c = H!LastByte(b, n)
        /\ i > whole + 1 => c = 0
      <3>1. c = CASE i <= whole -> b
                [] i = whole + 1 -> H!LastByte(b, n)
                [] OTHER -> 0
      BY <1>4
    <3>2. /\ i = whole + 1 => ~(i <= whole)
          /\ i > whole + 1 => ~(i <= whole) /\ i # whole + 1
      BY <1>2, <2>2
    <3> HIDE DEF b, c
    <3> QED BY Zenon, <3>1, <3>2
  <2>4. /\ i <= whole => shift = 0
        /\ i = whole + 1 => shift = 8 - n
        /\ i > whole + 1 => shift = 8
    BY <1>2, <1>3, <2>2 DEF H!Inside
  <2> HIDE DEF b, c, shift
  <2>5. c % (2 ^ shift) = 0 /\ c \div (2 ^ shift) = b \div (2 ^ shift)
    <3> DEFINE k == 2 ^ shift
    <3>1. CASE i <= whole
      <4>1. c = b /\ k = 1
        BY Zenon, <1>5, <2>3, <2>4, <3>1
      <4>2. b % k = 0
        BY Zenon, <2>1, <4>1, ByteFacts
      <4> QED BY Zenon, <4>1, <4>2
    <3>2. CASE i = whole + 1 /\ n \in 4 .. 8
      <4>1. c = H!LastByte(b, n) /\ shift = 8 - n
        BY Zenon, <2>3, <2>4, <3>2
      <4>2. /\ H!LastByte(b, n) % (2 ^ (8 - n)) = 0
            /\ H!LastByte(b, n) \div (2 ^ (8 - n)) = b \div (2 ^ (8 - n))
        BY Zenon, <2>1, <3>2, LastByteFacts
      <4> QED BY Zenon, <4>1, <4>2
    <3>3. CASE i = whole + 1 /\ n = 0
      <4>1. shift = 8
        BY <2>4, <3>3
      <4>2. c = 0
        <5>1. 2 ^ (4 - n) = 16
          <6>1. 4 - n = 4 BY <3>3
          <6> QED BY ZenonT(60), <1>5, <6>1
        <5>2. c = H!LowBits(b, n)
          BY <2>3, <3>3 DEF H!LastByte
        <5>3. c = (b % 16) - (b % 16)
          BY Zenon, <5>1, <5>2 DEF H!LowBits
        <5> QED BY Zenon, <2>1, <5>3, ByteFacts
      <4>3. k = 256
        BY Zenon, <1>5, <4>1
      <4>4. 0 % k = 0 /\ 0 \div k = b \div k
        BY ZenonT(60), <2>1, <4>3, ByteFacts
      <4> QED BY Zenon, <4>2, <4>4
    <3>4. CASE i > whole + 1
      <4>1. c = 0 /\ k = 256
        BY ZenonT(60), <1>5, <2>3, <2>4, <3>4
      <4>2. 0 % k = 0 /\ 0 \div k = b \div k
        BY ZenonT(60), <2>1, <4>1, ByteFacts
      <4> QED BY Zenon, <4>1, <4>2
    <3>5. i <= whole \/ i = whole + 1 \/ i > whole + 1
      BY <1>2, <2>2
    <3> QED BY Zenon, <1>3, <3>1, <3>2, <3>3, <3>4, <3>5
  <2> QED BY Zenon, <2>5 DEF b, c, shift
<1>7. network # <<>>
  <2>1. 1 \in DOMAIN network
    BY <1>1, <1>4
  <2> QED BY <2>1
<1> QED BY <1>6, <1>7 DEF H!BitsBehind, H!FirstBits, network

\* What is answered is right, by the call it answers.
LEMMA AddressesAnswered ==
  ASSUME H!Next
  PROVE  H!MaskIsNetwork' /\ H!RewrittenIsUsable' /\ H!HostIsOurs'
<1>1. ASSUME NEW address \in [1 .. Length -> Bytes], NEW prefix \in 0 .. 8 * Length,
             H!AskMask(address, prefix)
      PROVE  H!MaskIsNetwork' /\ H!RewrittenIsUsable' /\ H!HostIsOurs'
  <2> DEFINE network == H!Network(address, prefix)
  <2>1. /\ answer'.call = "mask" /\ answer'.address = address /\ answer'.prefix = prefix
        /\ answer'.mask = IF H!BitsBehind(network, prefix) THEN <<>> ELSE network
    BY <1>1 DEF H!AskMask
  <2>2. prefix % 8 \notin 1 .. 3 =>
            /\ ~H!BitsBehind(network, prefix) /\ network # <<>>
            /\ \A i \in 1 .. Length :
                  H!FirstBits(network, prefix, i) = H!FirstBits(address, prefix, i)
    BY NetworkFacts
  <2> HIDE DEF network
  <2>3. H!MaskIsNetwork'
    BY <2>1, <2>2 DEF H!MaskIsNetwork
  <2> QED BY <2>1, <2>3 DEF H!RewrittenIsUsable, H!HostIsOurs
<1>2. ASSUME NEW family \in {"v4", "v6"}, NEW host \in Hosts, H!AskRewrite(family, host)
      PROVE  H!MaskIsNetwork' /\ H!RewrittenIsUsable' /\ H!HostIsOurs'
  <2>1. /\ answer'.call = "rewrite" /\ answer'.family = family /\ answer'.host = host
        /\ answer'.uri = H!RewriteUri(family, host)
    BY <1>2 DEF H!AskRewrite
  <2>2. H!RewriteUri(family, host) # <<>> =>
            /\ H!Family(H!RewriteUri(family, host)[1].host) \in {"no address", family}
            /\ H!RewriteUri(family, host)[1].zone <=> host = "link-local v6"
    <3>1. H!Family("link-local v6") = "v6"
      BY DEF H!Family
    <3>2. H!RewriteUri(family, host) # <<>> =>
              \/ /\ H!Family(host) = "no address"
                 /\ H!RewriteUri(family, host) = <<[host |-> host, zone |-> FALSE]>>
              \/ /\ H!Family(host) = family
                 /\ H!RewriteUri(family, host)
                      = <<[host |-> host, zone |-> host = "link-local v6"]>>
      BY DEF H!RewriteUri
    <3> DEFINE uri == H!RewriteUri(family, host)
               zone == host = "link-local v6"
    <3>3. zone => H!Family(host) # "no address"
      BY <3>1
    <3> HIDE DEF uri, zone
    <3>4. CASE H!Family(host) = "no address" /\ uri = <<[host |-> host, zone |-> FALSE]>>
      <4>1. uri[1].host = host /\ uri[1].zone = FALSE
        BY <3>4
      <4> QED BY <3>3, <3>4, <4>1 DEF uri, zone
    <3>5. CASE H!Family(host) = family /\ uri = <<[host |-> host, zone |-> zone]>>
      <4>1. uri[1].host = host /\ uri[1].zone = zone
        BY <3>5
      <4> QED BY <3>5, <4>1 DEF uri, zone
    <3> QED BY <3>2, <3>4, <3>5 DEF uri, zone
  <2> QED BY <2>1, <2>2 DEF H!MaskIsNetwork, H!RewrittenIsUsable, H!HostIsOurs
<1>3. ASSUME NEW header, NEW own, NEW own_port, H!AskHost(header, own, own_port)
      PROVE  H!MaskIsNetwork' /\ H!RewrittenIsUsable' /\ H!HostIsOurs'
  <2>1. /\ answer'.call = "host" /\ answer'.header = header /\ answer'.own = own
        /\ answer'.own_port = own_port
        /\ answer'.ok = H!ValidateHostHeader(header, own, own_port)
    BY <1>3 DEF H!AskHost
  <2> QED BY <2>1 DEF H!MaskIsNetwork, H!RewrittenIsUsable, H!HostIsOurs,
                      H!ValidateHostHeader
<1> QED BY Zenon, <1>1, <1>2, <1>3 DEF H!Next

\* In the whole
InAddresses ==
    part = "addresses" => H!TypeOK /\ H!MaskIsNetwork /\ H!RewrittenIsUsable /\ H!HostIsOurs

LEMMA AddressesInvIsInductive == Spec => []InAddresses
<1>1. Init => InAddresses
  <2> SUFFICES ASSUME Init, part = "addresses"
               PROVE  H!TypeOK /\ H!MaskIsNetwork /\ H!RewrittenIsUsable /\ H!HostIsOurs
    BY DEF InAddresses
  <2>1. answer = [call |-> "none"]
    BY DEF Init, H!Init, H!NoAnswer
  <2> QED BY <2>1 DEF H!TypeOK, H!MaskIsNetwork, H!RewrittenIsUsable, H!HostIsOurs
<1>2. InAddresses /\ [Next]_vars => InAddresses'
  <2> SUFFICES ASSUME InAddresses, [Next]_vars, part' = "addresses"
               PROVE  (H!TypeOK /\ H!MaskIsNetwork /\ H!RewrittenIsUsable /\ H!HostIsOurs)'
    BY DEF InAddresses
  <2>1. CASE HStep
    BY <2>1, AddressesTypes, AddressesAnswered DEF HStep, InAddresses
  <2>2. CASE UNCHANGED vars
    BY <2>2 DEF vars, InAddresses, H!TypeOK, H!MaskIsNetwork, H!RewrittenIsUsable, H!HostIsOurs
  <2>3. CASE NStep \/ IStep \/ WStep \/ DStep \/ SStep \/ CStep \/ PStep
    BY <2>3 DEF NStep, IStep, WStep, DStep, SStep, CStep, PStep
  <2> QED BY <2>1, <2>2, <2>3 DEF Next
<1> QED BY <1>1, <1>2, PTL DEF Spec

\* AddressesUsable: for every address and every prefix length that does not end in the
\* first three bits of a byte, the mask is the network; every rewritten URI can be
\* reached, and every accepted header names the context.
THEOREM AddressesAreUsable == Spec => []AddressesUsable
<1>1. InAddresses => AddressesUsable
  BY DEF InAddresses, AddressesUsable
<1> QED BY <1>1, AddressesInvIsInductive, PTL

-----------------------------------------------------------------------------
(* ServiceDescription: its lists.                                          *)

\* The entries of a list that are in a set
LEMMA AmongFacts ==
  ASSUME NEW A, NEW s \in Seq(A), NEW T
  PROVE  S!Among(s, T) \in Seq(A) /\ Members(S!Among(s, T)) = Members(s) \cap T
<1> DEFINE Q == Len(s)
           K == Seq(A)
           New(x, n) == IF s[n] \in T THEN Append(x, s[n]) ELSE x
           step == [p \in (1 .. Q) \X K |-> New(p[2], p[1])]
           after[n \in 0 .. Q] == IF n = 0 THEN <<>> ELSE New(after[n - 1], n)
           Of(n) == {s[i] : i \in 1 .. n} \cap T
<1>1. Q \in Nat /\ <<>> \in K /\ \A n \in 1 .. Q : s[n] \in A
  OBVIOUS
<1>2. ASSUME NEW x \in K, NEW n \in 1 .. Q
      PROVE  New(x, n) \in K /\ (Members(x) = Of(n - 1) => Members(New(x, n)) = Of(n))
  <2>1. s[n] \in A /\ {s[i] : i \in 1 .. n} = {s[i] : i \in 1 .. n - 1} \cup {s[n]}
    <3>1. \A i \in 1 .. n : i \in 1 .. n - 1 \/ i = n
      BY <1>1
    <3>2. n \in 1 .. n /\ \A i \in 1 .. n - 1 : i \in 1 .. n
      BY <1>1
    <3> QED BY <1>1, <3>1, <3>2
  <2>2. CASE s[n] \in T
    <3>1. Append(x, s[n]) \in Seq(A) /\ Members(Append(x, s[n])) = Members(x) \cup {s[n]}
      BY <2>1, AppendFacts
    <3> QED BY <2>1, <2>2, <3>1
  <2>3. CASE s[n] \notin T
    BY <2>1, <2>3
  <2> QED BY <2>2, <2>3
<1> HIDE DEF New, K, Q
<1>3. step \in [(1 .. Q) \X K -> K]
  BY <1>2
<1>4. PICK g : Repeats(g, K, <<>>, Q, step)
  <2> HIDE DEF step
  <2> QED BY <1>1, <1>3, Iteration
<1>5. g \in [0 .. Q -> K] /\ g[0] = <<>>
  BY <1>4 DEF Repeats
<1>6. ASSUME NEW n \in 1 .. Q PROVE g[n] = New(g[n - 1], n)
  <2>1. g[n - 1] \in K
    BY <1>1, <1>5
  <2>2. g[n] = step[<<n, g[n - 1]>>]
    BY <1>4 DEF Repeats
  <2> QED BY <2>1, <2>2
<1>7. g = [n \in 0 .. Q |-> IF n = 0 THEN <<>> ELSE New(g[n - 1], n)]
  BY <1>5, <1>6
<1>8. after = [n \in 0 .. Q |-> IF n = 0 THEN <<>> ELSE New(after[n - 1], n)]
  BY <1>7
<1>9. S!Among(s, T) = after[Q]
  BY Zenon DEF S!Among, New, Q
<1> HIDE DEF after
<1>10. after[0] = <<>> /\ \A n \in 1 .. Q : after[n] = New(after[n - 1], n)
  BY <1>1, <1>8
<1> DEFINE Good == {n \in 0 .. Q : after[n] \in K /\ Members(after[n]) = Of(n)}
<1>11. 0 \in Good
  <2>1. Of(0) = {} /\ 0 \in 0 .. Q
    BY <1>1
  <2> HIDE DEF Of
  <2>2. Members(after[0]) = {} /\ after[0] \in K
    BY <1>1, <1>10, EmptyMembers
  <2> QED BY <2>1, <2>2
<1>12. ASSUME NEW n \in 1 .. Q, n - 1 \in Good PROVE n \in Good
  <2> HIDE DEF Of
  <2> QED BY <1>2, <1>10, <1>12
<1>13. Q \in Good
  <2>1. Q \in 0 .. Q BY <1>1
  <2> HIDE DEF Good
  <2> QED BY <1>1, <1>11, <1>12, <2>1, Induction
<1>14. Of(Q) = Members(s) \cap T
  BY DEF Members, Q
<1> QED BY <1>9, <1>13, <1>14 DEF K

\* Lists one after the other: how it goes on
LEMMA FlattenSteps ==
  ASSUME NEW A, NEW lists \in Seq(Seq(A))
  PROVE  \E g : /\ g \in [0 .. Len(lists) -> Seq(A)] /\ g[0] = <<>>
                /\ \A n \in 1 .. Len(lists) : g[n] = g[n - 1] \o lists[n]
                /\ S!FlattenSeq(lists) = g[Len(lists)]
<1> DEFINE Q == Len(lists)
           K == Seq(A)
           New(x, n) == x \o lists[n]
           step == [p \in (1 .. Q) \X K |-> New(p[2], p[1])]
           after[n \in 0 .. Q] == IF n = 0 THEN <<>> ELSE New(after[n - 1], n)
<1>1. Q \in Nat /\ <<>> \in K /\ \A n \in 1 .. Q : lists[n] \in K
  OBVIOUS
<1>2. \A x \in K, n \in 1 .. Q : New(x, n) \in K
  BY <1>1
<1> HIDE DEF New, K, Q
<1>3. step \in [(1 .. Q) \X K -> K]
  BY <1>2
<1>4. PICK g : Repeats(g, K, <<>>, Q, step)
  <2> HIDE DEF step
  <2> QED BY <1>1, <1>3, Iteration
<1>5. g \in [0 .. Q -> K] /\ g[0] = <<>>
  BY <1>4 DEF Repeats
<1>6. ASSUME NEW n \in 1 .. Q PROVE g[n] = New(g[n - 1], n)
  <2>1. g[n - 1] \in K
    BY <1>1, <1>5
  <2>2. g[n] = step[<<n, g[n - 1]>>]
    BY <1>4 DEF Repeats
  <2> QED BY <2>1, <2>2
<1>7. g = [n \in 0 .. Q |-> IF n = 0 THEN <<>> ELSE New(g[n - 1], n)]
  BY <1>5, <1>6
<1>8. after = [n \in 0 .. Q |-> IF n = 0 THEN <<>> ELSE New(after[n - 1], n)]
  BY <1>7
<1>9. S!FlattenSeq(lists) = after[Q]
  BY Zenon DEF S!FlattenSeq, New, Q
<1> HIDE DEF after
<1>10. after[0] = <<>> /\ \A n \in 1 .. Q : after[n] = New(after[n - 1], n)
  BY <1>1, <1>8
<1> DEFINE Good == {n \in 0 .. Q : after[n] = g[n]}
<1>11. 0 \in Good
  BY <1>1, <1>5, <1>10
<1>12. ASSUME NEW n \in 1 .. Q, n - 1 \in Good PROVE n \in Good
  BY <1>6, <1>10, <1>12
<1>13. Q \in Good
  <2>1. Q \in 0 .. Q BY <1>1
  <2> HIDE DEF Good
  <2> QED BY <1>1, <1>11, <1>12, <2>1, Induction
<1>14. S!FlattenSeq(lists) = g[Q]
  BY <1>9, <1>13
<1> QED BY <1>5, <1>6, <1>14 DEF New, K, Q

\* ... and one list more
LEMMA FlattenFacts ==
  ASSUME NEW A, NEW lists \in Seq(Seq(A)), NEW more \in Seq(A)
  PROVE  /\ S!FlattenSeq(lists) \in Seq(A)
         /\ lists = <<>> => S!FlattenSeq(lists) = <<>>
         /\ S!FlattenSeq(Append(lists, more)) = S!FlattenSeq(lists) \o more
<1> DEFINE Q == Len(lists)
           longer == Append(lists, more)
           K == Seq(A)
<1>1. Q \in Nat /\ (lists = <<>> => Q = 0)
  OBVIOUS
<1>2. /\ longer \in Seq(Seq(A)) /\ Len(longer) = Q + 1 /\ longer[Q + 1] = more
      /\ \A n \in 1 .. Q : longer[n] = lists[n]
  BY AppendFacts
<1> HIDE DEF longer
<1>3. PICK g : /\ g \in [0 .. Q -> Seq(A)] /\ g[0] = <<>>
               /\ \A n \in 1 .. Q : g[n] = g[n - 1] \o lists[n]
               /\ S!FlattenSeq(lists) = g[Q]
  BY FlattenSteps
<1>4. PICK h : /\ h \in [0 .. Len(longer) -> Seq(A)] /\ h[0] = <<>>
               /\ \A n \in 1 .. Len(longer) : h[n] = h[n - 1] \o longer[n]
               /\ S!FlattenSeq(longer) = h[Len(longer)]
  BY <1>2, FlattenSteps
<1> HIDE DEF Q
<1> DEFINE Good == {n \in 0 .. Q : h[n] = g[n]}
<1>5. 0 \in Good
  BY <1>1, <1>3, <1>4
<1>6. ASSUME NEW n \in 1 .. Q, n - 1 \in Good PROVE n \in Good
  <2>1. n \in 1 .. Len(longer) /\ longer[n] = lists[n] /\ n \in 0 .. Q
    BY <1>1, <1>2
  <2>2. g[n] = g[n - 1] \o lists[n] /\ h[n] = h[n - 1] \o lists[n] /\ h[n - 1] = g[n - 1]
    BY <1>3, <1>4, <1>6, <2>1
  <2>3. h[n] = g[n]
    BY Zenon, <2>2
  <2> QED BY <2>1, <2>3
<1>7. Q \in Good
  <2>1. Q \in 0 .. Q BY <1>1
  <2> HIDE DEF Good
  <2> QED BY <1>1, <1>5, <1>6, <2>1, Induction
<1>8. h[Q + 1] = h[Q] \o more
  <2>1. Q + 1 \in 1 .. Len(longer) /\ (Q + 1) - 1 = Q
    BY <1>1, <1>2
  <2> QED BY <1>2, <1>4, <2>1
<1>9. g[Q] \in Seq(A) /\ (Q = 0 => g[Q] = <<>>)
  BY <1>1, <1>3
<1> QED BY <1>1, <1>2, <1>3, <1>4, <1>7, <1>8, <1>9 DEF longer

\* The range of a list is what is in it.
LEMMA RangeIs == ASSUME NEW A, NEW s \in Seq(A) PROVE S!Range(s) = Members(s)
<1>1. DOMAIN s = 1 .. Len(s)
  OBVIOUS
<1> QED BY <1>1 DEF S!Range, Members

\* A list turned round
LEMMA ReverseFacts ==
  ASSUME NEW A, NEW s \in Seq(A)
  PROVE  LET r == S!Reverse(s)
         IN /\ r \in Seq(A) /\ Len(r) = Len(s) /\ Len(s) \in Nat
            /\ \A i \in 1 .. Len(s) : r[i] = s[Len(s) + 1 - i]
            /\ Members(r) = Members(s)
<1> DEFINE n == Len(s)
           r == S!Reverse(s)
<1>1. n \in Nat /\ \A i \in 1 .. n : s[i] \in A
  OBVIOUS
<1>2. r = [i \in 1 .. n |-> s[n + 1 - i]]
  BY DEF S!Reverse
<1>3. \A i \in 1 .. n : n + 1 - i \in 1 .. n /\ n + 1 - (n + 1 - i) = i
  BY <1>1
<1> HIDE DEF r, n
<1>4. r \in Seq(A) /\ Len(r) = n /\ \A i \in 1 .. n : r[i] = s[n + 1 - i]
  BY <1>1, <1>2, <1>3
<1>5. {r[i] : i \in 1 .. n} = {s[i] : i \in 1 .. n}
  <2>1. ASSUME NEW i \in 1 .. n PROVE \E j \in 1 .. n : s[i] = r[j]
    <3>1. r[n + 1 - i] = s[i] /\ n + 1 - i \in 1 .. n
      BY <1>3, <1>4
    <3> QED BY <3>1
  <2>2. ASSUME NEW i \in 1 .. n PROVE \E j \in 1 .. n : r[i] = s[j]
    BY <1>3, <1>4
  <2>3. {s[i] : i \in 1 .. n} \subseteq {r[i] : i \in 1 .. n}
    BY <2>1
  <2>4. {r[i] : i \in 1 .. n} \subseteq {s[i] : i \in 1 .. n}
    BY <2>2
  <2> QED BY Zenon, <2>3, <2>4
<1> QED BY <1>1, <1>4, <1>5 DEF Members, n, r

\* A list made of another, entry by entry
LEMMA EachOf ==
  ASSUME NEW A, NEW s \in Seq(A), NEW B, NEW r, r = [i \in DOMAIN s |-> r[i]],
         \A i \in DOMAIN s : r[i] \in B
  PROVE  r \in Seq(B) /\ Len(r) = Len(s) /\ Len(s) \in Nat /\ DOMAIN s = 1 .. Len(s)
<1>1. Len(s) \in Nat /\ DOMAIN s = 1 .. Len(s)
  OBVIOUS
<1>2. r \in Seq(B) /\ Len(r) = Len(s)
  BY <1>1
<1> QED BY <1>1, <1>2

\* The positions of a list
LEMMA Indices ==
  ASSUME NEW A, NEW s \in Seq(A)
  PROVE  /\ DOMAIN s = 1 .. Len(s) /\ Len(s) \in Nat /\ \A i \in 1 .. Len(s) : s[i] \in A
         /\ s = [i \in DOMAIN s |-> s[i]]
<1>1. DOMAIN s = 1 .. Len(s) /\ Len(s) \in Nat /\ \A i \in 1 .. Len(s) : s[i] \in A
  OBVIOUS
<1>2. s = [i \in 1 .. Len(s) |-> s[i]]
  OBVIOUS
<1> QED BY <1>1, <1>2

\* The position of the first entry in a set is 0 exactly if there is none.
LEMMA PositionIs ==
  ASSUME NEW A, NEW s \in Seq(A), NEW T
  PROVE  LET at == S!Position(s, T)
         IN /\ at = 0 <=> \A i \in DOMAIN s : s[i] \notin T
            /\ at # 0 => at \in DOMAIN s /\ s[at] \in T
<1> DEFINE at == S!Position(s, T)
<1>1. DOMAIN s = 1 .. Len(s) /\ Len(s) \in Nat
  BY Zenon, Indices
<1>2. CASE \E i \in DOMAIN s : s[i] \in T
  <2> DEFINE U == {i \in DOMAIN s : s[i] \in T}
  <2>1. U \in SUBSET Nat /\ U # {}
    <3>1. \A i \in DOMAIN s : i \in Nat
      BY <1>1
    <3> QED BY <1>2, <3>1
  <2>2. \E i \in U : \A j \in U : i <= j
    <3> HIDE DEF U
    <3> QED BY <2>1, SmallestNumber
  <2>3. \E i \in DOMAIN s : s[i] \in T /\ \A j \in 1 .. i - 1 : s[j] \notin T
    <3>1. PICK i \in U : \A j \in U : i <= j
      BY <2>2
    <3>2. \A j \in 1 .. i - 1 : j \in DOMAIN s /\ ~(i <= j)
      <4>1. i \in DOMAIN s
        BY <3>1
      <4> QED BY <1>1, <4>1
    <3> QED BY <3>1, <3>2
  <2>4. at = CHOOSE i \in DOMAIN s : s[i] \in T /\ \A j \in 1 .. i - 1 : s[j] \notin T
    BY <2>3 DEF S!Position
  <2>5. at \in DOMAIN s /\ s[at] \in T
    BY <2>3, <2>4
  <2> HIDE DEF at
  <2>6. at # 0
    BY <1>1, <2>5
  <2> QED BY <1>2, <2>5, <2>6 DEF at
<1>3. CASE ~\E i \in DOMAIN s : s[i] \in T
  <2>1. at = 0
    BY <1>3 DEF S!Position
  <2> QED BY <1>3, <2>1
<1> QED BY <1>2, <1>3

-----------------------------------------------------------------------------
(* ServiceDescription: the introspection.                                  *)

\* Entries with names, all of them in a set
HasNames(s, V) == \E B : s \in Seq(B) /\ \A x \in B : x.name \in V /\ x.name # ""

\* The variables have names, which the description has.
LEMMA StateVariablesAre ==
  ASSUME scpd \in ServiceDocuments
  PROVE  /\ HasNames(S!StateVariables, STRING)
         /\ HasNames(S!StateVariables, S!Range(S!NamesIn(scpd.variables)))
<1> DEFINE wanted == {v \in S!Range(scpd.variables) :
                         v.name # "" /\ S!TypeOf(v.data_type) # "invalid"}
           known == S!Among(scpd.variables, wanted)
           infos == S!StateVariables
           names == S!Range(S!NamesIn(scpd.variables))
           B == {infos[i] : i \in DOMAIN known}
<1>1. scpd.variables \in Seq(S!VariableElements)
  BY ServiceAssumption DEF S!IsDescription
<1>2. known \in Seq(S!VariableElements) /\ Members(known) = Members(scpd.variables) \cap wanted
  <2> HIDE DEF wanted
  <2> QED BY <1>1, AmongFacts
<1>3. \A v \in S!VariableElements : v.name \in STRING
  BY DEF S!VariableElements
<1>4. \A v \in Members(scpd.variables) : v \in S!VariableElements /\ v.name \in names
  <2>1. DOMAIN scpd.variables = 1 .. Len(scpd.variables)
    BY <1>1
  <2> QED BY <1>1, <2>1 DEF Members, S!Range, S!NamesIn
<1>5. infos = [i \in DOMAIN known |-> S!VariableInfo(known[i])]
  BY DEF S!StateVariables
<1>6. DOMAIN known = 1 .. Len(known)
  <2> HIDE DEF known
  <2> QED BY <1>2, Indices
<1>7. \A v \in wanted : v.name # ""
  OBVIOUS
<1> HIDE DEF wanted, known, names, infos
<1>8. ASSUME NEW i \in DOMAIN known
      PROVE  infos[i] \in B /\ infos[i].name \in names /\ infos[i].name \in STRING
             /\ infos[i].name # ""
  <2>1. known[i] \in Members(scpd.variables) \cap wanted
    BY <1>2, <1>6 DEF Members
  <2>2. infos[i] = S!VariableInfo(known[i])
    BY <1>5
  <2>3. infos[i].name = known[i].name
    BY <2>2 DEF S!VariableInfo
  <2> QED BY <1>3, <1>4, <1>7, <2>1, <2>3
<1>9. infos \in Seq(B)
  <2>1. infos = [i \in DOMAIN known |-> infos[i]]
    BY <1>5
  <2> HIDE DEF B
  <2> QED BY <1>2, <1>8, <2>1, EachOf
<1>10. \A x \in B : x.name \in names /\ x.name \in STRING /\ x.name # ""
  BY <1>8
<1> QED BY <1>9, <1>10 DEF HasNames, infos, names

\* The actions have names.
LEMMA ActionsAre == ASSUME scpd \in ServiceDocuments PROVE HasNames(S!Actions, STRING)
<1> DEFINE wanted == {a \in S!Range(scpd.actions) : a.name # ""}
           known == S!Among(scpd.actions, wanted)
           infos == S!Actions
           B == {infos[i] : i \in DOMAIN known}
<1>1. scpd.actions \in Seq(S!ActionElements)
  BY ServiceAssumption DEF S!IsDescription
<1>2. known \in Seq(S!ActionElements) /\ Members(known) = Members(scpd.actions) \cap wanted
  <2> HIDE DEF wanted
  <2> QED BY <1>1, AmongFacts
<1>3. \A v \in S!ActionElements : v.name \in STRING
  BY DEF S!ActionElements
<1>4. infos = [i \in DOMAIN known |->
                  [name |-> known[i].name, arguments |-> S!Arguments(known[i].args)]]
  BY DEF S!Actions
<1>5. DOMAIN known = 1 .. Len(known) /\ \A i \in DOMAIN known : known[i] \in S!ActionElements
  <2> HIDE DEF known
  <2>1. known \in Seq(S!ActionElements)
    BY <1>2
  <2> QED BY Zenon, <2>1, Indices
<1>6. \A v \in wanted : v.name # ""
  OBVIOUS
<1> HIDE DEF wanted, known, infos
<1>7. ASSUME NEW i \in DOMAIN known
      PROVE  infos[i] \in B /\ infos[i].name \in STRING /\ infos[i].name # ""
  <2>1. known[i] \in wanted
    BY <1>2, <1>5 DEF Members
  <2>2. infos[i].name = known[i].name
    BY <1>4
  <2> QED BY <1>3, <1>5, <1>6, <2>1, <2>2
<1>8. infos \in Seq(B)
  <2>1. infos = [i \in DOMAIN known |-> infos[i]]
    BY <1>4
  <2> HIDE DEF B
  <2> QED BY <1>2, <1>7, <2>1, EachOf
<1>9. \A x \in B : x.name \in STRING /\ x.name # ""
  BY <1>7
<1> QED BY <1>8, <1>9 DEF HasNames, infos

\* The names of entries
LEMMA NamesAre ==
  ASSUME NEW V, NEW s, HasNames(s, V)
  PROVE  /\ S!NamesIn(s) \in Seq(V) /\ s \in Seq(S!Range(s)) /\ DOMAIN s = 1 .. Len(s)
         /\ DOMAIN S!NamesIn(s) = DOMAIN s
         /\ \A i \in DOMAIN s : S!NamesIn(s)[i] = s[i].name /\ s[i].name # ""
<1>1. PICK B : s \in Seq(B) /\ \A x \in B : x.name \in V /\ x.name # ""
  BY DEF HasNames
<1>2. S!NamesIn(s) = [i \in DOMAIN s |-> s[i].name]
  BY DEF S!NamesIn
<1>3. DOMAIN s = 1 .. Len(s) /\ Len(s) \in Nat /\ \A i \in DOMAIN s : s[i] \in B
  BY Zenon, <1>1, Indices
<1>4. \A i \in DOMAIN s : s[i].name \in V /\ s[i].name # ""
  BY <1>1, <1>3
<1>5. S!NamesIn(s) \in Seq(V)
  <2> DEFINE names == S!NamesIn(s)
  <2>1. names = [i \in DOMAIN s |-> names[i]] /\ \A i \in DOMAIN s : names[i] \in V
    BY <1>2, <1>4
  <2> HIDE DEF names
  <2>2. names \in Seq(V)
    BY <1>1, <2>1, EachOf
  <2> QED BY <2>2 DEF names
<1>6. s \in Seq(S!Range(s))
  <2>1. \A i \in DOMAIN s : s[i] \in S!Range(s)
    BY DEF S!Range
  <2>2. s = [i \in DOMAIN s |-> s[i]]
    <3>1. s \in Seq(B)
      BY <1>1
    <3> QED BY ONLY <3>1, Indices
  <2> DEFINE R == S!Range(s)
  <2> HIDE DEF R
  <2>3. \A i \in DOMAIN s : s[i] \in R
    BY <2>1 DEF R
  <2>4. s \in Seq(R)
    BY <1>1, <2>2, <2>3, EachOf
  <2> QED BY <2>4 DEF R
<1> QED BY <1>2, <1>3, <1>4, <1>5, <1>6

\* What is looked up by its name is there exactly if the list of names has it.
LEMMA FindIs ==
  ASSUME NEW s, HasNames(s, STRING), NEW name
  PROVE  S!Find(s, name) # S!Null <=> name \in S!Range(S!NamesIn(s))
<1> DEFINE T == {x \in S!Range(s) : x.name = name}
           at == S!Position(s, T)
<1>1. /\ DOMAIN s = 1 .. Len(s) /\ DOMAIN S!NamesIn(s) = DOMAIN s
      /\ \A i \in DOMAIN s : S!NamesIn(s)[i] = s[i].name /\ s[i].name # ""
  BY NamesAre
<1>2. \A i \in DOMAIN s : s[i] \in T <=> s[i].name = name
  BY DEF S!Range
<1>3. name \in S!Range(S!NamesIn(s)) <=> \E i \in DOMAIN s : s[i].name = name
  BY <1>1 DEF S!Range
<1>4. S!Find(s, name) = IF at = 0 THEN S!Null ELSE s[at]
  BY DEF S!Find
<1> HIDE DEF T
<1>5. /\ at = 0 <=> \A i \in DOMAIN s : s[i] \notin T
      /\ at # 0 => at \in DOMAIN s /\ s[at] \in T
  <2>1. PICK B : s \in Seq(B)
    BY DEF HasNames
  <2> QED BY <2>1, PositionIs
<1> HIDE DEF at
<1>6. CASE at = 0
  BY <1>2, <1>3, <1>4, <1>5, <1>6
<1>7. CASE at # 0
  <2>1. s[at].name # "" /\ s[at].name = name
    BY Zenon, <1>1, <1>2, <1>5, <1>7
  <2>2. S!Null.name = ""
    BY DEF S!Null
  <2>3. s[at] # S!Null
    BY <2>1, <2>2
  <2> QED BY <1>3, <1>4, <1>5, <1>7, <2>1, <2>3
<1> QED BY <1>6, <1>7

-----------------------------------------------------------------------------
(* ServiceDescription: the handlers that are connected.                    *)

Connections == [signal : {"action-invoked", "query-variable"}, detail : STRING,
                function : {"on", "cb"}, data : UserData]

LEMMA ConnectIs ==
  ASSUME NEW names \in Seq(STRING), NEW signal \in {"action-invoked", "query-variable"},
         NEW prefix, NEW data \in UserData
  PROVE  S!Connect(names, signal, prefix, data) \in Seq(Connections)
<1> DEFINE T == {n \in S!Range(names) : S!CallbacksOf(<<prefix, n>>) # {}}
           found == S!Among(names, T)
           function(n) == IF \E s \in S!CallbacksOf(<<prefix, n>>) : s.form = "on"
                          THEN "on" ELSE "cb"
           r == S!Connect(names, signal, prefix, data)
<1>1. found \in Seq(STRING)
  <2> HIDE DEF T
  <2> QED BY AmongFacts
<1>2. r = [i \in DOMAIN found |-> [signal |-> signal, detail |-> found[i],
                                   function |-> function(found[i]), data |-> data]]
  BY Zenon DEF S!Connect
<1>3. \A n : function(n) \in {"on", "cb"}
  OBVIOUS
<1> HIDE DEF found, function, r
<1>4. DOMAIN found = 1 .. Len(found) /\ \A i \in DOMAIN found : found[i] \in STRING
  BY Zenon, <1>1, Indices
<1>5. r = [i \in DOMAIN found |-> r[i]] /\ \A i \in DOMAIN found : r[i] \in Connections
  BY <1>2, <1>3, <1>4 DEF Connections
<1>6. r \in Seq(Connections)
  BY <1>1, <1>5, EachOf
<1> QED BY <1>6 DEF r

LEMMA ConnectAllIs ==
  ASSUME scpd \in ServiceDocuments, NEW data \in UserData
  PROVE  S!ConnectAll(data) \in Seq(Connections)
<1> DEFINE a == S!Connect(S!NamesIn(S!Actions), "action-invoked", "", data)
           b == S!Connect(S!NamesIn(S!StateVariables), "query-variable", "query", data)
<1>1. S!NamesIn(S!Actions) \in Seq(STRING) /\ S!NamesIn(S!StateVariables) \in Seq(STRING)
  BY ActionsAre, StateVariablesAre, NamesAre
<1>2. a \in Seq(Connections) /\ b \in Seq(Connections)
  BY <1>1, ConnectIs
<1>3. S!ConnectAll(data) = a \o b
  BY DEF S!ConnectAll
<1> HIDE DEF a, b
<1> QED BY <1>2, <1>3, JoinFacts

\* What the calls of gupnp_service_signals_autoconnect() connect, in order
ConnectedBy(calls) == [i \in DOMAIN calls |-> S!ConnectAll(calls[i])]

LEMMA ConnectedByIs ==
  ASSUME scpd \in ServiceDocuments, NEW calls \in Seq(UserData)
  PROVE  ConnectedBy(calls) \in Seq(Seq(Connections)) /\ Len(ConnectedBy(calls)) = Len(calls)
<1> DEFINE r == ConnectedBy(calls)
<1>1. r = [i \in DOMAIN calls |-> S!ConnectAll(calls[i])]
  BY DEF ConnectedBy
<1>2. \A i \in DOMAIN calls : calls[i] \in UserData
  BY Zenon, Indices
<1>3. \A i \in DOMAIN calls : r[i] \in Seq(Connections)
  BY <1>1, <1>2, ConnectAllIs
<1> HIDE DEF r
<1>4. r = [i \in DOMAIN calls |-> r[i]]
  BY <1>1
<1>5. r \in Seq(Seq(Connections)) /\ Len(r) = Len(calls)
  <2> DEFINE B == Seq(Connections)
  <2> HIDE DEF B
  <2>1. \A i \in DOMAIN calls : r[i] \in B
    BY <1>3 DEF B
  <2>2. r \in Seq(B) /\ Len(r) = Len(calls)
    BY <1>4, <2>1, EachOf
  <2> QED BY <2>2 DEF B
<1> QED BY <1>5 DEF r

\* One call more
LEMMA ConnectedByMore ==
  ASSUME scpd \in ServiceDocuments, NEW calls \in Seq(UserData), NEW data \in UserData
  PROVE  ConnectedBy(Append(calls, data)) = Append(ConnectedBy(calls), S!ConnectAll(data))
<1> DEFINE more == Append(calls, data)
           n == Len(calls)
           x == S!ConnectAll(data)
           B == Seq(Connections)
           r == ConnectedBy(more)
           q == Append(ConnectedBy(calls), x)
<1>1. /\ more \in Seq(UserData) /\ n \in Nat /\ Len(more) = n + 1 /\ more[n + 1] = data
      /\ \A i \in 1 .. n : more[i] = calls[i]
  BY AppendFacts
<1>2. ConnectedBy(calls) \in Seq(B) /\ Len(ConnectedBy(calls)) = n /\ x \in B
  BY ConnectedByIs, ConnectAllIs
<1>3. /\ q \in Seq(B) /\ Len(q) = n + 1 /\ q[n + 1] = x
      /\ \A i \in 1 .. n : q[i] = ConnectedBy(calls)[i]
  <2> HIDE DEF B, x
  <2> QED BY <1>2, AppendFacts
<1>4. DOMAIN calls = 1 .. n /\ DOMAIN more = 1 .. n + 1
  <2> HIDE DEF more
  <2> QED BY <1>1, Indices
<1>5. r = [i \in 1 .. n + 1 |-> S!ConnectAll(more[i])]
  BY Zenon, <1>4 DEF ConnectedBy
<1>6. \A i \in 1 .. n : ConnectedBy(calls)[i] = S!ConnectAll(calls[i])
  BY <1>4 DEF ConnectedBy
<1> HIDE DEF more, q, r, x, B
<1>7. \A i \in 1 .. n + 1 : q[i] = S!ConnectAll(more[i])
  <2>1. \A i \in 1 .. n : q[i] = S!ConnectAll(more[i])
    BY <1>1, <1>3, <1>6
  <2>2. q[n + 1] = S!ConnectAll(more[n + 1])
    BY <1>1, <1>3 DEF x
  <2>3. \A i \in 1 .. n + 1 : i \in 1 .. n \/ i = n + 1
    BY <1>1
  <2> QED BY <2>1, <2>2, <2>3
<1>8. q = [i \in 1 .. n + 1 |-> q[i]]
  <2>1. DOMAIN q = 1 .. n + 1 /\ q = [i \in DOMAIN q |-> q[i]]
    BY <1>3, Indices
  <2> QED BY <2>1
<1>9. r = q
  BY <1>5, <1>7, <1>8
<1> QED BY <1>9 DEF r, q, x, more

-----------------------------------------------------------------------------
(* ServiceDescription: the inductive invariant.                            *)

\* The calls of gupnp_service_signals_autoconnect() wait until the introspection is
\* there, the last one first; then all have been connected in their order.
Awaiting ==
    /\ Len(pending_autoconnect) = Len(autoconnects)
    /\ \A i \in 1 .. Len(autoconnects) :
           pending_autoconnect[i] = autoconnects[Len(autoconnects) + 1 - i]
Handled == S!FlattenSeq(ConnectedBy(autoconnects))

ServiceInv ==
    /\ scpd \in ServiceDocuments /\ state \in {"pending", "ready", "failed"}
    /\ pending_autoconnect \in Seq(UserData) /\ autoconnects \in Seq(UserData)
    /\ state = "ready" => connected = Handled /\ pending_autoconnect = <<>>
    /\ state # "ready" => connected = <<>> /\ Awaiting
    /\ S!Range(state_variables) \subseteq S!Range(S!NamesIn(scpd.variables))
    /\ answer.call \in {"none", "names", "value", "strip"}
    /\ S!LookupAgrees /\ S!StripFits

\* All that is connected belongs to calls that were made.
LEMMA HandledIs ==
  ASSUME scpd \in ServiceDocuments, autoconnects \in Seq(UserData)
  PROVE  Handled \in Seq(Connections) /\ (autoconnects = <<>> => Handled = <<>>)
<1>1. ConnectedBy(autoconnects) \in Seq(Seq(Connections))
      /\ Len(ConnectedBy(autoconnects)) = Len(autoconnects)
  BY ConnectedByIs
<1> DEFINE r == ConnectedBy(autoconnects)
<1> HIDE DEF r
<1>2. r \in Seq(Seq(Connections)) /\ (autoconnects = <<>> => r = <<>>)
  <2>1. autoconnects = <<>> => Len(autoconnects) = 0
    OBVIOUS
  <2>2. r \in Seq(Seq(Connections)) /\ Len(r) = Len(autoconnects)
    BY <1>1 DEF r
  <2>3. Len(r) = 0 => r = <<>>
    <3> DEFINE B == Seq(Connections)
    <3> HIDE DEF B
    <3>1. r \in Seq(B)
      BY <2>2 DEF B
    <3> QED BY <3>1
  <2> QED BY <2>1, <2>2, <2>3
<1>3. <<>> \in Seq(Connections)
  OBVIOUS
<1>4. S!FlattenSeq(r) \in Seq(Connections) /\ (r = <<>> => S!FlattenSeq(r) = <<>>)
  BY <1>2, <1>3, FlattenFacts
<1> QED BY <1>2, <1>4 DEF Handled, r

LEMMA ServiceInvTells == ServiceInv => S!TypeOK /\ S!ConnectedInOrder
<1> SUFFICES ASSUME ServiceInv PROVE S!TypeOK /\ S!ConnectedInOrder
  OBVIOUS
<1>1. pending_autoconnect \in Seq(UserData) /\ autoconnects \in Seq(UserData)
      /\ scpd \in ServiceDocuments
  BY DEF ServiceInv
<1>2. S!Range(pending_autoconnect) \subseteq UserData /\ S!Range(autoconnects) \subseteq UserData
  BY <1>1, RangeIs, MembersType
<1>3. connected \in Seq(Connections)
  <2>1. Handled \in Seq(Connections)
    BY <1>1, HandledIs
  <2>2. <<>> \in Seq(Connections)
    OBVIOUS
  <2> QED BY <2>1, <2>2 DEF ServiceInv
<1>4. \A i \in DOMAIN connected : connected[i].data \in UserData
  <2>1. \A i \in DOMAIN connected : connected[i] \in Connections
    BY Zenon, <1>3, Indices
  <2> QED BY <2>1 DEF Connections
<1>5. S!ConnectedInOrder
  BY DEF ServiceInv, S!ConnectedInOrder, Handled, ConnectedBy, Awaiting
<1>6. S!TypeOK
  BY <1>2, <1>4 DEF ServiceInv, S!TypeOK
<1> QED BY <1>5, <1>6

\* The introspection is that of the description.
LEMMA SameIntrospection ==
  ASSUME scpd' = scpd
  PROVE  S!StateVariables' = S!StateVariables /\ S!Actions' = S!Actions
<1>1. S!StateVariables' = S!StateVariables
  BY Zenon DEF S!StateVariables
<1>2. S!Actions' = S!Actions
  BY Zenon DEF S!Actions
<1> QED BY <1>1, <1>2

LEMMA SameAnswer ==
  ASSUME S!LookupAgrees, S!StripFits, scpd' = scpd, answer' = answer
  PROVE  S!LookupAgrees' /\ S!StripFits'
<1>1. S!LookupAgrees'
  BY Zenon, SameIntrospection DEF S!LookupAgrees
<1>2. S!StripFits'
  BY Zenon DEF S!StripFits
<1> QED BY <1>1, <1>2

LEMMA SameHandled ==
  ASSUME scpd' = scpd, autoconnects' = autoconnects
  PROVE  Handled' = Handled /\ \A data : S!ConnectAll(data)' = S!ConnectAll(data)
<1>1. S!StateVariables' = S!StateVariables /\ S!Actions' = S!Actions
  BY SameIntrospection
<1>2. \A data : S!ConnectAll(data)' = S!ConnectAll(data)
  BY Zenon, <1>1 DEF S!ConnectAll
<1>3. ConnectedBy(autoconnects)' = ConnectedBy(autoconnects)
  BY Zenon, <1>2 DEF ConnectedBy
<1> QED BY Zenon, <1>2, <1>3 DEF Handled

\* gupnp_service_signals_autoconnect()
LEMMA AutoconnectKeeps ==
  ASSUME ServiceInv, NEW data \in UserData, S!Autoconnect(data)
  PROVE  ServiceInv'
<1> DEFINE n == Len(autoconnects)
<1>1. /\ autoconnects' = Append(autoconnects, data)
      /\ scpd' = scpd /\ state' = state /\ state_variables' = state_variables
      /\ answer' = answer
      /\ state = "ready" => /\ connected' = connected \o S!ConnectAll(data)
                            /\ pending_autoconnect' = pending_autoconnect
      /\ state # "ready" => /\ pending_autoconnect' = <<data>> \o pending_autoconnect
                            /\ connected' = connected
  BY DEF S!Autoconnect
<1>2. /\ scpd \in ServiceDocuments /\ autoconnects \in Seq(UserData)
      /\ pending_autoconnect \in Seq(UserData)
  BY DEF ServiceInv
<1>3. /\ autoconnects' \in Seq(UserData) /\ n \in Nat /\ Len(autoconnects') = n + 1
      /\ autoconnects'[n + 1] = data
      /\ \A i \in 1 .. n : autoconnects'[i] = autoconnects[i]
  BY <1>1, <1>2, AppendFacts
<1>4. \A d : S!ConnectAll(d)' = S!ConnectAll(d)
  BY Zenon, <1>1, SameIntrospection DEF S!ConnectAll
<1>5. Handled' = Handled \o S!ConnectAll(data)
  <2> DEFINE lists == ConnectedBy(autoconnects)
             more == S!ConnectAll(data)
  <2>1. lists \in Seq(Seq(Connections)) /\ more \in Seq(Connections)
    BY <1>2, ConnectedByIs, ConnectAllIs
  <2>2. ConnectedBy(autoconnects)' = Append(lists, more)
    <3>1. ConnectedBy(autoconnects)' = ConnectedBy(autoconnects')
      BY Zenon, <1>4 DEF ConnectedBy
    <3> QED BY <1>1, <1>2, <3>1, ConnectedByMore
  <2> HIDE DEF lists, more
  <2>3. S!FlattenSeq(Append(lists, more)) = S!FlattenSeq(lists) \o more
    BY <2>1, FlattenFacts
  <2>4. Handled' = S!FlattenSeq(Append(lists, more))
    BY Zenon, <2>2 DEF Handled
  <2> QED BY <2>3, <2>4 DEF Handled, lists, more
<1>6. state = "ready" => connected' = Handled' /\ pending_autoconnect' = <<>>
  <2> HIDE DEF n
  <2> QED BY <1>1, <1>5 DEF ServiceInv
<1>7. state # "ready" => connected' = <<>> /\ Awaiting' /\ pending_autoconnect' \in Seq(UserData)
  <2> SUFFICES ASSUME state # "ready"
               PROVE  connected' = <<>> /\ Awaiting' /\ pending_autoconnect' \in Seq(UserData)
    OBVIOUS
  <2>1. connected = <<>> /\ Awaiting
    BY DEF ServiceInv
  <2> DEFINE one == <<data>>
             old == pending_autoconnect
  <2>2. one \in Seq(UserData) /\ Len(one) = 1 /\ one[1] = data
    <3>1. one \in Seq(UserData)
      BY ListOfOne
    <3> QED BY <3>1
  <2> HIDE DEF one, old
  <2>3. /\ one \o old \in Seq(UserData) /\ Len(one \o old) = 1 + Len(old)
        /\ Len(old) \in Nat
        /\ \A j \in 1 .. 1 + Len(old) : (one \o old)[j] = IF j <= 1 THEN one[j] ELSE old[j - 1]
    <3>1. old \in Seq(UserData)
      BY <1>2 DEF old
    <3>2. /\ one \o old \in Seq(UserData) /\ Len(one \o old) = Len(one) + Len(old)
          /\ Len(old) \in Nat
          /\ \A j \in 1 .. Len(one) + Len(old) :
                (one \o old)[j] = IF j <= Len(one) THEN one[j] ELSE old[j - Len(one)]
      BY Zenon, <2>2, <3>1, JoinFacts
    <3> QED BY <2>2, <3>2
  <2>4. pending_autoconnect' = one \o old
    BY <1>1 DEF one, old
  <2>5. Len(old) = n /\ \A i \in 1 .. n : old[i] = autoconnects[n + 1 - i]
    BY <2>1 DEF Awaiting, old
  <2>6. Len(pending_autoconnect') = n + 1
    BY <1>3, <2>3, <2>4, <2>5
  <2>7. ASSUME NEW i \in 1 .. n + 1
        PROVE  pending_autoconnect'[i] = autoconnects'[(n + 1) + 1 - i]
    <3>1. CASE i = 1
      <4>1. pending_autoconnect'[1] = data
        BY <1>3, <2>2, <2>3, <2>4, <2>5
      <4>2. (n + 1) + 1 - 1 = n + 1
        BY <1>3
      <4> QED BY <1>3, <3>1, <4>1, <4>2
    <3>2. CASE i # 1
      <4>1. i - 1 \in 1 .. n /\ ~(i <= 1) /\ n + 1 - (i - 1) \in 1 .. n
            /\ n + 1 - (i - 1) = (n + 1) + 1 - i
        BY <1>3, <3>2
      <4>2. pending_autoconnect'[i] = old[i - 1]
        <5>1. i \in 1 .. 1 + Len(old)
          BY <1>3, <2>5
        <5> QED BY <2>3, <2>4, <4>1, <5>1
      <4>3. old[i - 1] = autoconnects[n + 1 - (i - 1)]
        BY <2>5, <4>1
      <4> QED BY <1>3, <4>1, <4>2, <4>3
    <3> QED BY <3>1, <3>2
  <2>8. Awaiting'
    <3>1. Len(autoconnects') = n + 1
      BY <1>3
    <3> HIDE DEF n
    <3>2. \A i \in 1 .. Len(autoconnects)' :
             pending_autoconnect'[i] = autoconnects'[Len(autoconnects)' + 1 - i]
      BY <2>7, <3>1
    <3> QED BY <2>6, <3>1, <3>2 DEF Awaiting
  <2> QED BY <1>1, <2>1, <2>3, <2>4, <2>8
<1>8. S!LookupAgrees' /\ S!StripFits'
  BY <1>1, SameAnswer DEF ServiceInv
<1>9. pending_autoconnect' \in Seq(UserData)
  BY <1>1, <1>2, <1>7
<1>10. S!Range(state_variables)' \subseteq S!Range(S!NamesIn(scpd.variables))'
  BY Zenon, <1>1 DEF ServiceInv
<1>11. /\ scpd' \in ServiceDocuments /\ state' \in {"pending", "ready", "failed"}
       /\ answer'.call \in {"none", "names", "value", "strip"} /\ state' = state
  BY <1>1 DEF ServiceInv
<1> HIDE DEF n
<1> QED BY Zenon, <1>3, <1>6, <1>7, <1>8, <1>9, <1>10, <1>11 DEF ServiceInv

\* got_introspection(): all the calls that waited are handled in their order.
LEMMA GotIntrospectionKeeps ==
  ASSUME ServiceInv, NEW loaded, S!GotIntrospection(loaded)
  PROVE  ServiceInv'
<1>1. /\ scpd' = scpd /\ autoconnects' = autoconnects /\ answer' = answer
      /\ state = "pending"
  BY DEF S!GotIntrospection
<1>2. /\ scpd \in ServiceDocuments /\ autoconnects \in Seq(UserData)
      /\ pending_autoconnect \in Seq(UserData)
      /\ connected = <<>> /\ Awaiting
  BY <1>1 DEF ServiceInv
<1>3. S!LookupAgrees' /\ S!StripFits'
  BY <1>1, SameAnswer DEF ServiceInv
<1>4. Handled' = Handled
  BY <1>1, SameHandled
<1>5. CASE loaded /\ S!Introspectable
  <2> DEFINE waiting == S!PendingInOrder
             wanted == {v \in S!Range(S!StateVariables) : v.send_events}
             evented == S!Among(S!StateVariables, wanted)
             names == S!Range(S!NamesIn(scpd.variables))
  <2>1. /\ state' = "ready" /\ pending_autoconnect' = <<>>
        /\ connected' = S!FlattenSeq([i \in DOMAIN waiting |-> S!ConnectAll(waiting[i])])
        /\ state_variables' = S!Reverse(S!NamesIn(evented))
    BY <1>5 DEF S!GotIntrospection
  <2>2. waiting = autoconnects
    <3> DEFINE n == Len(autoconnects)
               pending == pending_autoconnect
    <3>1. n \in Nat /\ Len(pending) = n /\ pending \in Seq(UserData)
          /\ \A i \in 1 .. n : pending[i] = autoconnects[n + 1 - i]
      BY <1>2 DEF Awaiting
    <3>2. waiting = S!Reverse(pending)
      BY DEF S!PendingInOrder
    <3> HIDE DEF waiting, pending
    <3>3. waiting \in Seq(UserData) /\ Len(waiting) = n
          /\ \A i \in 1 .. n : waiting[i] = pending[n + 1 - i]
      BY <3>1, <3>2, ReverseFacts
    <3>4. \A i \in 1 .. n : waiting[i] = autoconnects[i]
      <4>1. \A i \in 1 .. n : n + 1 - i \in 1 .. n /\ n + 1 - (n + 1 - i) = i
        BY <3>1
      <4> QED BY <3>1, <3>3, <4>1
    <3>5. /\ DOMAIN waiting = 1 .. n /\ waiting = [i \in DOMAIN waiting |-> waiting[i]]
          /\ DOMAIN autoconnects = 1 .. n
          /\ autoconnects = [i \in DOMAIN autoconnects |-> autoconnects[i]]
      BY <1>2, <3>3, Indices
    <3> HIDE DEF n
    <3>6. waiting = [i \in 1 .. n |-> waiting[i]] /\ autoconnects = [i \in 1 .. n |-> autoconnects[i]]
      BY Zenon, <3>5
    <3> QED BY <3>4, <3>6
  <2>3. connected' = Handled
    BY Zenon, <2>1, <2>2 DEF Handled, ConnectedBy
  <2>4. S!Range(state_variables') \subseteq names
    <3> HIDE DEF wanted
    <3>1. PICK B : S!StateVariables \in Seq(B) /\ \A x \in B : x.name \in names /\ x.name # ""
      BY <1>2, StateVariablesAre DEF HasNames
    <3>2. evented \in Seq(B)
      BY <3>1, AmongFacts
    <3> HIDE DEF evented, names
    <3>3. HasNames(evented, names)
      BY <3>1, <3>2 DEF HasNames
    <3>4. S!NamesIn(evented) \in Seq(names)
      BY <3>3, NamesAre
    <3>5. state_variables' \in Seq(names)
      BY <2>1, <3>4, ReverseFacts
    <3> QED BY <3>5, RangeIs, MembersType
  <2>5. S!Range(S!NamesIn(scpd.variables))' = names
    BY Zenon, <1>1
  <2>6. S!Range(state_variables)' \subseteq S!Range(S!NamesIn(scpd.variables))'
    BY Zenon, <2>4, <2>5
  <2>7. <<>> \in Seq(UserData)
    OBVIOUS
  <2> HIDE DEF names, waiting
  <2>8. pending_autoconnect' \in Seq(UserData) /\ state' \in {"pending", "ready", "failed"}
        /\ answer'.call \in {"none", "names", "value", "strip"}
    BY <1>1, <2>1, <2>7 DEF ServiceInv
  <2>9. connected' = Handled' /\ pending_autoconnect' = <<>> /\ state' = "ready"
    BY <1>4, <2>1, <2>3
  <2> QED BY Zenon, <1>1, <1>2, <1>3, <2>6, <2>8, <2>9 DEF ServiceInv
<1>6. CASE ~(loaded /\ S!Introspectable)
  <2>1. /\ state' = "failed" /\ connected' = connected
        /\ pending_autoconnect' = pending_autoconnect /\ state_variables' = state_variables
    BY <1>6 DEF S!GotIntrospection
  <2>2. S!Range(state_variables)' \subseteq S!Range(S!NamesIn(scpd.variables))'
    BY Zenon, <1>1, <2>1 DEF ServiceInv
  <2>3. Awaiting'
    BY <1>1, <1>2, <2>1 DEF Awaiting
  <2>4. state' # "ready" /\ state' \in {"pending", "ready", "failed"}
        /\ answer'.call \in {"none", "names", "value", "strip"}
    BY <1>1, <2>1 DEF ServiceInv
  <2> QED BY Zenon, <1>1, <1>2, <1>3, <2>1, <2>2, <2>3, <2>4 DEF ServiceInv
<1> QED BY <1>5, <1>6

\* A question is answered.
LEMMA AskedKeeps ==
  ASSUME ServiceInv, NEW a, S!Asked(a), a.call \in {"names", "value", "strip"},
         S!LookupAgrees', S!StripFits'
  PROVE  ServiceInv'
<1>1. /\ scpd' = scpd /\ state' = state /\ pending_autoconnect' = pending_autoconnect
      /\ connected' = connected /\ state_variables' = state_variables
      /\ autoconnects' = autoconnects /\ answer' = a
  BY DEF S!Asked
<1>2. Handled' = Handled
  BY <1>1, SameHandled
<1>3. Awaiting' <=> Awaiting
  BY Zenon, <1>1 DEF Awaiting
<1>4. S!Range(state_variables)' \subseteq S!Range(S!NamesIn(scpd.variables))'
  BY Zenon, <1>1 DEF ServiceInv
<1>5. answer'.call \in {"none", "names", "value", "strip"}
  BY <1>1
<1> QED BY Zenon, <1>1, <1>2, <1>3, <1>4, <1>5 DEF ServiceInv

\* Written() of a name fits Room().
LEMMA WrittenFits ==
  ASSUME NEW T, NEW name \in Seq(T), name # <<>>
  PROVE  S!Written(name) <= S!Room(name)
<1> DEFINE n == Len(name)
           under == S!Underscores(name)
<1>1. n \in Nat /\ n # 0 /\ DOMAIN name = 1 .. n
  <2>1. Len(name) \in Nat /\ DOMAIN name = 1 .. Len(name)
    BY Zenon, Indices
  <2>2. Len(name) # 0
    OBVIOUS
  <2> QED BY <2>1, <2>2
<1>2. under \subseteq 2 .. n
  <2>1. under \subseteq DOMAIN name /\ \A i \in under : i # 1
    BY DEF S!Underscores
  <2> HIDE DEF under, n
  <2> QED BY <1>1, <2>1
<1>3. S!Written(name) = n + Cardinality(under) + 1 /\ S!Room(name) = 2 * n
  BY DEF S!Written, S!Room, Cardinality, S!Cardinality
<1> HIDE DEF n, under
<1>4. IsFiniteSet(2 .. n) /\ Cardinality(2 .. n) = n - 1
  <2>1. IsFiniteSet(2 .. n) /\ Cardinality(2 .. n) = IF 2 > n THEN 0 ELSE n - 2 + 1
    BY <1>1, FS_Interval
  <2> QED BY <1>1, <2>1
<1>5. Cardinality(under) <= n - 1 /\ Cardinality(under) \in Nat
  <2>1. IsFiniteSet(under) /\ Cardinality(under) <= Cardinality(2 .. n)
    BY <1>2, <1>4, FS_Subset
  <2> QED BY <1>4, <2>1, FS_CardinalityType
<1> QED BY <1>1, <1>3, <1>5

\* Every step keeps it.
LEMMA NextKeepsService == ServiceInv /\ S!Next => ServiceInv'
<1> SUFFICES ASSUME ServiceInv, S!Next PROVE ServiceInv'
  OBVIOUS
<1>1. ASSUME NEW data \in UserData, S!Autoconnect(data) PROVE ServiceInv'
  BY <1>1, AutoconnectKeeps
<1>2. ASSUME NEW loaded \in BOOLEAN, S!GotIntrospection(loaded) PROVE ServiceInv'
  BY <1>2, GotIntrospectionKeeps
<1>3. ASSUME NEW name, S!AskName(name) PROVE ServiceInv'
  <2> DEFINE a == [call |-> "names", name |-> name, action |-> S!GetAction(name),
                   variable |-> S!GetStateVariable(name)]
  <2>1. S!Asked(a)
    BY <1>3 DEF S!AskName
  <2>2. a.call = "names" /\ a.name = name /\ a.action = S!GetAction(name)
        /\ a.variable = S!GetStateVariable(name)
    OBVIOUS
  <2> HIDE DEF a
  <2>3. answer' = a /\ scpd' = scpd
    BY <2>1 DEF S!Asked
  <2>4. /\ HasNames(S!StateVariables, STRING) /\ HasNames(S!Actions, STRING)
    BY StateVariablesAre, ActionsAre DEF ServiceInv
  <2>5. a.variable # S!Null <=> a.name \in S!Range(S!NamesIn(S!StateVariables))
    BY <2>2, <2>4, FindIs DEF S!GetStateVariable
  <2>6. S!StateVariables # <<>> =>
            (a.action # S!Null <=> a.name \in S!Range(S!NamesIn(S!Actions)))
    BY <2>2, <2>4, FindIs DEF S!GetAction
  <2>7. S!LookupAgrees'
    <3>1. S!StateVariables' = S!StateVariables /\ S!Actions' = S!Actions
      BY <2>3, SameIntrospection
    <3>2. /\ answer'.variable # S!Null <=> answer'.name \in S!Range(S!NamesIn(S!StateVariables'))
          /\ S!StateVariables' # <<>> =>
               (answer'.action # S!Null <=> answer'.name \in S!Range(S!NamesIn(S!Actions')))
      BY Zenon, <2>3, <2>5, <2>6, <3>1
    <3> QED BY Zenon, <3>2 DEF S!LookupAgrees
  <2>8. S!StripFits'
    BY <2>2, <2>3 DEF S!StripFits
  <2> QED BY <2>1, <2>2, <2>7, <2>8, AskedKeeps
<1>4. ASSUME NEW type, NEW text, S!AskValue(type, text) PROVE ServiceInv'
  <2>1. PICK a : S!Asked(a) /\ a.call = "value"
    <3> DEFINE v == S!SetValueFromString(type, text)
               b == <<S!SetValueFromString(type, S!AppendToXml(type, v))>>
               c == <<v>>
               a == [call |-> "value", type |-> type, value |-> c, back |-> b]
    <3>1. S!Asked(a)
      BY Zenon, <1>4 DEF S!AskValue
    <3> HIDE DEF v, b, c
    <3>2. a.call = "value"
      OBVIOUS
    <3> QED BY <3>1, <3>2
  <2>2. answer' = a
    BY <2>1 DEF S!Asked
  <2>3. S!LookupAgrees' /\ S!StripFits'
    BY <2>1, <2>2 DEF S!LookupAgrees, S!StripFits
  <2> QED BY <2>1, <2>3, AskedKeeps
<1>5. ASSUME NEW name \in CamelNames, S!AskStripped(name) PROVE ServiceInv'
  <2> DEFINE a == [call |-> "strip", name |-> name, room |-> S!Room(name),
                   written |-> S!Written(name)]
  <2>1. S!Asked(a)
    BY <1>5 DEF S!AskStripped
  <2>2. a.call = "strip" /\ a.name = name /\ a.room = S!Room(name)
        /\ a.written = S!Written(name)
    OBVIOUS
  <2> HIDE DEF a
  <2>3. answer' = a
    BY <2>1 DEF S!Asked
  <2>4. name # <<>> => S!Written(name) <= S!Room(name)
    BY ServiceAssumption, WrittenFits
  <2>5. S!LookupAgrees' /\ S!StripFits'
    BY <2>2, <2>3, <2>4 DEF S!LookupAgrees, S!StripFits
  <2> QED BY <2>1, <2>2, <2>5, AskedKeeps
<1> QED BY Zenon, <1>1, <1>2, <1>3, <1>4, <1>5 DEF S!Next

LEMMA InitService == scpd \in ServiceDocuments /\ S!Init => ServiceInv
<1> SUFFICES ASSUME S!Init PROVE ServiceInv
  OBVIOUS
<1>1. /\ scpd \in ServiceDocuments /\ state = "pending" /\ pending_autoconnect = <<>>
      /\ connected = <<>> /\ state_variables = <<>> /\ autoconnects = <<>>
      /\ answer.call = "none"
  BY DEF S!Init, S!NoAnswer
<1>2. <<>> \in Seq(UserData) /\ Awaiting
  BY <1>1 DEF Awaiting
<1>3. S!Range(state_variables) = {}
  BY <1>1 DEF S!Range
<1>4. S!LookupAgrees /\ S!StripFits
  BY <1>1 DEF S!LookupAgrees, S!StripFits
<1> QED BY Zenon, <1>1, <1>2, <1>3, <1>4 DEF ServiceInv

InService == part = "service description" => ServiceInv

LEMMA ServiceInvIsInductive == Spec => []InService
<1>1. Init => InService
  BY InitService DEF Init, InService, S!Init
<1>2. InService /\ [Next]_vars => InService'
  <2> SUFFICES ASSUME InService, [Next]_vars, part' = "service description" PROVE ServiceInv'
    BY DEF InService
  <2>1. CASE SStep
    BY <2>1, NextKeepsService DEF SStep, InService
  <2>2. CASE UNCHANGED vars
    <3>1. /\ ServiceInv /\ scpd' = scpd /\ state' = state /\ connected' = connected
          /\ pending_autoconnect' = pending_autoconnect /\ answer' = answer
          /\ state_variables' = state_variables /\ autoconnects' = autoconnects
      BY <2>2 DEF vars, svars, InService
    <3>2. Handled' = Handled /\ S!LookupAgrees' /\ S!StripFits'
      BY <3>1, SameHandled, SameAnswer DEF ServiceInv
    <3>3. Awaiting' <=> Awaiting
      BY Zenon, <3>1 DEF Awaiting
    <3>4. S!Range(state_variables)' \subseteq S!Range(S!NamesIn(scpd.variables))'
      BY Zenon, <3>1 DEF ServiceInv
    <3> QED BY Zenon, <3>1, <3>2, <3>3, <3>4 DEF ServiceInv
  <2>3. CASE NStep \/ IStep \/ WStep \/ DStep \/ HStep \/ CStep \/ PStep
    BY Zenon, <2>3 DEF NStep, IStep, WStep, DStep, HStep, CStep, PStep
  <2> QED BY <2>1, <2>2, <2>3 DEF Next
<1> QED BY <1>1, <1>2, PTL DEF Spec

\* HandlersConnected: each call of gupnp_service_signals_autoconnect() connects the
\* handlers of its names once, in the order of the calls, whether it comes before the
\* description or after it; a name is found exactly if the list has it; and a name in
\* another case fits the memory that is allocated for it.
THEOREM HandlersAreConnected == Spec => []HandlersConnected
<1>1. InService => HandlersConnected
  BY ServiceInvTells DEF InService, HandlersConnected, ServiceInv
<1> QED BY <1>1, ServiceInvIsInductive, PTL

-----------------------------------------------------------------------------
(* Descriptions: types.                                                    *)

\* The factory's table keeps to the types and classes that are registered.
LEMMA DescriptionsTypes ==
  ASSUME D!TypeOK, D!Next
  PROVE  D!TypeOK'
<1>1. /\ doc' = doc /\ side' = side
      /\ root_alive' \in BOOLEAN
      /\ answer'.call \in {"none", "list", "get", "icon", "discover"}
  <2>1. ASSUME NEW t, NEW c, D!Register(t, c) PROVE <1>1!:
    BY <2>1 DEF D!TypeOK, D!Register, D!NoAnswer
  <2>2. ASSUME NEW t, D!Unregister(t) PROVE <1>1!:
    BY <2>2 DEF D!TypeOK, D!Unregister, D!NoAnswer
  <2>3. ASSUME NEW info, D!AskList(info) PROVE <1>1!:
    BY <2>3 DEF D!TypeOK, D!AskList
  <2>4. ASSUME NEW info, NEW query, D!AskGet(info, query) PROVE <1>1!:
    BY <2>4 DEF D!TypeOK, D!AskGet
  <2>5. CASE D!RootGone
    BY <2>5 DEF D!TypeOK, D!RootGone, D!NoAnswer
  <2>6. ASSUME NEW info, NEW q, D!AskIcon(info, q) PROVE <1>1!:
    BY <2>6 DEF D!TypeOK, D!AskIcon
  <2>7. ASSUME NEW usn, D!Discover(usn) PROVE <1>1!:
    BY <2>7 DEF D!TypeOK, D!Discover
  <2> QED BY Zenon, <2>1, <2>2, <2>3, <2>4, <2>5, <2>6, <2>7 DEF D!Next
<1>2. \A f : D!Range(f) = {f[x] : x \in DOMAIN f}
  BY DEF D!Range
<1>3. CASE \E t \in Registered, c \in Classes : D!Register(t, c)
  <2>1. PICK t \in Registered, c \in Classes :
              types' = [u \in DOMAIN types \cup {t} |-> IF u = t THEN c ELSE types[u]]
    BY <1>3 DEF D!Register
  <2>2. DOMAIN types' \subseteq Registered
    BY <2>1 DEF D!TypeOK
  <2>3. \A u \in DOMAIN types' : types'[u] \in Classes
    BY <2>1, <1>2 DEF D!TypeOK
  <2>4. D!Range(types') \subseteq Classes
    BY <2>3, <1>2
  <2> QED BY <1>1, <2>2, <2>4 DEF D!TypeOK
<1>4. CASE \E t \in Registered : D!Unregister(t)
  <2>1. PICK t \in Registered : types' = [u \in DOMAIN types \ {t} |-> types[u]]
    BY <1>4 DEF D!Unregister
  <2>2. DOMAIN types' \subseteq Registered
    BY <2>1 DEF D!TypeOK
  <2>3. \A u \in DOMAIN types' : types'[u] \in Classes
    BY <2>1, <1>2 DEF D!TypeOK
  <2>4. D!Range(types') \subseteq Classes
    BY <2>3, <1>2
  <2> QED BY <1>1, <2>2, <2>4 DEF D!TypeOK
<1>5. CASE types' = types
  BY <1>1, <1>5 DEF D!TypeOK
<1> QED BY <1>3, <1>4, <1>5
        DEF D!Next, D!AskList, D!AskGet, D!RootGone, D!AskIcon, D!Discover

\* A table that is empty at first
LEMMA InitDescriptions == D!Init => D!TypeOK
<1>1. D!Range(<<>>) = {}
  BY DEF D!Range
<1> QED BY <1>1 DEF D!Init, D!TypeOK, D!NoAnswer

-----------------------------------------------------------------------------
(* Descriptions: types and what is found for them.                         *)

\* The lists of Descriptions are those of ServiceDescription.
LEMMA SameLists ==
  /\ \A s, T : D!Among(s, T) = S!Among(s, T) /\ D!Position(s, T) = S!Position(s, T)
  /\ \A s : D!Reverse(s) = S!Reverse(s) /\ D!Range(s) = S!Range(s)
<1>1. \A s, T : D!Among(s, T) = S!Among(s, T)
  BY Zenon DEF D!Among, S!Among
<1>2. \A s, T : D!Position(s, T) = S!Position(s, T)
  BY Zenon DEF D!Position, S!Position
<1>3. \A s : D!Reverse(s) = S!Reverse(s)
  BY Zenon DEF D!Reverse, S!Reverse
<1>4. \A s : D!Range(s) = S!Range(s)
  BY Zenon DEF D!Range, S!Range
<1> QED BY <1>1, <1>2, <1>3, <1>4

\* resource_type_match() of two versioned types compares all parts but the last, and
\* the versions.
LEMMA MatchIs ==
  ASSUME NEW query, NEW type, D!Versioned(query), D!Versioned(type)
  PROVE  D!ResourceTypeMatch(query, type) <=> D!Satisfies(query, type)
<1> DEFINE q == query[5]
           t == type[5]
<1>1. Len(query) = 5 /\ Len(type) = 5 /\ D!Atoi(q) > 0 /\ D!Atoi(t) > 0
  BY DEF D!Versioned, D!Last
<1>2. q # "" /\ t # ""
  <2>1. D!Atoi("") = 0
    BY DescriptionAssumption DEF D!Atoi
  <2>2. ~(0 > 0)
    OBVIOUS
  <2> QED BY Zenon, <1>1, <2>1, <2>2
<1> DEFINE front == SubSeq(query, 1, 4) = SubSeq(type, 1, 4)
<1>3. D!Satisfies(query, type) <=> front /\ D!Atoi(q) <= D!Atoi(t)
  BY <1>1 DEF D!Satisfies, D!Front, D!Last
<1>4. D!ResourceTypeMatch(query, type) <=>
          \/ /\ front
             /\ \/ t = ""
                \/ Len(query) = 4 \/ q = ""
                \/ D!Atoi(q) <= D!Atoi(t)
          \/ /\ t = ""
             /\ SubSeq(query, 1, 3) = SubSeq(type, 1, 3) /\ <<query[4], type[4]>> \in Begins
  BY <1>1 DEF D!ResourceTypeMatch, D!Front
<1> HIDE DEF q, t, front
<1>5. Len(query) # 4
  BY <1>1
<1> QED BY Zenon, <1>2, <1>3, <1>4, <1>5

\* An object is created, except for an embedded device of a root device that is gone.
LEMMA CreateIs ==
  ASSUME NEW info, NEW kind, NEW type
  PROVE  LET r == D!Create(info, kind, type)
         IN /\ r # D!Null => r = D!Instance(kind, type)
            /\ root_alive \/ side = "proxy" => r # D!Null
<1>1. D!Instance(kind, type) # D!Null
  <2>1. D!Instance(kind, type) = [class |-> D!LookupType(type, kind), type |-> type]
    BY DEF D!Instance
  <2>2. DOMAIN D!Instance(kind, type) = {"class", "type"}
    BY <2>1
  <2>3. DOMAIN D!Null = {"class"}
    BY DEF D!Null
  <2> QED BY <2>2, <2>3
<1> HIDE DEF D!Instance
<1> QED BY <1>1 DEF D!Create, D!CreateLocal

\* What is found for a type is an object of the first type of the list that matches.
LEMMA FirstMatchIs ==
  ASSUME NEW A, NEW all \in Seq(A), NEW info, NEW kind, NEW query
  PROVE  LET r == D!FirstMatch(info, kind, all, query)
             T == {t \in D!Range(all) \ {<<>>} : D!ResourceTypeMatch(query, t)}
         IN /\ r # D!Null => \E t \in T : r = D!Instance(kind, t)
            /\ root_alive \/ side = "proxy" => (r = D!Null <=> T = {})
<1> DEFINE T == {t \in D!Range(all) \ {<<>>} : D!ResourceTypeMatch(query, t)}
           at == D!Position(all, T)
           r == D!FirstMatch(info, kind, all, query)
<1>1. r = IF at = 0 THEN D!Null ELSE D!Create(info, kind, all[at])
  BY DEF D!FirstMatch
<1>2. \A t : t \in T => \E i \in DOMAIN all : all[i] = t
  BY DEF D!Range
<1> HIDE DEF T
<1>3. /\ at = 0 <=> \A i \in DOMAIN all : all[i] \notin T
      /\ at # 0 => at \in DOMAIN all /\ all[at] \in T
  BY PositionIs, SameLists
<1> HIDE DEF at, r
<1>4. at = 0 <=> T = {}
  <2>1. ASSUME at = 0, NEW t \in T PROVE FALSE
    <3>1. PICK i \in DOMAIN all : all[i] = t
      BY <1>2
    <3> QED BY Zenon, <1>3, <2>1, <3>1
  <2>2. ASSUME T = {} PROVE at = 0
    BY <1>3, <2>2
  <2> QED BY <2>1, <2>2
<1>5. CASE at = 0
  BY <1>1, <1>4, <1>5 DEF T, r
<1>6. CASE at # 0
  <2>1. /\ r # D!Null => r = D!Instance(kind, all[at])
        /\ root_alive \/ side = "proxy" => r # D!Null
    BY <1>1, <1>6, CreateIs
  <2> QED BY Zenon, <1>3, <1>4, <1>6, <2>1 DEF T, r
<1> QED BY <1>5, <1>6

LEMMA ShortList ==
  ASSUME NEW A, NEW s \in Seq(A)
  PROVE  /\ s # <<>> /\ Len(s) <= 1 => SubSeq(s, 1, Len(s) - 1) = <<>>
         /\ Len(s) > 1 => s # <<>>
         /\ Len(s) > 1 \/ Len(s) <= 1
OBVIOUS

\* The class of an object is that of its type, or else of the type without its version.
LEMMA ClassIs ==
  ASSUME D!TypeOK, NEW A, NEW type \in Seq(A), NEW kind
  PROVE  D!LookupType(type, kind) =
             IF type \in DOMAIN types THEN types[type]
             ELSE IF type # <<>> /\ D!Front(type) \in DOMAIN types
                  THEN types[D!Front(type)] ELSE D!Fallback(kind)
<1>1. <<>> \notin DOMAIN types
  BY DescriptionAssumption DEF D!TypeOK
<1>2. type # <<>> /\ Len(type) <= 1 => D!Front(type) = <<>>
  BY ShortList DEF D!Front
<1>3. Len(type) > 1 => type # <<>>
  BY ShortList
<1>4. Len(type) > 1 \/ Len(type) <= 1
  BY ShortList
<1>5. CASE type \in DOMAIN types
  BY <1>5 DEF D!LookupType
<1>6. CASE type \notin DOMAIN types /\ Len(type) > 1 /\ D!Front(type) \in DOMAIN types
  BY <1>3, <1>6 DEF D!LookupType
<1>7. CASE type \notin DOMAIN types /\ ~(Len(type) > 1 /\ D!Front(type) \in DOMAIN types)
  <2>1. D!LookupType(type, kind) = D!Fallback(kind)
    BY <1>7 DEF D!LookupType
  <2>2. ~(type # <<>> /\ D!Front(type) \in DOMAIN types)
    BY Zenon, <1>1, <1>2, <1>4, <1>7
  <2> QED BY <1>7, <2>1, <2>2
<1> QED BY <1>5, <1>6, <1>7

-----------------------------------------------------------------------------
(* Descriptions: icons.                                                    *)

\* One of the icons is the lightest, if there are any.
LEMMA LightestIs ==
  ASSUME NEW A, NEW s \in Seq(A), NEW w
  PROVE  /\ D!Lightest(s, w) \in {<<>>} \cup {<<x>> : x \in Members(s)}
         /\ D!Lightest(s, w) = <<>> <=> s = <<>>
<1> DEFINE Q == Len(s)
           K == {<<>>} \cup {<<x>> : x \in Members(s)}
           New(x, n) == IF x = <<>> \/ w[s[n]] < w[x[1]] THEN <<s[n]>> ELSE x
           step == [p \in (1 .. Q) \X K |-> New(p[2], p[1])]
           best[n \in 0 .. Q] == IF n = 0 THEN <<>> ELSE New(best[n - 1], n)
<1>1. Q \in Nat /\ <<>> \in K /\ \A n \in 1 .. Q : <<s[n]>> \in K
  BY DEF Members
<1>2. \A n : <<s[n]>> # <<>>
  OBVIOUS
<1>3. ASSUME NEW x \in K, NEW n \in 1 .. Q PROVE New(x, n) \in K /\ New(x, n) # <<>>
  <2>1. New(x, n) = <<s[n]>> \/ (New(x, n) = x /\ x # <<>>)
    OBVIOUS
  <2> HIDE DEF New, K, Q
  <2> QED BY Zenon, <1>1, <1>2, <2>1
<1> HIDE DEF New, K, Q
<1>4. step \in [(1 .. Q) \X K -> K]
  BY <1>3
<1>5. PICK g : Repeats(g, K, <<>>, Q, step)
  <2> HIDE DEF step
  <2> QED BY <1>1, <1>4, Iteration
<1>6. g \in [0 .. Q -> K] /\ g[0] = <<>>
  BY <1>5 DEF Repeats
<1>7. ASSUME NEW n \in 1 .. Q PROVE g[n] = New(g[n - 1], n) /\ g[n - 1] \in K
  <2>1. g[n - 1] \in K
    BY <1>1, <1>6
  <2>2. g[n] = step[<<n, g[n - 1]>>]
    BY <1>5 DEF Repeats
  <2> QED BY <2>1, <2>2
<1>8. g = [n \in 0 .. Q |-> IF n = 0 THEN <<>> ELSE New(g[n - 1], n)]
  BY <1>6, <1>7
<1>9. best = [n \in 0 .. Q |-> IF n = 0 THEN <<>> ELSE New(best[n - 1], n)]
  BY <1>8
<1>10. D!Lightest(s, w) = best[Q]
  BY Zenon DEF D!Lightest, New, Q
<1> HIDE DEF best
<1>11. best[0] = <<>> /\ \A n \in 1 .. Q : best[n] = New(best[n - 1], n)
  BY <1>1, <1>9
<1> DEFINE Good == {n \in 0 .. Q : best[n] \in K /\ (n # 0 => best[n] # <<>>)}
<1>12. 0 \in Good
  BY <1>1, <1>11
<1>13. ASSUME NEW n \in 1 .. Q, n - 1 \in Good PROVE n \in Good
  BY <1>3, <1>11, <1>13
<1>14. Q \in Good
  <2>1. Q \in 0 .. Q BY <1>1
  <2> HIDE DEF Good
  <2> QED BY <1>1, <1>12, <1>13, <2>1, Induction
<1>15. Q = 0 <=> s = <<>>
  BY DEF Q
<1> QED BY <1>10, <1>11, <1>14, <1>15 DEF K

\* So is one the closest to what is asked for.
LEMMA ClosestIs ==
  ASSUME NEW A, NEW s \in Seq(A), NEW q
  PROVE  /\ D!Closest(s, q) \in {<<>>} \cup {<<x>> : x \in Members(s)}
         /\ D!Closest(s, q) = <<>> <=> s = <<>>
<1> DEFINE w == [icon \in D!Range(s) |-> D!Weight(icon, q)]
           T == {icon \in D!Range(s) : w[icon] >= 0}
           fitting == D!Among(s, T)
           any == q.width < 0 /\ q.height < 0
           r == D!Closest(s, q)
           down == [icon \in DOMAIN w |-> -w[icon]]
<1>1. \/ r = D!Lightest(s, w)
      \/ r = D!Lightest(s, down)
      \/ fitting # <<>> /\ r = D!Lightest(fitting, w)
  <2>1. D!Heaviest(s, w) = D!Lightest(s, down)
    BY DEF D!Heaviest
  <2>2. \/ r = D!Lightest(s, w)
        \/ r = D!Heaviest(s, w)
        \/ fitting # <<>> /\ r = D!Lightest(fitting, w)
    BY DEF D!Closest
  <2> QED BY Zenon, <2>1, <2>2
<1>2. fitting \in Seq(A) /\ Members(fitting) \subseteq Members(s)
  <2> HIDE DEF T
  <2>1. S!Among(s, T) \in Seq(A) /\ Members(S!Among(s, T)) = Members(s) \cap T
    BY AmongFacts
  <2>2. fitting = S!Among(s, T)
    BY Zenon, SameLists
  <2> HIDE DEF fitting
  <2> QED BY <2>1, <2>2
<1>3. fitting # <<>> => s # <<>>
  <2> HIDE DEF fitting
  <2>1. ASSUME s = <<>>, fitting # <<>> PROVE FALSE
    <3>1. Members(fitting) = {}
      BY <1>2, <2>1, EmptyMembers
    <3>2. fitting[1] \in Members(fitting)
      BY <1>2, <2>1 DEF Members
    <3> QED BY <3>1, <3>2
  <2> QED BY <2>1
<1> HIDE DEF w, down, fitting, r
<1>4. CASE r = D!Lightest(s, w)
  BY <1>4, LightestIs DEF r
<1>5. CASE r = D!Lightest(s, down)
  BY <1>5, LightestIs DEF r
<1>6. CASE fitting # <<>> /\ r = D!Lightest(fitting, w)
  <2>1. r \in {<<>>} \cup {<<x>> : x \in Members(fitting)} /\ r # <<>>
    BY <1>2, <1>6, LightestIs
  <2> QED BY <1>2, <1>3, <1>6, <2>1 DEF r
<1> QED BY <1>1, <1>4, <1>5, <1>6

\* An icon is returned exactly if one suits, and it does.
LEMMA GetIconIs ==
  ASSUME NEW A, NEW info, info.icons \in Seq(A), NEW q
  PROVE  LET suiting == {icon \in D!Range(info.icons) : D!Suits(icon, q)}
         IN /\ D!GetIcon(info, q) = <<>> <=> suiting = {}
            /\ D!Range(D!GetIcon(info, q)) \subseteq suiting
<1> DEFINE icons == info.icons
           T == {icon \in D!Range(icons) : D!Suits(icon, q)}
           some == D!Among(icons, T)
           turned == D!Reverse(some)
           r == D!GetIcon(info, q)
<1>1. r = D!Closest(turned, q)
  BY DEF D!GetIcon
<1>2. D!Range(icons) = Members(icons)
  BY SameLists, RangeIs
<1>3. T \subseteq D!Range(icons)
  OBVIOUS
<1> HIDE DEF T, icons
<1>4. some \in Seq(A) /\ Members(some) = T
  <2>1. S!Among(icons, T) \in Seq(A) /\ Members(S!Among(icons, T)) = Members(icons) \cap T
    BY AmongFacts DEF icons
  <2>2. some = S!Among(icons, T)
    BY Zenon, SameLists
  <2> HIDE DEF some
  <2> QED BY <1>2, <1>3, <2>1, <2>2
<1> HIDE DEF some
<1>5. turned \in Seq(A) /\ Members(turned) = T
  <2>1. turned = S!Reverse(some)
    BY Zenon, SameLists
  <2> HIDE DEF turned
  <2> QED BY <1>4, <2>1, ReverseFacts
<1> HIDE DEF turned, r
<1>6. turned = <<>> <=> T = {}
  <2>1. turned = <<>> => T = {}
    BY <1>5, EmptyMembers
  <2>2. ASSUME turned # <<>> PROVE T # {}
    <3>1. turned[1] \in Members(turned)
      BY <1>5, <2>2 DEF Members
    <3> QED BY <1>5, <3>1
  <2> QED BY <2>1, <2>2
<1>7. r \in {<<>>} \cup {<<x>> : x \in T} /\ (r = <<>> <=> turned = <<>>)
  BY <1>1, <1>5, ClosestIs
<1>8. D!Range(r) \subseteq T
  <2>1. CASE r = <<>>
    BY <2>1 DEF D!Range
  <2>2. CASE r # <<>>
    <3>1. PICK x \in T : r = <<x>>
      BY <1>7, <2>2
    <3> QED BY <3>1 DEF D!Range
  <2> QED BY <2>1, <2>2
<1> QED BY <1>6, <1>7, <1>8 DEF r, T, icons

-----------------------------------------------------------------------------
(* Descriptions: the inductive invariant.                                  *)

\* What was answered is what would be answered now.
DescriptionsInv ==
    /\ D!TypeOK
    /\ answer.call = "get" =>
           /\ answer.info \in D!AllDevices(doc)
           /\ answer.device = D!GetDevice(answer.info, answer.query)
           /\ answer.service = D!GetService(answer.info, answer.query)
    /\ answer.call = "icon" =>
           /\ answer.info \in D!AllDevices(doc) /\ answer.query \in IconRequests
           /\ answer.icon = D!GetIcon(answer.info, answer.query)

\* What the elements of a description have
LEMMA ElementIs ==
  ASSUME doc \in DeviceDocuments, NEW info \in D!AllDevices(doc)
  PROVE  /\ info.services \in Seq(D!Types) /\ D!DeviceTypes(info) \in Seq(D!Types)
         /\ info.icons \in Seq(D!Icons)
<1>1. D!IsElement(info)
  BY DescriptionAssumption
<1>2. /\ info.services \in Seq(D!Types) /\ info.icons \in Seq(D!Icons)
      /\ info.devices \in Seq(D!Range(info.devices))
      /\ \A d \in D!Range(info.devices) : d.type \in D!Types
  BY <1>1 DEF D!IsElement
<1> DEFINE r == D!DeviceTypes(info)
<1>3. r = [i \in DOMAIN info.devices |-> info.devices[i].type]
  BY DEF D!DeviceTypes
<1>4. \A i \in DOMAIN info.devices : info.devices[i] \in D!Range(info.devices)
  BY DEF D!Range
<1>5. \A i \in DOMAIN info.devices : r[i] \in D!Types
  BY <1>2, <1>3, <1>4
<1> HIDE DEF r
<1>6. r = [i \in DOMAIN info.devices |-> r[i]]
  BY <1>3
<1> DEFINE B == D!Types
           C1 == D!Range(info.devices)
           devices == info.devices
<1> HIDE DEF B, C1, devices
<1>7. devices \in Seq(C1) /\ r = [i \in DOMAIN devices |-> r[i]]
      /\ \A i \in DOMAIN devices : r[i] \in B
  BY <1>2, <1>5, <1>6 DEF B, C1, devices
<1>8. r \in Seq(B)
  BY <1>7, EachOf
<1> QED BY <1>2, <1>8 DEF r, B

\* What get_service() and get_device() found is in the list, satisfies the query and is
\* of its class.
LEMMA FoundIs ==
  ASSUME D!TypeOK, NEW A, NEW all \in Seq(A), NEW info, NEW kind, NEW query
  PROVE  LET r == D!FirstMatch(info, kind, all, query)
             wanted == {t \in D!Range(all) : D!Versioned(t) /\ D!Satisfies(query, t)}
         IN /\ D!Versioned(query) =>
                   /\ (root_alive \/ side = "proxy")
                      /\ (\A t \in D!Range(all) : t = <<>> \/ D!Versioned(t)) =>
                         (r = D!Null <=> wanted = {})
                   /\ r # D!Null /\ D!Versioned(r.type) => r.type \in wanted
            /\ r # D!Null => /\ r.type \in D!Range(all)
                             /\ r.class = D!LookupType(r.type, kind)
<1> DEFINE r == D!FirstMatch(info, kind, all, query)
           T == {t \in D!Range(all) \ {<<>>} : D!ResourceTypeMatch(query, t)}
           wanted == {t \in D!Range(all) : D!Versioned(t) /\ D!Satisfies(query, t)}
<1>1. /\ r # D!Null => \E t \in T : r = D!Instance(kind, t)
      /\ root_alive \/ side = "proxy" => (r = D!Null <=> T = {})
  BY FirstMatchIs
<1> HIDE DEF r
<1>2. \A t : D!Instance(kind, t).type = t /\ D!Instance(kind, t).class = D!LookupType(t, kind)
  BY DEF D!Instance
<1>3. r # D!Null => r.type \in T /\ r.class = D!LookupType(r.type, kind)
  BY Zenon, <1>1, <1>2
<1>4. ~D!Versioned(<<>>)
  <2>1. Len(<<>>) # 5
    OBVIOUS
  <2> QED BY <2>1 DEF D!Versioned
<1>5. ASSUME D!Versioned(query), NEW t, D!Versioned(t)
      PROVE  t \in T <=> t \in wanted
  <2>1. t # <<>> /\ (D!ResourceTypeMatch(query, t) <=> D!Satisfies(query, t))
    BY <1>4, <1>5, MatchIs
  <2> QED BY Zenon, <1>5, <2>1
<1>6. ASSUME D!Versioned(query), \A t \in D!Range(all) : t = <<>> \/ D!Versioned(t)
      PROVE  T = {} <=> wanted = {}
  <2>1. \A t \in T : D!Versioned(t)
    BY Zenon, <1>6
  <2>2. \A t \in wanted : D!Versioned(t)
    OBVIOUS
  <2> HIDE DEF T, wanted
  <2> QED BY <1>5, <1>6, <2>1, <2>2
<1>7. T \subseteq D!Range(all)
  OBVIOUS
<1> HIDE DEF T, wanted
<1> QED BY Zenon, <1>1, <1>3, <1>5, <1>6, <1>7 DEF r, wanted

LEMMA DescriptionsInvTells ==
  DescriptionsInv => D!GetAgreesWithList /\ D!MostSpecificClass /\ D!IconSuits
<1> SUFFICES ASSUME DescriptionsInv
             PROVE  D!GetAgreesWithList /\ D!MostSpecificClass /\ D!IconSuits
  OBVIOUS
<1>1. D!TypeOK /\ doc \in DeviceDocuments
  BY DEF DescriptionsInv, D!TypeOK
<1> DEFINE info == answer.info
           query == answer.query
           tall == D!DeviceTypes(info)
           sall == info.services
<1>2. ASSUME answer.call = "get"
      PROVE  /\ tall \in Seq(D!Types) /\ sall \in Seq(D!Types)
             /\ answer.device = D!FirstMatch(info, "Device", tall, query)
             /\ answer.service = D!FirstMatch(info, "Service", sall, query)
  <2>1. /\ info \in D!AllDevices(doc)
        /\ answer.device = D!GetDevice(info, query)
        /\ answer.service = D!GetService(info, query)
    BY <1>2 DEF DescriptionsInv
  <2> HIDE DEF info, query
  <2>2. tall \in Seq(D!Types) /\ sall \in Seq(D!Types)
    BY <1>1, <2>1, ElementIs
  <2> QED BY Zenon, <2>1, <2>2 DEF D!GetDevice, D!GetService
<1> HIDE DEF info, query, tall, sall
<1> DEFINE wanted(all) == {t \in D!Range(all) : D!Versioned(t) /\ D!Satisfies(query, t)}
           Agrees(r, all) ==
               /\ (\A t \in D!Range(all) : t = <<>> \/ D!Versioned(t)) =>
                      (r = D!Null <=> wanted(all) = {})
               /\ r # D!Null /\ D!Versioned(r.type) => r.type \in wanted(all)
           Right(r, kind) ==
               r.class = IF r.type \in DOMAIN types THEN types[r.type]
                         ELSE IF r.type # <<>> /\ D!Front(r.type) \in DOMAIN types
                         THEN types[D!Front(r.type)] ELSE D!Fallback(kind)
<1>3. ASSUME NEW A, NEW all \in Seq(A), NEW kind, NEW r,
             r = D!FirstMatch(info, kind, all, query)
      PROVE  D!Versioned(query) /\ (root_alive \/ side = "proxy") => Agrees(r, all)
  BY <1>1, <1>3, FoundIs
<1>4. ASSUME NEW A, NEW all \in Seq(Seq(A)), NEW kind, NEW r,
             r = D!FirstMatch(info, kind, all, query), r # D!Null
      PROVE  Right(r, kind)
  <2>1. r.type \in D!Range(all) /\ r.class = D!LookupType(r.type, kind)
    BY <1>1, <1>4, FoundIs
  <2>2. r.type \in Seq(A)
    <3> DEFINE B == Seq(A)
    <3> HIDE DEF B
    <3>1. D!Range(all) \subseteq B
      BY SameLists, RangeIs, MembersType DEF B
    <3> QED BY <2>1, <3>1 DEF B
  <2> QED BY <1>1, <2>1, <2>2, ClassIs
<1>5. D!GetAgreesWithList
  <2> SUFFICES ASSUME answer.call = "get", D!Versioned(query), root_alive \/ side = "proxy"
               PROVE  Agrees(answer.device, tall) /\ Agrees(answer.service, sall)
    BY DEF D!GetAgreesWithList, query, tall, sall, info
  <2> HIDE DEF Agrees
  <2> QED BY <1>2, <1>3
<1>6. D!MostSpecificClass
  <2> SUFFICES ASSUME answer.call = "get"
               PROVE  /\ answer.service # D!Null => Right(answer.service, "Service")
                      /\ answer.device # D!Null => Right(answer.device, "Device")
    BY DEF D!MostSpecificClass
  <2> HIDE DEF Right
  <2>1. tall \in Seq(Seq(STRING)) /\ sall \in Seq(Seq(STRING))
    BY <1>2 DEF D!Types
  <2> QED BY <1>2, <1>4, <2>1
<1>7. D!IconSuits
  <2> SUFFICES ASSUME answer.call = "icon" PROVE D!IconSuits
    BY DEF D!IconSuits
  <2>1. /\ info \in D!AllDevices(doc) /\ query \in IconRequests
        /\ answer.icon = D!GetIcon(info, query)
    BY DEF DescriptionsInv, info, query
  <2> DEFINE suiting == {icon \in D!Range(info.icons) : D!Suits(icon, query)}
             allowed == {icon \in D!Range(info.icons) :
                            /\ query.mime \in {"any", icon.mime}
                            /\ query.depth < 0 \/ icon.depth <= query.depth}
  <2>2. info.icons \in Seq(D!Icons)
    BY <1>1, <2>1, ElementIs
  <2>3. /\ answer.icon = <<>> <=> suiting = {}
        /\ D!Range(answer.icon) \subseteq suiting
    <3> HIDE DEF suiting
    <3> QED BY <2>1, <2>2, GetIconIs DEF suiting
  <2>4. suiting = allowed
    <3>1. D!Range(info.icons) \subseteq D!Icons
      BY <2>2, SameLists, RangeIs, MembersType
    <3>2. \A icon \in D!Icons : icon.depth \in Int
      BY DEF D!Icons
    <3>3. query.depth \in Int
      BY <2>1, DescriptionAssumption
    <3>4. ASSUME NEW icon, icon.depth \in Int
          PROVE  D!Suits(icon, query) <=> /\ query.mime \in {"any", icon.mime}
                                          /\ query.depth < 0 \/ icon.depth <= query.depth
      <4>1. D!DepthLeft(icon, query) >= 0 <=>
                query.depth < 0 \/ icon.depth <= query.depth
        BY <3>3, <3>4 DEF D!DepthLeft
      <4> QED BY Zenon, <4>1 DEF D!Suits
    <3> QED BY Zenon, <3>1, <3>2, <3>4
  <2> HIDE DEF suiting, allowed
  <2>5. (answer.icon = <<>> <=> allowed = {}) /\ D!Range(answer.icon) \subseteq allowed
    BY Zenon, <2>3, <2>4
  <2> QED BY Zenon, <2>5 DEF D!IconSuits, allowed, query, info
<1> QED BY <1>5, <1>6, <1>7

\* As long as the description, the side, the root device and the table are the same, so
\* is what would be answered.
LEMMA SameFound ==
  ASSUME doc' = doc, side' = side, root_alive' = root_alive, types' = types,
         NEW info, NEW query
  PROVE  /\ D!GetDevice(info, query)' = D!GetDevice(info, query)
         /\ D!GetService(info, query)' = D!GetService(info, query)
<1>1. \A kind, type : D!LookupType(type, kind)' = D!LookupType(type, kind)
  BY Zenon DEF D!LookupType
<1>2. \A kind, type : D!Instance(kind, type)' = D!Instance(kind, type)
  BY Zenon, <1>1 DEF D!Instance
<1>3. \A kind, type : D!Create(info, kind, type)' = D!Create(info, kind, type)
  BY Zenon, <1>2 DEF D!Create, D!CreateLocal
<1>4. \A kind, all : D!FirstMatch(info, kind, all, query)' = D!FirstMatch(info, kind, all, query)
  BY Zenon, <1>3 DEF D!FirstMatch
<1> QED BY Zenon, <1>4 DEF D!GetDevice, D!GetService

\* Every step keeps it: what changes the table or the root device answers nothing.
LEMMA NextKeepsDescriptions == DescriptionsInv /\ D!Next => DescriptionsInv'
<1> SUFFICES ASSUME DescriptionsInv, D!Next PROVE DescriptionsInv'
  OBVIOUS
<1>1. D!TypeOK' /\ D!TypeOK
  BY DescriptionsTypes DEF DescriptionsInv
<1>2. D!Held \subseteq D!AllDevices(doc)
  BY DEF D!Held
<1>3. ASSUME answer'.call \notin {"get", "icon"} PROVE DescriptionsInv'
  BY <1>1, <1>3 DEF DescriptionsInv
<1>4. ASSUME NEW t, NEW c, D!Register(t, c) PROVE DescriptionsInv'
  BY <1>3, <1>4 DEF D!Register, D!NoAnswer
<1>5. ASSUME NEW t, D!Unregister(t) PROVE DescriptionsInv'
  BY <1>3, <1>5 DEF D!Unregister, D!NoAnswer
<1>6. ASSUME NEW info, D!AskList(info) PROVE DescriptionsInv'
  BY <1>3, <1>6 DEF D!AskList
<1>7. ASSUME D!RootGone PROVE DescriptionsInv'
  BY <1>3, <1>7 DEF D!RootGone, D!NoAnswer
<1>8. ASSUME NEW usn, D!Discover(usn) PROVE DescriptionsInv'
  BY <1>3, <1>8 DEF D!Discover
<1>9. ASSUME NEW info \in D!Held, NEW query \in Queries, D!AskGet(info, query)
      PROVE  DescriptionsInv'
  <2>1. /\ doc' = doc /\ side' = side /\ root_alive' = root_alive /\ types' = types
        /\ answer'.call = "get" /\ answer'.info = info /\ answer'.query = query
        /\ answer'.device = D!GetDevice(info, query)
        /\ answer'.service = D!GetService(info, query)
    BY <1>9 DEF D!AskGet
  <2>2. /\ answer'.device = D!GetDevice(info, query)'
        /\ answer'.service = D!GetService(info, query)'
    BY Zenon, <2>1, SameFound
  <2>3. info \in D!AllDevices(doc')
    BY Zenon, <1>2, <1>9, <2>1
  <2> QED BY Zenon, <1>1, <2>1, <2>2, <2>3 DEF DescriptionsInv
<1>10. ASSUME NEW info \in D!Held, NEW q \in IconRequests, D!AskIcon(info, q)
       PROVE  DescriptionsInv'
  <2>1. /\ doc' = doc /\ answer'.call = "icon" /\ answer'.info = info /\ answer'.query = q
        /\ answer'.icon = D!GetIcon(info, q)
    BY <1>10 DEF D!AskIcon
  <2>2. info \in D!AllDevices(doc')
    BY Zenon, <1>2, <1>10, <2>1
  <2> QED BY Zenon, <1>1, <2>1, <2>2 DEF DescriptionsInv
<1> QED BY Zenon, <1>4, <1>5, <1>6, <1>7, <1>8, <1>9, <1>10 DEF D!Next

InDescriptions == part = "descriptions" => DescriptionsInv

LEMMA DescriptionsInvIsInductive == Spec => []InDescriptions
<1>1. Init => InDescriptions
  <2> SUFFICES ASSUME Init, part = "descriptions" PROVE DescriptionsInv
    BY DEF InDescriptions
  <2>1. D!Init
    BY DEF Init
  <2>2. answer.call = "none"
    BY <2>1 DEF D!Init, D!NoAnswer
  <2> QED BY <2>1, <2>2, InitDescriptions DEF DescriptionsInv
<1>2. InDescriptions /\ [Next]_vars => InDescriptions'
  <2> SUFFICES ASSUME InDescriptions, [Next]_vars, part' = "descriptions" PROVE DescriptionsInv'
    BY DEF InDescriptions
  <2>1. CASE DStep
    BY <2>1, NextKeepsDescriptions DEF DStep, InDescriptions
  <2>2. CASE UNCHANGED vars
    <3>1. /\ DescriptionsInv /\ doc' = doc /\ side' = side /\ root_alive' = root_alive
          /\ types' = types /\ answer' = answer
      BY <2>2 DEF vars, dvars, InDescriptions
    <3>2. \A info, query : /\ D!GetDevice(info, query)' = D!GetDevice(info, query)
                           /\ D!GetService(info, query)' = D!GetService(info, query)
      BY <3>1, SameFound
    <3>3. D!TypeOK'
      BY Zenon, <3>1 DEF DescriptionsInv, D!TypeOK
    <3> QED BY Zenon, <3>1, <3>2, <3>3 DEF DescriptionsInv
  <2>3. CASE NStep \/ IStep \/ WStep \/ SStep \/ HStep \/ CStep \/ PStep
    BY Zenon, <2>3 DEF NStep, IStep, WStep, SStep, HStep, CStep, PStep
  <2> QED BY <2>1, <2>2, <2>3 DEF Next
<1> QED BY <1>1, <1>2, PTL DEF Spec

\* ResourcesFound: get_service() and get_device() find something exactly if the list
\* has what satisfies the query, its class is the most specific that is registered when
\* it is asked for, and an icon is returned exactly if one suits the request.
THEOREM ResourcesAreFound == Spec => []ResourcesFound
<1>1. InDescriptions => ResourcesFound
  BY DescriptionsInvTells DEF InDescriptions, ResourcesFound
<1> QED BY <1>1, DescriptionsInvIsInductive, PTL

-----------------------------------------------------------------------------
(* All parts.                                                              *)

IsPart ==
    part \in {"notify", "introspection", "web", "descriptions", "service description",
              "addresses", "contexts", "platforms"}

\* TypeOK: the variables of each part have their types, as its invariant says.
THEOREM PartsAreTyped == Spec => []TypeOK
<1>1. Init => IsPart
  BY DEF Init, IsPart
<1>2. IsPart /\ [Next]_vars => IsPart'
  <2> SUFFICES ASSUME IsPart, [Next]_vars PROVE part' = part
    BY DEF IsPart
  <2> QED BY DEF Next, NStep, IStep, WStep, DStep, SStep, HStep, CStep, PStep, vars
<1>3. ASSUME InNotify, InIntrospection, InWeb, InDescriptions, InService, InAddresses,
             InContexts, InPlatforms, IsPart
      PROVE  TypeOK
  <2>1. CASE part = "notify"
    BY <1>3, <2>1 DEF InNotify, NotifyInv, TypeOK
  <2>2. CASE part = "introspection"
    BY <1>3, <2>2 DEF InIntrospection, IntrospectionInv, TypeOK
  <2>3. CASE part = "web"
    BY <1>3, <2>3, WebInvTells DEF InWeb, TypeOK
  <2>4. CASE part = "descriptions"
    BY <1>3, <2>4 DEF InDescriptions, DescriptionsInv, TypeOK
  <2>5. CASE part = "service description"
    BY <1>3, <2>5, ServiceInvTells DEF InService, TypeOK
  <2>6. CASE part = "addresses"
    BY <1>3, <2>6 DEF InAddresses, TypeOK
  <2>7. CASE part = "contexts"
    BY <1>3, <2>7 DEF InContexts, ContextsInv, TypeOK
  <2>8. CASE part = "platforms"
    BY <1>3, <2>8, PlatformsTypes DEF TypeOK
  <2> QED BY Zenon, <1>3, <2>1, <2>2, <2>3, <2>4, <2>5, <2>6, <2>7, <2>8 DEF IsPart
<1> QED BY <1>1, <1>2, <1>3, NotifyInvIsInductive, IntrospectionInvIsInductive,
           WebInvIsInductive, DescriptionsInvIsInductive, ServiceInvIsInductive,
           AddressesInvIsInductive, ContextsInvIsInductive, PlatformsInvIsInductive,
           PTL DEF Spec
=============================================================================
