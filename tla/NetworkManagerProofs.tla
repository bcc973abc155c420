------------------------ MODULE NetworkManagerProofs ------------------------
(***************************************************************************)
(* The NetworkManager context manager, for any number of devices, calls    *)
(* and messages: what the application was told is held by the NMDevices,   *)
(* and a wired one that is not activated has no context once the bus is    *)
(* empty.                                                                  *)
(*                                                                         *)
(* An NMDevice is freed when it is not listed and no call for it is left.  *)
(* So the invariant counts: ap_calls is the number of calls, and answers   *)
(* on the bus, that name the NMDevice; and what was told of a device is    *)
(* the sum of the contexts of its NMDevices. What the manager believes of  *)
(* a wired device is what the bus will have said in the end.               *)
(*                                                                         *)
(* The module begins with facts about sequences, for this proof and for    *)
(* those of the other parts: induction up to a number, steps repeated a    *)
(* number of times, and what adding to and cutting out of a list does to   *)
(* its positions, members and sums.                                        *)
(***************************************************************************)
EXTENDS Parts, FiniteSetTheorems, WellFoundedInduction, NaturalsInduction, TLAPS

-----------------------------------------------------------------------------
(* Induction.  The library's theorems take a predicate, so the numbers for *)
(* which a predicate holds are given as a set.                             *)

\* The order of the numbers, as a relation
Less == {ss \in Nat \X Nat : ss[1] < ss[2]}

\* A set of natural numbers that is not empty has a smallest one.
LEMMA SmallestNumber ==
  ASSUME NEW T \in SUBSET Nat, T # {}
  PROVE  \E x \in T : \A y \in T : x <= y
<1>1. IsWellFoundedOn(Less, Nat)
  BY NatLessThanWellFounded DEF OpToRel, Less
<1>2. \E x \in T : \A y \in T : <<y, x>> \notin Less
  BY Zenon, <1>1, WFMin
<1>3. PICK x \in T : \A y \in T : <<y, x>> \notin Less
  BY <1>2
<1>4. ASSUME NEW y \in T PROVE x <= y
  <2>1. x \in Nat /\ y \in Nat OBVIOUS
  <2>2. <<y, x>> \notin Less BY <1>3
  <2>3. ~(y < x) BY <2>1, <2>2 DEF Less
  <2> QED BY <2>1, <2>3
<1> QED BY <1>4

\* Induction up to Q, with the set of the numbers for which it holds.
LEMMA Induction ==
  ASSUME NEW Q \in Nat, NEW T, 0 \in T, \A n \in 1 .. Q : n - 1 \in T => n \in T
  PROVE  \A n \in 0 .. Q : n \in T
<1> DEFINE F == (0 .. Q) \ T
<1>1. SUFFICES ASSUME F # {} PROVE FALSE
  OBVIOUS
<1>2. PICK m \in F : \A n \in F : m <= n
  <2>1. F \in SUBSET Nat OBVIOUS
  <2> HIDE DEF F
  <2> QED BY <1>1, <2>1, SmallestNumber
<1>3. m \in 1 .. Q
  BY <1>2
<1>4. m - 1 \in 0 .. Q /\ ~(m <= m - 1)
  BY <1>3
<1>5. m - 1 \in T
  BY <1>2, <1>4
<1> QED BY <1>2, <1>3, <1>5

\* A step that maps a set to itself can be repeated.
Repeats(g, B, start, Q, step) ==
    /\ g \in [0 .. Q -> B]
    /\ g[0] = start
    /\ \A n \in 1 .. Q : g[n] = step[<<n, g[n - 1]>>]

\* ... so there is a sequence of what it comes to.
LEMMA Iteration ==
  ASSUME NEW B, NEW start \in B, NEW Q \in Nat, NEW step \in [(1 .. Q) \X B -> B]
  PROVE  \E g : Repeats(g, B, start, Q, step)
<1> DEFINE Runs(m, g) == g[0] = start /\ \A n \in 1 .. m : g[n] = step[<<n, g[n - 1]>>]
           Can == {m \in 0 .. Q : \E g \in [0 .. m -> B] : Runs(m, g)}
<1>1. 0 \in Can
  <2>1. [n \in 0 .. 0 |-> start] \in [0 .. 0 -> B] OBVIOUS
  <2>2. Runs(0, [n \in 0 .. 0 |-> start]) OBVIOUS
  <2>3. \E g \in [0 .. 0 -> B] : Runs(0, g)
    <3> HIDE DEF Runs
    <3> QED BY <2>1, <2>2
  <2> QED BY <2>3
<1>2. ASSUME NEW m \in 1 .. Q, m - 1 \in Can PROVE m \in Can
  <2>1. PICK g \in [0 .. m - 1 -> B] : Runs(m - 1, g)
    BY <1>2
  <2> DEFINE h == [n \in 0 .. m |-> IF n = m THEN step[<<m, g[m - 1]>>] ELSE g[n]]
  <2>2. m - 1 \in 0 .. m - 1 /\ m \in 0 .. m /\ m - 1 \in 0 .. m /\ m - 1 # m
    OBVIOUS
  <2>3. step[<<m, g[m - 1]>>] \in B
    BY <2>2
  <2>4. h \in [0 .. m -> B]
    BY <2>3
  <2>5. h[0] = start
    BY <2>1
  <2>6. ASSUME NEW n \in 1 .. m PROVE h[n] = step[<<n, h[n - 1]>>]
    <3>1. CASE n = m
      <4>1. h[m] = step[<<m, g[m - 1]>>] /\ h[m - 1] = g[m - 1] BY <2>2
      <4> QED BY Zenon, <3>1, <4>1
    <3>2. CASE n # m
      <4>1. /\ n \in 1 .. m - 1 /\ n \in 0 .. m
            /\ n - 1 \in 0 .. m /\ n - 1 # m
        BY <3>2
      <4>2. h[n] = g[n] /\ h[n - 1] = g[n - 1]
        BY <3>2, <4>1
      <4> QED BY <4>1, <4>2, <2>1
    <3> QED BY <3>1, <3>2
  <2>7. Runs(m, h)
    BY Zenon, <2>5, <2>6
  <2> HIDE DEF h, Runs
  <2> QED BY <2>4, <2>7
<1>3. Q \in Can
  <2>1. Q \in 0 .. Q OBVIOUS
  <2> HIDE DEF Can
  <2> QED BY <1>1, <1>2, <2>1, Induction
<1>4. PICK g \in [0 .. Q -> B] : Runs(Q, g)
  BY <1>3
<1> QED BY <1>4 DEF Repeats

-----------------------------------------------------------------------------
(* Lists.                                                                  *)

\* A list that has nothing twice, and what is in it
Injective(s) == \A i, j \in 1 .. Len(s) : s[i] = s[j] => i = j
Members(s) == {s[i] : i \in 1 .. Len(s)}

\* The list without its k-th entry
Cut(s, k) == SubSeq(s, 1, k - 1) \o SubSeq(s, k + 1, Len(s))

\* Nothing is in the empty list.
LEMMA EmptyMembers == Members(<<>>) = {} /\ Injective(<<>>)
BY DEF Members, Injective

\* A list has members of its type.
LEMMA MembersType ==
  ASSUME NEW B, NEW s \in Seq(B)
  PROVE  Members(s) \subseteq B
BY DEF Members

\* Adding at the end
LEMMA AppendFacts ==
  ASSUME NEW B, NEW s \in Seq(B), NEW x \in B
  PROVE  LET r == Append(s, x)
         IN /\ r \in Seq(B) /\ Len(s) \in Nat /\ Len(r) = Len(s) + 1
            /\ r[Len(s) + 1] = x /\ \A i \in 1 .. Len(s) : r[i] = s[i]
            /\ Members(r) = Members(s) \cup {x}
            /\ Injective(s) /\ x \notin Members(s) => Injective(r)
<1>1. Members(Append(s, x)) = Members(s) \cup {x}
  BY DEF Members
<1>2. ASSUME Injective(s), x \notin Members(s)
      PROVE Injective(Append(s, x))
  BY <1>2 DEF Members, Injective
<1> QED BY <1>1, <1>2

\* Positions in two lists put together
LEMMA JoinFacts ==
  ASSUME NEW B, NEW a \in Seq(B), NEW b \in Seq(B)
  PROVE  /\ a \o b \in Seq(B) /\ Len(a) \in Nat /\ Len(b) \in Nat
         /\ Len(a \o b) = Len(a) + Len(b)
         /\ \A j \in 1 .. Len(a) + Len(b) :
               (a \o b)[j] = IF j <= Len(a) THEN a[j] ELSE b[j - Len(a)]
OBVIOUS

\* Positions in a list from which one entry is cut
LEMMA CutIndices ==
  ASSUME NEW B, NEW s \in Seq(B), NEW k \in 1 .. Len(s)
  PROVE  /\ Cut(s, k) \in Seq(B) /\ Len(Cut(s, k)) = Len(s) - 1 /\ Len(s) \in Nat
         /\ \A j \in 1 .. Len(s) - 1 : Cut(s, k)[j] = IF j < k THEN s[j] ELSE s[j + 1]
<1> DEFINE a == SubSeq(s, 1, k - 1)
           b == SubSeq(s, k + 1, Len(s))
           n == Len(s)
<1>1. a \in Seq(B) /\ Len(a) = k - 1 /\ \A j \in 1 .. k - 1 : a[j] = s[j]
  OBVIOUS
<1>2. b \in Seq(B) /\ Len(b) = n - k /\ \A j \in 1 .. n - k : b[j] = s[k + j]
  OBVIOUS
<1>3. n \in Nat /\ k \in Int /\ 1 <= k /\ k <= n
  OBVIOUS
<1>4. Cut(s, k) = a \o b
  BY DEF Cut
<1> HIDE DEF a, b, n
<1>5. /\ a \o b \in Seq(B) /\ Len(a \o b) = Len(a) + Len(b)
      /\ \A j \in 1 .. Len(a) + Len(b) :
            (a \o b)[j] = IF j <= Len(a) THEN a[j] ELSE b[j - Len(a)]
  BY Zenon, <1>1, <1>2, JoinFacts
<1>6. Len(a) + Len(b) = n - 1
  BY <1>1, <1>2, <1>3
<1>7. ASSUME NEW j \in 1 .. n - 1 PROVE (a \o b)[j] = IF j < k THEN s[j] ELSE s[j + 1]
  <2>1. (a \o b)[j] = IF j <= k - 1 THEN a[j] ELSE b[j - (k - 1)]
    BY <1>1, <1>5, <1>6
  <2>2. CASE j < k
    <3>1. j <= k - 1 /\ j \in 1 .. k - 1 BY <2>2, <1>3
    <3> QED BY <2>1, <2>2, <3>1, <1>1
  <2>3. CASE ~(j < k)
    <3>1. j - (k - 1) \in 1 .. n - k /\ k + (j - (k - 1)) = j + 1 /\ ~(j <= k - 1)
      BY <2>3, <1>3
    <3>2. b[j - (k - 1)] = s[k + (j - (k - 1))]
      BY <3>1, <1>2
    <3> QED BY <2>1, <2>3, <3>1, <3>2
  <2> QED BY Zenon, <2>2, <2>3
<1> QED BY <1>3, <1>4, <1>5, <1>6, <1>7 DEF n

\* ... and its members, if it had nothing twice
LEMMA CutFacts ==
  ASSUME NEW B, NEW s \in Seq(B), NEW k \in 1 .. Len(s), Injective(s)
  PROVE  Injective(Cut(s, k)) /\ Members(Cut(s, k)) = Members(s) \ {s[k]}
<1> DEFINE r == Cut(s, k)
           n == Len(s)
<1>1. /\ n \in Nat /\ k \in Int /\ 1 <= k /\ k <= n /\ Len(r) = n - 1
      /\ \A j \in 1 .. n - 1 : r[j] = IF j < k THEN s[j] ELSE s[j + 1]
  BY CutIndices
<1>2. \A i, j \in 1 .. n : s[i] = s[j] => i = j
  BY DEF Injective
<1>3. Members(r) = {r[j] : j \in 1 .. n - 1} /\ Members(s) = {s[i] : i \in 1 .. n}
  BY <1>1 DEF Members
<1> HIDE DEF r, n
<1>4. \A i, j \in 1 .. n - 1 : r[i] = r[j] => i = j
  BY <1>1, <1>2
<1>5. ASSUME NEW j \in 1 .. n - 1 PROVE r[j] \in Members(s) \ {s[k]}
  <2>1. PICK i \in 1 .. n : i # k /\ r[j] = s[i]
    BY <1>1
  <2> QED BY <2>1, <1>1, <1>2, <1>3
<1>6. ASSUME NEW i \in 1 .. n, s[i] # s[k] PROVE s[i] \in Members(r)
  <2>1. CASE i < k
    <3>1. i \in 1 .. n - 1 /\ r[i] = s[i] BY <2>1, <1>1
    <3> QED BY <3>1, <1>3
  <2>2. CASE i > k
    <3>1. i - 1 \in 1 .. n - 1 /\ r[i - 1] = s[i] BY <2>2, <1>1
    <3> QED BY <3>1, <1>3
  <2> QED BY <2>1, <2>2, <1>1, <1>6
<1> QED BY <1>1, <1>3, <1>4, <1>5, <1>6 DEF Injective, r, n

-----------------------------------------------------------------------------
(* Sums.                                                                   *)

\* The sum of the weights of what is in a list
Weigh(s, w) ==
    LET sum[n \in 0 .. Len(s)] == IF n = 0 THEN 0 ELSE sum[n - 1] + w[s[n]]
    IN  sum[Len(s)]

\* The sums up to each position
Sums(g, s, w) ==
    /\ g \in [0 .. Len(s) -> Int]
    /\ g[0] = 0
    /\ \A n \in 1 .. Len(s) : g[n] = g[n - 1] + w[s[n]]

\* They exist, ...
LEMMA SumsExist ==
  ASSUME NEW B, NEW w \in [B -> Int], NEW s \in Seq(B)
  PROVE  \E g : Sums(g, s, w)
<1> DEFINE Q == Len(s)
           step == [p \in (1 .. Q) \X Int |-> p[2] + w[s[p[1]]]]
<1>1. Q \in Nat /\ \A n \in 1 .. Q : w[s[n]] \in Int
  OBVIOUS
<1>2. step \in [(1 .. Q) \X Int -> Int]
  BY <1>1
<1>3. PICK g : Repeats(g, Int, 0, Q, step)
  <2> HIDE DEF Q, step
  <2>1. 0 \in Int OBVIOUS
  <2> QED BY Zenon, <1>1, <1>2, <2>1, Iteration
<1>4. g \in [0 .. Q -> Int] /\ g[0] = 0 /\ \A n \in 1 .. Q : g[n] = step[<<n, g[n - 1]>>]
  BY Zenon, <1>3 DEF Repeats
<1>5. ASSUME NEW n \in 1 .. Q PROVE g[n] = g[n - 1] + w[s[n]]
  <2>1. n - 1 \in 0 .. Q
    BY <1>1
  <2>2. g[n - 1] \in Int
    BY Zenon, <1>4, <2>1
  <2>3. step[<<n, g[n - 1]>>] = g[n - 1] + w[s[n]]
    BY <2>2
  <2> QED BY Zenon, <1>4, <2>3
<1> QED BY <1>4, <1>5 DEF Sums

\* ... and the last one is the sum.
LEMMA SumIsLast ==
  ASSUME NEW B, NEW w \in [B -> Int], NEW s \in Seq(B), NEW g, Sums(g, s, w)
  PROVE  Weigh(s, w) = g[Len(s)]
<1> DEFINE Q == Len(s)
           sum[n \in 0 .. Q] == IF n = 0 THEN 0 ELSE sum[n - 1] + w[s[n]]
<1>1. g = [n \in 0 .. Q |-> IF n = 0 THEN 0 ELSE g[n - 1] + w[s[n]]]
  BY DEF Sums
<1>2. sum = [n \in 0 .. Q |-> IF n = 0 THEN 0 ELSE sum[n - 1] + w[s[n]]]
  BY Zenon, <1>1
<1>3. Weigh(s, w) = sum[Q]
  BY DEF Weigh
<1> HIDE DEF sum
<1>4. sum[0] = 0 /\ \A n \in 1 .. Q : sum[n] = sum[n - 1] + w[s[n]]
  BY SMTT(30), <1>2
<1> DEFINE Same == {n \in 0 .. Q : sum[n] = g[n]}
<1>5. 0 \in Same
  BY <1>4 DEF Sums
<1>6. ASSUME NEW n \in 1 .. Q, n - 1 \in Same PROVE n \in Same
  BY <1>4, <1>6 DEF Sums
<1>7. \A n \in 0 .. Q : n \in Same
  <2>1. Q \in Nat OBVIOUS
  <2> HIDE DEF Same, Q
  <2> QED BY Zenon, <1>5, <1>6, <2>1, Induction
<1> QED BY <1>3, <1>7

\* What is known of each
LEMMA SumsType ==
  ASSUME NEW B, NEW w \in [B -> Int], NEW s \in Seq(B), NEW g, Sums(g, s, w)
  PROVE  /\ Len(s) \in Nat /\ g[0] = 0 /\ \A n \in 0 .. Len(s) : g[n] \in Int
         /\ \A n \in 1 .. Len(s) : w[s[n]] \in Int /\ g[n] = g[n - 1] + w[s[n]]
<1>1. /\ g \in [0 .. Len(s) -> Int] /\ g[0] = 0
      /\ \A n \in 1 .. Len(s) : g[n] = g[n - 1] + w[s[n]]
  BY DEF Sums
<1>2. Len(s) \in Nat /\ \A n \in 1 .. Len(s) : w[s[n]] \in Int
  OBVIOUS
<1> QED BY Zenon, <1>1, <1>2

\* Two lists that agree up to a position, or from a position on
Agree(s, t, k) == k <= Len(s) /\ k <= Len(t) /\ \A n \in 1 .. k : s[n] = t[n]
AgreeFrom(s, t, i, j, k) ==
    i + k <= Len(s) /\ j + k <= Len(t) /\ \A n \in 1 .. k : s[i + n] = t[j + n]

\* ... have the same sums up to it,
LEMMA SumsAgree ==
  ASSUME NEW B, NEW w \in [B -> Int], NEW s \in Seq(B), NEW t \in Seq(B),
         NEW g, Sums(g, s, w), NEW h, Sums(h, t, w),
         NEW k \in Nat, Agree(s, t, k)
  PROVE  g[k] = h[k]
<1> DEFINE Same == {n \in 0 .. k : g[n] = h[n]}
<1>1. 0 \in Same
  BY DEF Sums
<1>2. ASSUME NEW n \in 1 .. k, n - 1 \in Same PROVE n \in Same
  <2>1. n \in 1 .. Len(s) /\ n \in 1 .. Len(t) /\ n \in 0 .. k
    BY DEF Agree
  <2>2. g[n] = g[n - 1] + w[s[n]] /\ h[n] = h[n - 1] + w[t[n]] /\ s[n] = t[n]
    BY <2>1 DEF Sums, Agree
  <2> QED BY <1>2, <2>1, <2>2
<1>3. \A n \in 0 .. k : n \in Same
  <2> HIDE DEF Same
  <2> QED BY Zenon, <1>1, <1>2, Induction
<1> QED BY <1>3

\* ... or add the same from it on.
LEMMA SumsShift ==
  ASSUME NEW B, NEW w \in [B -> Int], NEW s \in Seq(B), NEW t \in Seq(B),
         NEW g, Sums(g, s, w), NEW h, Sums(h, t, w),
         NEW i \in 0 .. Len(s), NEW j \in 0 .. Len(t), NEW k \in Nat,
         AgreeFrom(s, t, i, j, k)
  PROVE  g[i + k] - g[i] = h[j + k] - h[j]
<1> DEFINE Same == {n \in 0 .. k : g[i + n] - g[i] = h[j + n] - h[j]}
<1>0. Len(s) \in Nat /\ Len(t) \in Nat /\ i \in Nat /\ j \in Nat
  OBVIOUS
<1>1. 0 \in Same
  <2>1. g[i] \in Int /\ h[j] \in Int BY Zenon DEF Sums
  <2> QED BY <2>1, <1>0
<1>2. ASSUME NEW n \in 1 .. k, n - 1 \in Same PROVE n \in Same
  <2>1. /\ i + n \in 1 .. Len(s) /\ j + n \in 1 .. Len(t) /\ n \in 0 .. k
        /\ (i + n) - 1 = i + (n - 1) /\ (j + n) - 1 = j + (n - 1)
        /\ i + (n - 1) \in 0 .. Len(s) /\ j + (n - 1) \in 0 .. Len(t)
    BY <1>0 DEF AgreeFrom
  <2>2. /\ g[i + n] = g[i + (n - 1)] + w[s[i + n]]
        /\ h[j + n] = h[j + (n - 1)] + w[t[j + n]] /\ s[i + n] = t[j + n]
    BY <2>1 DEF Sums, AgreeFrom
  <2>3. /\ g[i] \in Int /\ g[i + (n - 1)] \in Int /\ w[s[i + n]] \in Int
    BY Zenon, <2>1, SumsType
  <2>31. /\ h[j] \in Int /\ h[j + (n - 1)] \in Int /\ w[t[j + n]] \in Int
    BY Zenon, <2>1, SumsType
  <2>4. g[i + (n - 1)] - g[i] = h[j + (n - 1)] - h[j]
    BY <1>2
  <2>5. g[i + n] - g[i] = h[j + n] - h[j]
    <3> DEFINE a == g[i]  b == h[j]  c == g[i + (n - 1)]  d == h[j + (n - 1)]  e == w[s[i + n]]
    <3>1. g[i + n] = c + e /\ h[j + n] = d + e
      BY <2>2
    <3>2. a \in Int /\ b \in Int /\ c \in Int /\ d \in Int /\ e \in Int /\ c - a = d - b
      BY <2>3, <2>31, <2>4
    <3> HIDE DEF a, b, c, d, e
    <3>3. (c + e) - a = (d + e) - b
      BY <3>2
    <3> QED BY <3>1, <3>3 DEF a, b
  <2> QED BY <2>1, <2>5
<1>3. \A n \in 0 .. k : n \in Same
  <2> HIDE DEF Same
  <2> QED BY Zenon, <1>1, <1>2, Induction
<1> QED BY <1>3

\* Nothing weighs nothing; a sum is a number.
LEMMA WeighType ==
  ASSUME NEW B, NEW w \in [B -> Int], NEW s \in Seq(B)
  PROVE  Weigh(s, w) \in Int /\ (s = <<>> => Weigh(s, w) = 0)
<1>1. PICK g : Sums(g, s, w)
  BY SumsExist
<1>2. Weigh(s, w) = g[Len(s)]
  BY <1>1, SumIsLast
<1> QED BY SMTT(30), <1>1, <1>2 DEF Sums

\* One more
LEMMA WeighAppend ==
  ASSUME NEW B, NEW w \in [B -> Int], NEW s \in Seq(B), NEW x \in B
  PROVE  Weigh(Append(s, x), w) = Weigh(s, w) + w[x]
<1> DEFINE t == Append(s, x)
           Q == Len(s)
<1>1. t \in Seq(B) /\ Len(t) = Q + 1 /\ Q \in Nat /\ t[Q + 1] = x /\ \A i \in 1 .. Q : t[i] = s[i]
  OBVIOUS
<1> HIDE DEF t
<1>2. PICK g : Sums(g, s, w)
  BY SumsExist
<1>3. PICK h : Sums(h, t, w)
  BY <1>1, SumsExist
<1>4. g[Q] = h[Q]
  <2>1. Agree(s, t, Q)
    BY <1>1 DEF Agree
  <2> QED BY <1>1, <1>2, <1>3, <2>1, SumsAgree
<1>5. h[Q + 1] = h[(Q + 1) - 1] + w[t[Q + 1]]
  BY SMTT(30), <1>1, <1>3 DEF Sums
<1>6. Weigh(s, w) = g[Q] /\ Weigh(t, w) = h[Q + 1]
  BY <1>1, <1>2, <1>3, SumIsLast
<1> QED BY <1>1, <1>4, <1>5, <1>6 DEF t

\* The sums, where one entry is replaced
LEMMA WeighReplace ==
  ASSUME NEW B, NEW w \in [B -> Int], NEW s \in Seq(B), NEW i \in 1 .. Len(s), NEW x \in B
  PROVE  Weigh([s EXCEPT ![i] = x], w) = Weigh(s, w) - w[s[i]] + w[x]
<1> DEFINE t == [s EXCEPT ![i] = x]
           Q == Len(s)
<1>1. /\ t \in Seq(B) /\ Len(t) = Q /\ Q \in Nat /\ t[i] = x
      /\ \A n \in 1 .. Q : n # i => t[n] = s[n]
  OBVIOUS
<1> HIDE DEF t
<1>2. PICK g : Sums(g, s, w)
  BY SumsExist
<1>3. PICK h : Sums(h, t, w)
  BY Zenon, <1>1, SumsExist
<1>4. i \in Int /\ i - 1 \in 0 .. Q /\ i \in 0 .. Q /\ Q - i \in Nat /\ i + (Q - i) = Q
  BY <1>1
<1>5. g[i - 1] = h[i - 1]
  <2>1. i - 1 \in Nat /\ i - 1 <= Len(s) /\ i - 1 <= Len(t)
    BY <1>1, <1>4
  <2>2. ASSUME NEW n \in 1 .. i - 1 PROVE s[n] = t[n]
    <3>1. n \in 1 .. Q /\ n # i BY <1>4
    <3> QED BY <1>1, <3>1
  <2>3. Agree(s, t, i - 1)
    BY <2>1, <2>2 DEF Agree
  <2>4. i - 1 \in Nat
    BY <1>4
  <2> DEFINE p == i - 1
  <2> HIDE DEF p
  <2>5. g[p] = h[p]
    <3>1. Agree(s, t, p) /\ p \in Nat
      BY <2>3, <2>4 DEF p
    <3>2. t \in Seq(B)
      BY <1>1
    <3> QED BY <1>2, <1>3, <3>1, <3>2, SumsAgree
  <2> QED BY <2>5 DEF p
<1>6. g[i + (Q - i)] - g[i] = h[i + (Q - i)] - h[i]
  <2>1. ASSUME NEW n \in 1 .. Q - i PROVE s[i + n] = t[i + n]
    <3>1. i + n \in 1 .. Q /\ i + n # i BY <1>4
    <3> QED BY <1>1, <3>1
  <2>2. i + (Q - i) <= Len(s) /\ i + (Q - i) <= Len(t) /\ i \in 0 .. Len(s) /\ i \in 0 .. Len(t)
    BY <1>1, <1>4
  <2>3. AgreeFrom(s, t, i, i, Q - i)
    BY <2>1, <2>2 DEF AgreeFrom
  <2> DEFINE p == Q - i
  <2> HIDE DEF p
  <2>4. AgreeFrom(s, t, i, i, p) /\ p \in Nat
    BY <1>4, <2>3 DEF p
  <2>5. g[i + p] - g[i] = h[i + p] - h[i]
    <3>1. t \in Seq(B)
      BY <1>1
    <3> QED BY <1>2, <1>3, <2>2, <2>4, <3>1, SumsShift
  <2> QED BY <2>5 DEF p
<1>7. g[i] = g[i - 1] + w[s[i]] /\ h[i] = h[i - 1] + w[x]
  BY Zenon, <1>1, <1>2, <1>3 DEF Sums
<1>8. /\ g[Q] \in Int /\ g[i - 1] \in Int /\ w[s[i]] \in Int /\ g[i] \in Int
      /\ h[Q] \in Int /\ h[i] \in Int /\ w[x] \in Int
  <2>1. Q \in 0 .. Q BY <1>1
  <2>2. g[Q] \in Int /\ g[i - 1] \in Int /\ w[s[i]] \in Int /\ g[i] \in Int
    BY <1>2, <1>4, <2>1, SumsType
  <2>3. h[Q] \in Int /\ h[i] \in Int /\ w[x] \in Int
    BY SMTT(30), <1>1, <1>3, <1>4, <2>1, SumsType
  <2> QED BY <2>2, <2>3
<1>9. Weigh(s, w) = g[Q] /\ Weigh(t, w) = h[Q]
  BY Zenon, <1>1, <1>2, <1>3, SumIsLast
<1>10. h[Q] = g[Q] - w[s[i]] + w[x]
  <2> DEFINE a == g[Q]  b == h[Q]  c == g[i]  d == h[i]  e == g[i - 1]  u == w[s[i]]  v == w[x]
  <2>1. a - c = b - d
    BY <1>4, <1>6
  <2>2. c = e + u /\ d = e + v
    BY <1>5, <1>7
  <2>3. a \in Int /\ b \in Int /\ c \in Int /\ d \in Int /\ e \in Int /\ u \in Int /\ v \in Int
    BY <1>8
  <2> HIDE DEF a, b, c, d, e, u, v
  <2>4. b = a - u + v
    BY <2>1, <2>2, <2>3
  <2> QED BY <2>4 DEF a, b, u, v
<1> QED BY <1>9, <1>10 DEF t

\* ... and where one is cut
LEMMA WeighCut ==
  ASSUME NEW B, NEW w \in [B -> Int], NEW s \in Seq(B), NEW k \in 1 .. Len(s)
  PROVE  Weigh(Cut(s, k), w) = Weigh(s, w) - w[s[k]]
<1> DEFINE t == Cut(s, k)
           Q == Len(s)
<1>1. /\ t \in Seq(B) /\ Len(t) = Q - 1 /\ Q \in Nat
      /\ \A j \in 1 .. Q - 1 : t[j] = IF j < k THEN s[j] ELSE s[j + 1]
  BY CutIndices
<1> HIDE DEF t
<1>2. PICK g : Sums(g, s, w)
  BY SumsExist
<1>3. PICK h : Sums(h, t, w)
  BY Zenon, <1>1, SumsExist
<1>4. /\ k \in Int /\ k - 1 \in Nat /\ k - 1 <= Q - 1 /\ Q - k \in Nat /\ k + (Q - k) = Q
      /\ (k - 1) + (Q - k) = Q - 1 /\ k \in 0 .. Q /\ k - 1 \in 0 .. Q - 1 /\ k - 1 \in 0 .. Q
  BY <1>1
<1>5. g[k - 1] = h[k - 1]
  <2>1. k - 1 <= Len(s) /\ k - 1 <= Len(t)
    BY <1>1, <1>4
  <2>2. ASSUME NEW n \in 1 .. k - 1 PROVE s[n] = t[n]
    <3>1. n \in 1 .. Q - 1 /\ n < k BY <1>1, <1>4
    <3> QED BY <1>1, <3>1
  <2>3. Agree(s, t, k - 1)
    BY <2>1, <2>2 DEF Agree
  <2> DEFINE p == k - 1
  <2> HIDE DEF p
  <2>4. Agree(s, t, p) /\ p \in Nat
    BY <1>4, <2>3 DEF p
  <2>5. g[p] = h[p]
    <3>1. t \in Seq(B)
      BY <1>1
    <3> QED BY <1>2, <1>3, <2>4, <3>1, SumsAgree
  <2> QED BY <2>5 DEF p
<1>6. g[k + (Q - k)] - g[k] = h[(k - 1) + (Q - k)] - h[k - 1]
  <2>1. ASSUME NEW n \in 1 .. Q - k PROVE s[k + n] = t[(k - 1) + n]
    <3>1. (k - 1) + n \in 1 .. Q - 1 /\ ~((k - 1) + n < k) /\ ((k - 1) + n) + 1 = k + n
      BY <1>4
    <3> QED BY Zenon, <1>1, <3>1
  <2>2. k + (Q - k) <= Len(s) /\ (k - 1) + (Q - k) <= Len(t) /\ k \in 0 .. Len(s) /\ k - 1 \in 0 .. Len(t)
    BY <1>1, <1>4
  <2>3. AgreeFrom(s, t, k, k - 1, Q - k)
    BY <2>1, <2>2 DEF AgreeFrom
  <2> DEFINE p == Q - k
             q == k - 1
  <2> HIDE DEF p, q
  <2>4. AgreeFrom(s, t, k, q, p) /\ p \in Nat /\ q \in 0 .. Len(t) /\ k \in 0 .. Len(s)
    BY <1>4, <2>2, <2>3 DEF p, q
  <2>5. g[k + p] - g[k] = h[q + p] - h[q]
    <3>1. t \in Seq(B)
      BY <1>1
    <3> QED BY <1>2, <1>3, <2>4, <3>1, SumsShift
  <2> QED BY <2>5 DEF p, q
<1>7. g[k] = g[k - 1] + w[s[k]]
  BY <1>2 DEF Sums
<1>8. g[Q] \in Int /\ g[k] \in Int /\ g[k - 1] \in Int /\ w[s[k]] \in Int /\ h[Q - 1] \in Int
  <2>1. Q \in 0 .. Q /\ Q - 1 \in 0 .. Q - 1 BY <1>1, <1>4
  <2>2. g[Q] \in Int /\ g[k - 1] \in Int /\ w[s[k]] \in Int /\ g[k] \in Int
    BY <1>2, <1>4, <2>1, SumsType
  <2>3. t \in Seq(B) /\ Len(t) = Q - 1
    BY <1>1
  <2>4. \A n \in 0 .. Len(t) : h[n] \in Int
    BY Zenon, <1>3, <2>3, SumsType
  <2>5. h[Q - 1] \in Int
    BY <2>1, <2>3, <2>4
  <2> QED BY <2>2, <2>5
<1>9. Weigh(s, w) = g[Q] /\ Weigh(t, w) = h[Q - 1]
  BY Zenon, <1>1, <1>2, <1>3, SumIsLast
<1>10. h[Q - 1] = g[Q] - w[s[k]]
  <2> DEFINE a == g[Q]  b == h[Q - 1]  c == g[k]  e == g[k - 1]  u == w[s[k]]
  <2>1. a - c = b - e
    BY <1>4, <1>5, <1>6
  <2>2. c = e + u
    BY <1>7
  <2>3. a \in Int /\ b \in Int /\ c \in Int /\ e \in Int /\ u \in Int
    BY <1>8
  <2> HIDE DEF a, b, c, e, u
  <2>4. b = a - u
    BY <2>1, <2>2, <2>3
  <2> QED BY <2>4 DEF a, b, u
<1> QED BY <1>9, <1>10 DEF t

\* Weights that are not negative: a sum is at least each of them, and is nothing if all
\* of them are.
LEMMA WeighNat ==
  ASSUME NEW B, NEW w \in [B -> Int], NEW s \in Seq(B), \A n \in 1 .. Len(s) : w[s[n]] >= 0
  PROVE  /\ Weigh(s, w) \in Nat
         /\ \A n \in 1 .. Len(s) : w[s[n]] <= Weigh(s, w)
         /\ (\A n \in 1 .. Len(s) : w[s[n]] = 0) => Weigh(s, w) = 0
<1> DEFINE Q == Len(s)
<1>0. Q \in Nat /\ Q \in 0 .. Q /\ \A n \in 1 .. Q : w[s[n]] \in Nat
  OBVIOUS
<1>1. PICK g : Sums(g, s, w)
  BY SumsExist
<1>2. Weigh(s, w) = g[Q]
  BY <1>1, SumIsLast
<1> DEFINE T == {n \in 0 .. Q : g[n] >= 0 /\ \A i \in 1 .. n : w[s[i]] <= g[n]}
           Z == {n \in 0 .. Q : (\A i \in 1 .. n : w[s[i]] = 0) => g[n] = 0}
<1>3. \A n \in 1 .. Q : /\ g[n] = g[n - 1] + w[s[n]] /\ g[n - 1] \in Int /\ g[n] \in Int
                        /\ n \in 0 .. Q /\ n - 1 \in 0 .. Q
                        /\ \A i \in 1 .. n : i \in 1 .. Q /\ (i \in 1 .. n - 1 \/ i = n)
  BY SMTT(30), <1>1, <1>0 DEF Sums
<1>4. g[0] = 0 /\ 0 \in 0 .. Q
  BY <1>1, <1>0 DEF Sums
<1> HIDE DEF Q
<1>5. 0 \in T /\ 0 \in Z
  BY <1>4
<1>6. ASSUME NEW n \in 1 .. Q, n - 1 \in T PROVE n \in T
  <2>1. /\ g[n] = g[n - 1] + w[s[n]] /\ g[n - 1] \in Int /\ n \in 0 .. Q
        /\ w[s[n]] \in Nat /\ g[n - 1] >= 0
    BY <1>0, <1>3, <1>6
  <2>2. g[n] >= 0 /\ w[s[n]] <= g[n] /\ g[n - 1] <= g[n] /\ g[n] \in Int
    BY SMTT(30), <2>1
  <2>3. ASSUME NEW i \in 1 .. n PROVE w[s[i]] <= g[n]
    <3>1. i \in 1 .. Q /\ (i \in 1 .. n - 1 \/ i = n)
      BY <1>3
    <3>2. CASE i \in 1 .. n - 1
      <4>1. w[s[i]] <= g[n - 1] /\ w[s[i]] \in Nat BY <1>0, <1>6, <3>1, <3>2
      <4> QED BY SMTT(30), <4>1, <2>1, <2>2
    <3> QED BY <3>1, <3>2, <2>2
  <2> QED BY <2>1, <2>2, <2>3
<1>7. ASSUME NEW n \in 1 .. Q, n - 1 \in Z PROVE n \in Z
  <2>1. g[n] = g[n - 1] + w[s[n]] /\ g[n - 1] \in Int /\ n \in 0 .. Q
    BY <1>3
  <2>2. ASSUME \A i \in 1 .. n : w[s[i]] = 0 PROVE g[n] = 0
    <3>1. \A i \in 1 .. n - 1 : i \in 1 .. n
      OBVIOUS
    <3>2. g[n - 1] = 0 /\ n \in 1 .. n
      BY <1>7, <2>2, <3>1
    <3> QED BY <2>1, <2>2, <3>2
  <2> QED BY <2>1, <2>2
<1>8. Q \in T /\ Q \in Z
  <2> HIDE DEF T, Z
  <2> QED BY Zenon, <1>0, <1>5, <1>6, <1>7, Induction
<1>9. g[Q] \in Int
  BY <1>1, <1>0 DEF Sums, Q
<1> QED BY <1>0, <1>2, <1>8, <1>9 DEF Q

-----------------------------------------------------------------------------
(* Sets in some order.                                                     *)

\* Any order of a finite set has each of its elements once.
LEMMA OrderFacts ==
  ASSUME NEW X, IsFiniteSet(X)
  PROVE  LET s == P!Linux!SetToSeq(X)
         IN s \in Seq(X) /\ Injective(s) /\ Members(s) = X
<1> DEFINE n == Cardinality(X)
           s == P!Linux!SetToSeq(X)
<1>1. n \in Nat /\ ExistsBijection(1 .. n, X)
  BY FS_CardinalityType
<1>2. PICK g : g \in Bijection(1 .. n, X)
  BY <1>1 DEF ExistsBijection
<1>3. g \in [1 .. n -> X] /\ P!Linux!IsInjective(g)
  BY <1>2 DEF Bijection, Injection, IsInjective, P!Linux!IsInjective
<1>4. s = CHOOSE f \in [1 .. n -> X] : P!Linux!IsInjective(f)
  BY DEF P!Linux!SetToSeq, P!Linux!Cardinality, Cardinality
<1> HIDE DEF n, s
<1>5. s \in [1 .. n -> X] /\ P!Linux!IsInjective(s)
  BY <1>3, <1>4
<1>6. \A i, j \in 1 .. n : s[i] = s[j] => i = j
  BY <1>5 DEF P!Linux!IsInjective
<1>7. s \in Seq(X) /\ Len(s) = n
  BY <1>1, <1>5
<1>8. s \in Injection(1 .. n, X)
  BY <1>5, <1>6 DEF Injection, IsInjective
<1>9. Cardinality(1 .. n) = n
  BY <1>1, FS_Interval
<1>10. s \in Surjection(1 .. n, X)
  <2>1. Cardinality(X) = Cardinality(1 .. n)
    BY <1>9 DEF n
  <2>2. IsFiniteSet(1 .. n)
    BY <1>1, FS_Interval
  <2> QED BY <1>8, <2>1, <2>2, FS_Injection
<1>11. Members(s) = X
  BY <1>5, <1>7, <1>10 DEF Surjection, Members
<1> QED BY <1>6, <1>7, <1>11 DEF Injective, s

-----------------------------------------------------------------------------
(* NetworkManager.                                                         *)

\* What the manager knows and has told
NMKnowledge == [nodes : Seq(P!NM!NMDevice), calls : Seq(P!NM!Calls), told : [Devices -> Int]]

\* What is known when the i-th NMDevice becomes x: what was told follows its contexts.
Swap(m, i, x, calls) ==
    [nodes |-> [m.nodes EXCEPT ![i] = x], calls |-> calls,
     told |-> [m.told EXCEPT ![x.device] = @ + (x.contexts - m.nodes[i].contexts)]]

\* ... written as the code does
SetNode(m, i, x) == [m EXCEPT !.nodes[i] = x]
SetNodeAndCalls(m, i, x, calls) == [m EXCEPT !.nodes[i] = x, !.calls = calls]

\* The fields of an NMDevice
LEMMA NodeFields ==
  ASSUME NEW x \in P!NM!NMDevice
  PROVE  /\ x.device \in Devices /\ x.listed \in BOOLEAN /\ x.connected \in BOOLEAN
         /\ x.state \in P!NM!DeviceStates /\ x.ap_calls \in Nat /\ x.contexts \in Nat
BY DEF P!NM!NMDevice

\* What is known has its type.
LEMMA NMFields ==
  ASSUME NEW m \in NMKnowledge
  PROVE  /\ m.nodes \in Seq(P!NM!NMDevice) /\ m.calls \in Seq(P!NM!Calls)
         /\ m.told \in [Devices -> Int]
         /\ m = [nodes |-> m.nodes, calls |-> m.calls, told |-> m.told]
         /\ Len(m.nodes) \in Nat
         /\ \A i \in 1 .. Len(m.nodes) : m.nodes[i] \in P!NM!NMDevice
BY DEF NMKnowledge

LEMMA SetNodeRecord ==
  ASSUME NEW m \in NMKnowledge, NEW i, NEW x
  PROVE  SetNode(m, i, x)
           = [nodes |-> [m.nodes EXCEPT ![i] = x], calls |-> m.calls, told |-> m.told]
<1>1. ASSUME NEW a, NEW b, NEW c
      PROVE  SetNode([nodes |-> a, calls |-> b, told |-> c], i, x)
               = [nodes |-> [a EXCEPT ![i] = x], calls |-> b, told |-> c]
  BY DEF SetNode
<1>2. m = [nodes |-> m.nodes, calls |-> m.calls, told |-> m.told]
  BY NMFields
<1> DEFINE a == m.nodes
           b == m.calls
           c == m.told
<1> HIDE DEF a, b, c
<1>3. m = [nodes |-> a, calls |-> b, told |-> c]
  BY <1>2 DEF a, b, c
<1>4. SetNode(m, i, x) = [nodes |-> [a EXCEPT ![i] = x], calls |-> b, told |-> c]
  BY <1>1, <1>3
<1> QED BY <1>4 DEF a, b, c

\* An NMDevice changes and keeps its contexts.
LEMMA SetNodeIs ==
  ASSUME NEW m \in NMKnowledge, NEW i \in 1 .. Len(m.nodes), NEW x \in P!NM!NMDevice,
         x.contexts = m.nodes[i].contexts, NEW calls
  PROVE  /\ SetNode(m, i, x) = Swap(m, i, x, m.calls)
         /\ SetNodeAndCalls(m, i, x, calls) = Swap(m, i, x, calls)
<1>1. m.told \in [Devices -> Int] /\ x.device \in Devices /\ x.contexts \in Nat
  BY NMFields, NodeFields
<1>2. [m.told EXCEPT ![x.device] = @ + (x.contexts - m.nodes[i].contexts)] = m.told
  <2>1. m.told[x.device] + (x.contexts - m.nodes[i].contexts) = m.told[x.device]
    BY <1>1
  <2> DEFINE v == m.told[x.device] + (x.contexts - m.nodes[i].contexts)
  <2> HIDE DEF v
  <2>2. [m.told EXCEPT ![x.device] = v] = m.told
    BY <1>1, <2>1 DEF v
  <2> QED BY <2>2 DEF v
<1> DEFINE a == SetNode(m, i, x)
           b == SetNodeAndCalls(m, i, x, calls)
<1>3. a = [nodes |-> [m.nodes EXCEPT ![i] = x], calls |-> m.calls, told |-> m.told]
  BY SetNodeRecord
<1>4. b = [a EXCEPT !.calls = calls]
  BY DEF SetNode, SetNodeAndCalls
<1> HIDE DEF a, b
<1>5. b = [nodes |-> [m.nodes EXCEPT ![i] = x], calls |-> calls, told |-> m.told]
  BY Zenon, <1>3, <1>4
<1> QED BY Zenon, <1>2, <1>3, <1>5 DEF Swap, a, b

\* The i-th NMDevice and the others
LEMMA SwapFields ==
  ASSUME NEW m \in NMKnowledge, NEW i \in 1 .. Len(m.nodes), NEW x \in P!NM!NMDevice,
         NEW calls \in Seq(P!NM!Calls)
  PROVE  LET r == Swap(m, i, x, calls)
         IN /\ r \in NMKnowledge /\ r.calls = calls
            /\ Len(r.nodes) = Len(m.nodes) /\ r.nodes[i] = x
            /\ \A j \in 1 .. Len(m.nodes) : j # i => r.nodes[j] = m.nodes[j]
            /\ i \in 1 .. Len(r.nodes)
<1> DEFINE r == Swap(m, i, x, calls)
           told_ == [m.told EXCEPT ![x.device] = @ + (x.contexts - m.nodes[i].contexts)]
           nodes_ == [m.nodes EXCEPT ![i] = x]
<1>1. r = [nodes |-> nodes_, calls |-> calls, told |-> told_]
  BY DEF Swap
<1>2. /\ m.nodes \in Seq(P!NM!NMDevice) /\ m.told \in [Devices -> Int]
      /\ x.device \in Devices /\ x.contexts \in Nat /\ m.nodes[i].contexts \in Nat
  BY NMFields, NodeFields
<1>3. /\ nodes_ \in Seq(P!NM!NMDevice) /\ Len(nodes_) = Len(m.nodes) /\ nodes_[i] = x
      /\ \A j \in 1 .. Len(m.nodes) : j # i => nodes_[j] = m.nodes[j]
  BY <1>2
<1>4. told_ \in [Devices -> Int]
  BY <1>2
<1> HIDE DEF nodes_, told_, r
<1>5. r \in NMKnowledge
  BY <1>1, <1>3, <1>4 DEF NMKnowledge
<1> QED BY <1>1, <1>3, <1>5 DEF r, nodes_, told_

\* A second change of the same NMDevice
LEMMA SwapTwice ==
  ASSUME NEW m \in NMKnowledge, NEW i \in 1 .. Len(m.nodes),
         NEW x \in P!NM!NMDevice, NEW y \in P!NM!NMDevice, y.device = x.device,
         NEW calls \in Seq(P!NM!Calls), NEW last
  PROVE  Swap(Swap(m, i, x, calls), i, y, last) = Swap(m, i, y, last)
<1> DEFINE r == Swap(m, i, x, calls)
           d == x.device
           a == x.contexts
           b == y.contexts
           c == m.nodes[i].contexts
<1>1. /\ m.nodes \in Seq(P!NM!NMDevice) /\ m.told \in [Devices -> Int]
      /\ d \in Devices /\ a \in Nat /\ b \in Nat /\ c \in Nat /\ m.told[d] \in Int
  BY NMFields, NodeFields
<1>2. r.nodes = [m.nodes EXCEPT ![i] = x] /\ r.told = [m.told EXCEPT ![d] = m.told[d] + (a - c)]
      /\ r.nodes[i] = x
  <2>1. r.nodes = [m.nodes EXCEPT ![i] = x] /\ r.told = [m.told EXCEPT ![d] = m.told[d] + (a - c)]
    BY DEF Swap
  <2> HIDE DEF r
  <2>2. r.nodes[i] = x
    BY <1>1, <2>1
  <2> QED BY <2>1, <2>2
<1> HIDE DEF r
<1>3. [r.nodes EXCEPT ![i] = y] = [m.nodes EXCEPT ![i] = y]
  BY Zenon, <1>1, <1>2
<1>4. r.told[d] + (b - a) = m.told[d] + (b - c)
  BY SMTT(30), <1>1, <1>2
<1>5. [r.told EXCEPT ![d] = r.told[d] + (b - a)] = [m.told EXCEPT ![d] = m.told[d] + (b - c)]
  <2> DEFINE v == m.told[d] + (b - c)
             u == m.told[d] + (a - c)
  <2> HIDE DEF v, u, d
  <2>1. [[m.told EXCEPT ![d] = u] EXCEPT ![d] = v] = [m.told EXCEPT ![d] = v]
    BY <1>1
  <2> QED BY <1>2, <1>4, <2>1 DEF u, v, d
<1>6. Swap(r, i, y, last)
        = [nodes |-> [r.nodes EXCEPT ![i] = y], calls |-> last,
           told |-> [r.told EXCEPT ![d] = r.told[d] + (b - a)]]
  BY Zenon, <1>2 DEF Swap
<1> QED BY Zenon, <1>3, <1>5, <1>6 DEF Swap, r

-----------------------------------------------------------------------------
\* The helpers, as changes of an NMDevice
Unrefd(x) ==
    IF x.listed \/ x.ap_calls > 0 THEN x ELSE [x EXCEPT !.connected = FALSE, !.contexts = 0]
ActivatedNode(x, n) ==
    IF x.device \in Wifi THEN [x EXCEPT !.ap_calls = @ + 1] ELSE [x EXCEPT !.contexts = @ + n]
ActivatedCalls(x, i, calls) ==
    IF x.device \in Wifi THEN Append(calls, [call |-> "ap", node |-> i]) ELSE calls

LEMMA ContextsAre ==
  ASSUME NEW m \in NMKnowledge, NEW i \in 1 .. Len(m.nodes), NEW n \in Nat
  PROVE  /\ P!NM!CreateContext(m, i, n)
              = Swap(m, i, [m.nodes[i] EXCEPT !.contexts = @ + n], m.calls)
         /\ P!NM!DestroyContexts(m, i)
              = Swap(m, i, [m.nodes[i] EXCEPT !.contexts = 0], m.calls)
<1> DEFINE x == m.nodes[i]
           y == [x EXCEPT !.contexts = x.contexts + n]
           z == [x EXCEPT !.contexts = 0]
           a == [m EXCEPT !.nodes[i].contexts = @ + n]
           b == [m EXCEPT !.nodes[i].contexts = 0]
<1>1. x \in P!NM!NMDevice /\ x.device \in Devices /\ x.contexts \in Nat
      /\ m.told \in [Devices -> Int]
  BY NMFields, NodeFields
<1>2. /\ y.device = x.device /\ y.contexts - x.contexts = n
      /\ z.device = x.device /\ z.contexts - x.contexts = -x.contexts
  BY <1>1 DEF P!NM!NMDevice
<1>3. a = SetNode(m, i, y) /\ b = SetNode(m, i, z)
  BY DEF SetNode
<1> HIDE DEF y, z, a, b
<1>4. /\ a = [nodes |-> [m.nodes EXCEPT ![i] = y], calls |-> m.calls, told |-> m.told]
      /\ b = [nodes |-> [m.nodes EXCEPT ![i] = z], calls |-> m.calls, told |-> m.told]
  BY <1>3, SetNodeRecord
<1>5. /\ P!NM!CreateContext(m, i, n) = [a EXCEPT !.told[x.device] = @ + n]
      /\ P!NM!DestroyContexts(m, i) = [b EXCEPT !.told[x.device] = @ + (-x.contexts)]
  BY DEF P!NM!CreateContext, P!NM!DestroyContexts, P!NM!Tell, a, b
<1>6. /\ P!NM!CreateContext(m, i, n) = Swap(m, i, y, m.calls)
      /\ P!NM!DestroyContexts(m, i) = Swap(m, i, z, m.calls)
  BY ZenonT(60), <1>2, <1>4, <1>5 DEF Swap
<1> QED BY <1>6 DEF y, z

\* nm_device_unref()
LEMMA UnrefIs ==
  ASSUME NEW m \in NMKnowledge, NEW i \in 1 .. Len(m.nodes)
  PROVE  P!NM!Unref(m, i) = Swap(m, i, Unrefd(m.nodes[i]), m.calls)
<1> DEFINE x == m.nodes[i]
           y == [x EXCEPT !.connected = FALSE]
           z == [x EXCEPT !.connected = FALSE, !.contexts = 0]
           a == [m EXCEPT !.nodes[i].connected = FALSE]
<1>1. x \in P!NM!NMDevice /\ m.calls \in Seq(P!NM!Calls)
  BY NMFields
<1>2. CASE x.listed \/ x.ap_calls > 0
  <2>1. Unrefd(x) = x /\ P!NM!Unref(m, i) = m
    BY <1>2 DEF Unrefd, P!NM!Unref
  <2>2. SetNode(m, i, x) = m
    <3>1. [m.nodes EXCEPT ![i] = x] = m.nodes
      BY NMFields
    <3>2. SetNode(m, i, x)
            = [nodes |-> [m.nodes EXCEPT ![i] = x], calls |-> m.calls, told |-> m.told]
      BY SetNodeRecord
    <3>3. m = [nodes |-> m.nodes, calls |-> m.calls, told |-> m.told]
      BY NMFields
    <3> QED BY <3>1, <3>2, <3>3
  <2>3. SetNode(m, i, x) = Swap(m, i, x, m.calls)
    BY <1>1, SetNodeIs
  <2> QED BY <2>1, <2>2, <2>3
<1>3. CASE ~(x.listed \/ x.ap_calls > 0)
  <2>1. Unrefd(x) = z /\ P!NM!Unref(m, i) = P!NM!DestroyContexts(a, i)
    BY <1>3 DEF Unrefd, P!NM!Unref
  <2>2. /\ y \in P!NM!NMDevice /\ y.contexts = x.contexts /\ y.device = x.device
    BY Zenon, <1>1 DEF P!NM!NMDevice
  <2>8. z \in P!NM!NMDevice /\ z.device = x.device
    BY Zenon, <1>1 DEF P!NM!NMDevice
  <2>9. z = [y EXCEPT !.contexts = 0]
    BY <1>1 DEF P!NM!NMDevice
  <2>3. a = SetNode(m, i, y)
    BY DEF SetNode
  <2> HIDE DEF y, a
  <2>4. a = Swap(m, i, y, m.calls)
    BY <2>2, <2>3, SetNodeIs
  <2>5. a \in NMKnowledge /\ i \in 1 .. Len(a.nodes) /\ a.nodes[i] = y /\ a.calls = m.calls
    <3> HIDE DEF x, z
    <3>1. y \in P!NM!NMDevice BY <2>2
    <3>2. m.calls \in Seq(P!NM!Calls) BY <1>1
    <3> QED BY <3>1, <3>2, <2>4, SwapFields
  <2>6. P!NM!DestroyContexts(a, i) = Swap(a, i, z, m.calls)
    BY Zenon, <2>5, <2>9, ContextsAre
  <2> HIDE DEF z
  <2>7. Swap(a, i, z, m.calls) = Swap(m, i, z, m.calls)
    BY <1>1, <2>2, <2>4, <2>8, SwapTwice
  <2> QED BY <2>1, <2>6, <2>7
<1> QED BY <1>2, <1>3

\* on_device_activated()
LEMMA ActivatedIs ==
  ASSUME NEW m \in NMKnowledge, NEW i \in 1 .. Len(m.nodes), NEW n \in Nat
  PROVE  P!NM!Activated(m, i, n)
           = Swap(m, i, ActivatedNode(m.nodes[i], n), ActivatedCalls(m.nodes[i], i, m.calls))
<1> DEFINE x == m.nodes[i]
           y == [x EXCEPT !.ap_calls = x.ap_calls + 1]
           calls == Append(m.calls, [call |-> "ap", node |-> i])
           a == P!NM!Activated(m, i, n)
<1>1. x \in P!NM!NMDevice
  BY NMFields
<1>2. CASE x.device \in Wifi
  <2>1. a = SetNodeAndCalls(m, i, y, calls)
    BY <1>2 DEF P!NM!Activated, SetNodeAndCalls
  <2>2. ActivatedNode(x, n) = y /\ ActivatedCalls(x, i, m.calls) = calls
    BY <1>2 DEF ActivatedNode, ActivatedCalls
  <2>3. y \in P!NM!NMDevice /\ y.contexts = x.contexts
    BY <1>1 DEF P!NM!NMDevice
  <2> HIDE DEF y, calls, a
  <2>4. a = Swap(m, i, y, calls)
    BY <2>1, <2>3, SetNodeIs
  <2> QED BY <2>2, <2>4 DEF a
<1>3. CASE x.device \notin Wifi
  <2>1. a = P!NM!CreateContext(m, i, n)
    BY <1>3 DEF P!NM!Activated
  <2>2. ActivatedNode(x, n) = [x EXCEPT !.contexts = @ + n] /\ ActivatedCalls(x, i, m.calls) = m.calls
    BY <1>3 DEF ActivatedNode, ActivatedCalls
  <2> HIDE DEF a
  <2> QED BY ZenonT(60), <2>1, <2>2, ContextsAre DEF a
<1> QED BY <1>2, <1>3

\* An activated NMDevice is one.
LEMMA ActivatedType ==
  ASSUME NEW x \in P!NM!NMDevice, NEW n \in Nat, NEW i \in Nat, NEW calls \in Seq(P!NM!Calls)
  PROVE  /\ ActivatedNode(x, n) \in P!NM!NMDevice /\ ActivatedNode(x, n).device = x.device
         /\ ActivatedNode(x, n).listed = x.listed /\ ActivatedNode(x, n).connected = x.connected
         /\ ActivatedNode(x, n).state = x.state
         /\ ActivatedCalls(x, i, calls) \in Seq(P!NM!Calls)
         /\ x.device \in Wifi => /\ ActivatedNode(x, n).ap_calls = x.ap_calls + 1
                                 /\ ActivatedNode(x, n).contexts = x.contexts
         /\ x.device \notin Wifi => /\ ActivatedNode(x, n).ap_calls = x.ap_calls
                                    /\ ActivatedNode(x, n).contexts = x.contexts + n
<1>1. [call |-> "ap", node |-> i] \in P!NM!Calls
  BY DEF P!NM!Calls
<1>2. ActivatedCalls(x, i, calls) \in Seq(P!NM!Calls)
  BY <1>1 DEF ActivatedCalls
<1>3. CASE x.device \in Wifi
  <2>1. ActivatedNode(x, n) = [x EXCEPT !.ap_calls = x.ap_calls + 1]
    BY <1>3 DEF ActivatedNode
  <2> QED BY SMTT(30), <1>2, <1>3, <2>1 DEF P!NM!NMDevice
<1>4. CASE x.device \notin Wifi
  <2> DEFINE y == [x EXCEPT !.contexts = x.contexts + n]
  <2>1. ActivatedNode(x, n) = y
    BY <1>4 DEF ActivatedNode
  <2>2. /\ y \in P!NM!NMDevice /\ y.device = x.device
        /\ y.listed = x.listed /\ y.connected = x.connected /\ y.state = x.state
        /\ y.ap_calls = x.ap_calls /\ y.contexts = x.contexts + n
    BY DEF P!NM!NMDevice
  <2> HIDE DEF y
  <2> QED BY <1>2, <1>4, <2>1, <2>2
<1> QED BY <1>3, <1>4

\* So is one that is let go of.
LEMMA UnrefdType ==
  ASSUME NEW x \in P!NM!NMDevice
  PROVE  LET y == Unrefd(x)
         IN /\ y \in P!NM!NMDevice /\ y.device = x.device /\ y.listed = x.listed
            /\ y.state = x.state /\ y.ap_calls = x.ap_calls
            /\ x.listed \/ x.ap_calls > 0 => y = x
            /\ ~(x.listed \/ x.ap_calls > 0) => ~y.connected /\ y.contexts = 0
<1>1. CASE x.listed \/ x.ap_calls > 0
  <2>1. Unrefd(x) = x
    BY <1>1 DEF Unrefd
  <2> QED BY <1>1, <2>1
<1>2. CASE ~(x.listed \/ x.ap_calls > 0)
  <2> DEFINE y == [x EXCEPT !.connected = FALSE, !.contexts = 0]
  <2>1. Unrefd(x) = y
    BY <1>2 DEF Unrefd
  <2>2. /\ y \in P!NM!NMDevice /\ y.device = x.device
        /\ y.listed = x.listed /\ ~y.connected /\ y.state = x.state
        /\ y.ap_calls = x.ap_calls /\ y.contexts = 0
    BY Zenon DEF P!NM!NMDevice
  <2> HIDE DEF y
  <2> QED BY <1>2, <2>1, <2>2
<1> QED BY <1>1, <1>2

\* The helpers after an NMDevice has changed
LEMMA ThenHelpers ==
  ASSUME NEW m \in NMKnowledge, NEW i \in 1 .. Len(m.nodes), NEW y \in P!NM!NMDevice,
         NEW calls \in Seq(P!NM!Calls), NEW n \in Nat
  PROVE  LET a == Swap(m, i, y, calls)
         IN /\ P!NM!Unref(a, i) = Swap(m, i, Unrefd(y), calls)
            /\ P!NM!Activated(a, i, n)
                 = Swap(m, i, ActivatedNode(y, n), ActivatedCalls(y, i, calls))
            /\ P!NM!CreateContext(a, i, n) = Swap(m, i, [y EXCEPT !.contexts = @ + n], calls)
            /\ P!NM!DestroyContexts(a, i) = Swap(m, i, [y EXCEPT !.contexts = 0], calls)
<1> DEFINE a == Swap(m, i, y, calls)
           u == Unrefd(y)
           v == ActivatedNode(y, n)
           w == [y EXCEPT !.contexts = @ + n]
           z == [y EXCEPT !.contexts = 0]
           more == ActivatedCalls(y, i, calls)
<1>1. a \in NMKnowledge /\ a.calls = calls /\ i \in 1 .. Len(a.nodes) /\ a.nodes[i] = y
  BY SwapFields
<1>2. u \in P!NM!NMDevice /\ u.device = y.device
  BY UnrefdType
<1>3. v \in P!NM!NMDevice /\ v.device = y.device
  BY ActivatedType
<1>4. w \in P!NM!NMDevice /\ w.device = y.device
  BY SMTT(30) DEF P!NM!NMDevice
<1>5. z \in P!NM!NMDevice /\ z.device = y.device
  BY DEF P!NM!NMDevice
<1> HIDE DEF a
<1>6. P!NM!Unref(a, i) = Swap(a, i, u, calls)
  BY <1>1, UnrefIs
<1>7. P!NM!Activated(a, i, n) = Swap(a, i, v, more)
  BY <1>1, ActivatedIs
<1>8. P!NM!CreateContext(a, i, n) = Swap(a, i, w, calls)
      /\ P!NM!DestroyContexts(a, i) = Swap(a, i, z, calls)
  BY Zenon, <1>1, ContextsAre
<1> HIDE DEF u, v, w, z, more
<1>9. Swap(a, i, u, calls) = Swap(m, i, u, calls)
  BY <1>2, SwapTwice DEF a
<1>10. Swap(a, i, v, more) = Swap(m, i, v, more)
  BY <1>3, SwapTwice DEF a
<1>11. Swap(a, i, w, calls) = Swap(m, i, w, calls)
  BY <1>4, SwapTwice DEF a
<1>12. Swap(a, i, z, calls) = Swap(m, i, z, calls)
  BY <1>5, SwapTwice DEF a
<1> QED BY <1>6, <1>7, <1>8, <1>9, <1>10, <1>11, <1>12 DEF a, u, v, w, z, more

\* nm_device_unref() of one of the list
LEMMA UnlistedIs ==
  ASSUME NEW m \in NMKnowledge, NEW i \in 1 .. Len(m.nodes)
  PROVE  P!NM!Unlisted(m, i) = Swap(m, i, Unrefd([m.nodes[i] EXCEPT !.listed = FALSE]), m.calls)
<1> DEFINE x == m.nodes[i]
           y == [x EXCEPT !.listed = FALSE]
           a == [m EXCEPT !.nodes[i].listed = FALSE]
<1>1. x \in P!NM!NMDevice /\ m.calls \in Seq(P!NM!Calls)
  BY NMFields
<1>2. y \in P!NM!NMDevice /\ y.contexts = x.contexts
  BY Zenon, <1>1 DEF P!NM!NMDevice
<1>3. a = SetNode(m, i, y)
  BY DEF SetNode
<1>4. P!NM!Unlisted(m, i) = P!NM!Unref(a, i)
  BY DEF P!NM!Unlisted
<1> HIDE DEF y, a
<1>5. a = Swap(m, i, y, m.calls)
  BY <1>2, <1>3, SetNodeIs
<1>6. 0 \in Nat OBVIOUS
<1>7. P!NM!Unref(Swap(m, i, y, m.calls), i) = Swap(m, i, Unrefd(y), m.calls)
  BY Zenon, <1>1, <1>2, <1>6, ThenHelpers
<1> QED BY <1>4, <1>5, <1>7 DEF y

\* use_new_device()
NewlyUsed(x) == [x EXCEPT !.listed = TRUE, !.connected = TRUE]

LEMMA UseNewDeviceIs ==
  ASSUME NEW m \in NMKnowledge, NEW i \in 1 .. Len(m.nodes), NEW n \in Nat
  PROVE  LET y == NewlyUsed(m.nodes[i])
         IN /\ y \in P!NM!NMDevice /\ y.device = m.nodes[i].device
            /\ y.state = m.nodes[i].state /\ y.listed /\ y.connected
            /\ y.ap_calls = m.nodes[i].ap_calls /\ y.contexts = m.nodes[i].contexts
            /\ P!NM!UseNewDevice(m, i, n)
                 = IF y.state = "activated"
                   THEN Swap(m, i, ActivatedNode(y, n), ActivatedCalls(y, i, m.calls))
                   ELSE Swap(m, i, y, m.calls)
<1> DEFINE x == m.nodes[i]
           y == NewlyUsed(x)
           a == [m EXCEPT !.nodes[i].listed = TRUE, !.nodes[i].connected = TRUE]
<1>1. x \in P!NM!NMDevice /\ m.calls \in Seq(P!NM!Calls)
  BY NMFields
<1>2. /\ y \in P!NM!NMDevice /\ y.device = x.device /\ y.state = x.state
      /\ y.listed /\ y.connected
      /\ y.ap_calls = x.ap_calls /\ y.contexts = x.contexts
  BY Zenon, <1>1 DEF P!NM!NMDevice, NewlyUsed
<1>3. a = SetNode(m, i, y)
  <2> DEFINE z == [x EXCEPT !.listed = TRUE]
             b == SetNode(m, i, z)
  <2>1. a = [b EXCEPT !.nodes[i].connected = TRUE]
    BY DEF SetNode
  <2> HIDE DEF b, a
  <2>2. b = [nodes |-> [m.nodes EXCEPT ![i] = z], calls |-> m.calls, told |-> m.told]
    <3> HIDE DEF z
    <3> QED BY SetNodeRecord DEF b
  <2>3. [m.nodes EXCEPT ![i] = z][i] = z
    BY NMFields
  <2>4. y = [z EXCEPT !.connected = TRUE]
    BY <1>1 DEF NewlyUsed, P!NM!NMDevice
  <2>5. [[m.nodes EXCEPT ![i] = z] EXCEPT ![i] = y] = [m.nodes EXCEPT ![i] = y]
    BY NMFields
  <2> HIDE DEF z, y
  <2>6. a = [nodes |-> [m.nodes EXCEPT ![i] = y], calls |-> m.calls, told |-> m.told]
    BY Zenon, <2>1, <2>2, <2>3, <2>4, <2>5
  <2> QED BY <2>6, SetNodeRecord
<1>4. P!NM!UseNewDevice(m, i, n)
        = IF x.state = "activated" THEN P!NM!Activated(a, i, n) ELSE a
  BY DEF P!NM!UseNewDevice
<1> HIDE DEF y, a
<1>5. a = Swap(m, i, y, m.calls)
  BY <1>2, <1>3, SetNodeIs
<1>6. P!NM!Activated(Swap(m, i, y, m.calls), i, n)
        = Swap(m, i, ActivatedNode(y, n), ActivatedCalls(y, i, m.calls))
  BY ZenonT(60), <1>1, <1>2, ThenHelpers
<1> QED BY <1>2, <1>4, <1>5, <1>6 DEF y

\* on_device_signal() of one NMDevice
LEMMA DeviceSignalIs ==
  ASSUME NEW m \in NMKnowledge, NEW i \in 1 .. Len(m.nodes), NEW n \in Nat,
         NEW new \in P!NM!DeviceStates
  PROVE  LET y == [m.nodes[i] EXCEPT !.state = new]
         IN P!NM!DeviceSignal(m, i, new, n)
              = IF ~m.nodes[i].connected THEN Swap(m, i, y, m.calls)
                ELSE IF new = "activated"
                THEN Swap(m, i, ActivatedNode(y, n), ActivatedCalls(y, i, m.calls))
                ELSE Swap(m, i, [y EXCEPT !.contexts = 0], m.calls)
<1> DEFINE x == m.nodes[i]
           y == [x EXCEPT !.state = new]
           a == [m EXCEPT !.nodes[i].state = new]
<1>1. x \in P!NM!NMDevice /\ m.calls \in Seq(P!NM!Calls)
  BY NMFields
<1>2. y \in P!NM!NMDevice /\ y.contexts = x.contexts
  BY Zenon, <1>1 DEF P!NM!NMDevice
<1>3. a = SetNode(m, i, y)
  BY DEF SetNode
<1>4. P!NM!DeviceSignal(m, i, new, n)
        = IF ~x.connected THEN a
          ELSE IF new = "activated" THEN P!NM!Activated(a, i, n)
          ELSE P!NM!DestroyContexts(a, i)
  BY DEF P!NM!DeviceSignal
<1> HIDE DEF y, a
<1>5. a = Swap(m, i, y, m.calls)
  BY <1>2, <1>3, SetNodeIs
<1>6. LET b == Swap(m, i, y, m.calls)
      IN /\ P!NM!Activated(b, i, n)
              = Swap(m, i, ActivatedNode(y, n), ActivatedCalls(y, i, m.calls))
         /\ P!NM!DestroyContexts(b, i) = Swap(m, i, [y EXCEPT !.contexts = 0], m.calls)
  BY ZenonT(60), <1>1, <1>2, ThenHelpers
<1> QED BY <1>4, <1>5, <1>6 DEF y

-----------------------------------------------------------------------------
\* A wired NMDevice is connected as long as it is listed; it has no call, and contexts
\* only while it is activated.
ProperNode(x) ==
    /\ x.state # "none"
    /\ x.device \notin Wifi =>
          /\ x.connected = x.listed
          /\ x.contexts > 0 => x.connected /\ x.state = "activated"
          /\ x.ap_calls = 0

\* Something that names an NMDevice names a wireless one.
NamesWifi(c, nodes) == c.node \in 1 .. Len(nodes) /\ nodes[c.node].device \in Wifi

\* The messages on the bus
NMMessages ==
    [type : {"GetDevices"}, devices : SUBSET Devices]
    \cup [type : {"device"}, device : Devices, state : P!NM!DeviceStates]
    \cup [type : {"wifi", "ap"}, node : Nat]
    \cup [type : {"DeviceAdded", "DeviceRemoved"}, device : Devices]
    \cup [type : {"StateChanged"}, device : Devices, state : {"disconnected", "activated"}]

\* Weights that count the calls and the answers for the access point of an NMDevice,
\* and the contexts of a device
CallsFor(i) == [c \in P!NM!Calls |-> IF c.call = "ap" /\ c.node = i THEN 1 ELSE 0]
AnswersFor(i) == [e \in NMMessages |-> IF e.type = "ap" /\ e.node = i THEN 1 ELSE 0]
ContextsOf(d) == [x \in P!NM!NMDevice |-> IF x.device = d THEN x.contexts ELSE 0]

\* What was told is what the NMDevices hold.
Tied(m) ==
    /\ m \in NMKnowledge
    /\ \A i \in 1 .. Len(m.nodes) : ProperNode(m.nodes[i])
    /\ \A d \in Devices : m.told[d] = Weigh(m.nodes, ContextsOf(d))

\* Calls and messages name the NMDevice they are for, ...
Named(calls, q, nodes) ==
    /\ \A k \in 1 .. Len(calls) : calls[k].call \in {"wifi", "ap"} => NamesWifi(calls[k], nodes)
    /\ \A k \in 1 .. Len(q) : q[k].type \in {"wifi", "ap"} => NamesWifi(q[k], nodes)

\* ... which counts those for its access point.
Counted(calls, q, nodes) ==
    \A i \in 1 .. Len(nodes) :
        nodes[i].ap_calls = Weigh(calls, CallsFor(i)) + Weigh(q, AnswersFor(i))

Sound(m, q) == Tied(m) /\ Named(m.calls, q, m.nodes) /\ Counted(m.calls, q, m.nodes)

\* The weights are numbers.
LEMMA WeightTypes ==
  ASSUME NEW i
  PROVE  /\ CallsFor(i) \in [P!NM!Calls -> Int] /\ AnswersFor(i) \in [NMMessages -> Int]
         /\ ContextsOf(i) \in [P!NM!NMDevice -> Int]
         /\ \A c \in P!NM!Calls : CallsFor(i)[c] = IF c.call = "ap" /\ c.node = i THEN 1 ELSE 0
         /\ \A e \in NMMessages : AnswersFor(i)[e] = IF e.type = "ap" /\ e.node = i THEN 1 ELSE 0
         /\ \A x \in P!NM!NMDevice :
               ContextsOf(i)[x] = IF x.device = i THEN x.contexts ELSE 0
<1>1. \A x \in P!NM!NMDevice : x.contexts \in Nat
  BY NodeFields
<1> QED BY <1>1 DEF CallsFor, AnswersFor, ContextsOf

\* A change of an NMDevice that stays proper keeps what was told tied to it.
LEMMA SwapTied ==
  ASSUME NEW m, Tied(m), NEW i \in 1 .. Len(m.nodes), NEW x \in P!NM!NMDevice,
         ProperNode(x), x.device = m.nodes[i].device, NEW calls \in Seq(P!NM!Calls)
  PROVE  Tied(Swap(m, i, x, calls))
<1> DEFINE r == Swap(m, i, x, calls)
           Z == P!NM!NMDevice
           y == m.nodes[i]
           e == x.device
<1>1. /\ m \in NMKnowledge /\ m.nodes \in Seq(Z) /\ m.told \in [Devices -> Int]
      /\ y \in Z /\ e \in Devices /\ x.contexts \in Nat /\ y.contexts \in Nat
  BY NMFields, NodeFields DEF Tied
<1>2. /\ r \in NMKnowledge /\ Len(r.nodes) = Len(m.nodes) /\ r.nodes[i] = x
      /\ \A j \in 1 .. Len(m.nodes) : j # i => r.nodes[j] = m.nodes[j]
  BY <1>1, SwapFields
<1>3. \A j \in 1 .. Len(r.nodes) : ProperNode(r.nodes[j])
  <2> HIDE DEF r
  <2> QED BY <1>2 DEF Tied
<1>4. ASSUME NEW d \in Devices PROVE r.told[d] = Weigh(r.nodes, ContextsOf(d))
  <2> DEFINE w == ContextsOf(d)
             s == [m.nodes EXCEPT ![i] = x]
  <2>1. w \in [Z -> Int] /\ w[x] = (IF e = d THEN x.contexts ELSE 0)
        /\ w[y] = (IF e = d THEN y.contexts ELSE 0)
    BY SMTT(30), <1>1, WeightTypes
  <2>2. /\ r.nodes = s
        /\ r.told = [m.told EXCEPT ![e] = m.told[e] + (x.contexts - y.contexts)]
    BY DEF Swap
  <2>3. Weigh(s, w) = Weigh(m.nodes, w) - w[y] + w[x]
    <3> DEFINE q == m.nodes
    <3>1. q \in Seq(Z) BY <1>1
    <3>2. w \in [Z -> Int] BY <2>1
    <3> HIDE DEF w, Z, q
    <3>3. i \in 1 .. Len(q) BY DEF q
    <3>4. x \in Z BY DEF Z
    <3>5. Weigh([q EXCEPT ![i] = x], w) = Weigh(q, w) - w[q[i]] + w[x]
      BY ZenonT(60), <3>1, <3>2, <3>3, <3>4, WeighReplace
    <3> QED BY <3>5 DEF q
  <2>4. m.told[d] = Weigh(m.nodes, w) /\ m.told[d] \in Int
    BY <1>1 DEF Tied
  <2> HIDE DEF r, s, w, Z, y, e
  <2>5. r.told[d] = IF d = e THEN m.told[d] + (x.contexts - y.contexts) ELSE m.told[d]
    BY <1>1, <2>2
  <2>6. r.told[d] = Weigh(s, w)
    BY <1>1, <2>1, <2>3, <2>4, <2>5
  <2> QED BY <2>2, <2>6 DEF w
<1> QED BY <1>2, <1>3, <1>4 DEF Tied

\* More NMDevices, and their devices are the same.
Grows(nodes, more) ==
    /\ Len(nodes) <= Len(more)
    /\ \A i \in 1 .. Len(nodes) : more[i].device = nodes[i].device

\* Names stay names.
LEMMA NamedGrows ==
  ASSUME NEW calls, NEW q, NEW nodes \in Seq(P!NM!NMDevice), NEW more \in Seq(P!NM!NMDevice),
         Named(calls, q, nodes), Grows(nodes, more)
  PROVE  Named(calls, q, more)
<1>1. ASSUME NEW c, NamesWifi(c, nodes) PROVE NamesWifi(c, more)
  <2>1. c.node \in 1 .. Len(nodes) /\ Len(nodes) \in Nat /\ Len(more) \in Nat
    BY <1>1 DEF NamesWifi
  <2>2. c.node \in 1 .. Len(more) /\ more[c.node].device = nodes[c.node].device
    BY <2>1 DEF Grows
  <2> QED BY <1>1, <2>2 DEF NamesWifi
<1> QED BY <1>1 DEF Named

\* An NMDevice changes, not its calls.
LEMMA SwapSound ==
  ASSUME NEW m, NEW q, Sound(m, q), NEW i \in 1 .. Len(m.nodes), NEW x \in P!NM!NMDevice,
         ProperNode(x), x.device = m.nodes[i].device, x.ap_calls = m.nodes[i].ap_calls
  PROVE  LET r == Swap(m, i, x, m.calls)
         IN /\ Sound(r, q) /\ Grows(m.nodes, r.nodes)
            /\ Len(r.nodes) = Len(m.nodes) /\ r.nodes[i] = x
            /\ \A j \in 1 .. Len(m.nodes) : j # i => r.nodes[j] = m.nodes[j]
<1> DEFINE r == Swap(m, i, x, m.calls)
<1>1. m \in NMKnowledge /\ m.calls \in Seq(P!NM!Calls) /\ Tied(m) /\ Len(m.nodes) \in Nat
  BY NMFields DEF Sound, Tied
<1>2. Tied(r)
  BY <1>1, SwapTied
<1>3. /\ r.calls = m.calls /\ Len(r.nodes) = Len(m.nodes) /\ r.nodes[i] = x
      /\ \A j \in 1 .. Len(m.nodes) : j # i => r.nodes[j] = m.nodes[j]
  BY SMTT(30), <1>1, SwapFields
<1>4. m.nodes \in Seq(P!NM!NMDevice) /\ r.nodes \in Seq(P!NM!NMDevice)
  BY <1>1, <1>2, NMFields DEF Tied
<1> HIDE DEF r
<1>5. \A j \in 1 .. Len(m.nodes) : /\ r.nodes[j].device = m.nodes[j].device
                                   /\ r.nodes[j].ap_calls = m.nodes[j].ap_calls
  BY <1>3
<1>6. Grows(m.nodes, r.nodes)
  BY <1>1, <1>3, <1>5 DEF Grows
<1>7. Named(r.calls, q, r.nodes)
  BY <1>3, <1>4, <1>6, NamedGrows DEF Sound
<1>8. Counted(r.calls, q, r.nodes)
  BY <1>3, <1>5 DEF Sound, Counted
<1> QED BY <1>2, <1>3, <1>6, <1>7, <1>8 DEF Sound, r

\* A wireless one calls for its access point.
LEMMA ApCallSound ==
  ASSUME NEW m, NEW q \in Seq(NMMessages), Sound(m, q), NEW i \in 1 .. Len(m.nodes),
         NEW x \in P!NM!NMDevice, ProperNode(x), x.device = m.nodes[i].device, x.device \in Wifi,
         x.ap_calls = m.nodes[i].ap_calls + 1
  PROVE  LET r == Swap(m, i, x, Append(m.calls, [call |-> "ap", node |-> i]))
         IN /\ Sound(r, q) /\ Grows(m.nodes, r.nodes)
            /\ Len(r.nodes) = Len(m.nodes) /\ r.nodes[i] = x
            /\ \A j \in 1 .. Len(m.nodes) : j # i => r.nodes[j] = m.nodes[j]
<1> DEFINE c == [call |-> "ap", node |-> i]
           calls == Append(m.calls, c)
           r == Swap(m, i, x, calls)
           F == P!NM!Calls
<1>1. m \in NMKnowledge /\ m.calls \in Seq(F) /\ Tied(m) /\ Len(m.nodes) \in Nat
  BY NMFields DEF Sound, Tied
<1>2. c \in F
  BY DEF P!NM!Calls
<1> HIDE DEF c
<1>3. /\ calls \in Seq(F) /\ Len(m.calls) \in Nat /\ Len(calls) = Len(m.calls) + 1
      /\ calls[Len(m.calls) + 1] = c /\ \A k \in 1 .. Len(m.calls) : calls[k] = m.calls[k]
  <2> HIDE DEF F
  <2> QED BY <1>1, <1>2, AppendFacts
<1>4. Tied(r)
  <2> HIDE DEF calls
  <2> QED BY <1>1, <1>3, SwapTied
<1>5. /\ r.calls = calls /\ Len(r.nodes) = Len(m.nodes) /\ r.nodes[i] = x
      /\ \A j \in 1 .. Len(m.nodes) : j # i => r.nodes[j] = m.nodes[j]
  <2> HIDE DEF calls
  <2> QED BY <1>1, <1>3, SwapFields
<1>6. m.nodes \in Seq(P!NM!NMDevice) /\ r.nodes \in Seq(P!NM!NMDevice)
  BY <1>1, <1>4, NMFields DEF Tied
<1> HIDE DEF r
<1>7. Grows(m.nodes, r.nodes)
  <2>1. \A j \in 1 .. Len(m.nodes) : r.nodes[j].device = m.nodes[j].device
    BY <1>5
  <2> QED BY <1>1, <1>5, <2>1 DEF Grows
<1>8. Named(r.calls, q, r.nodes)
  <2>1. Named(m.calls, q, r.nodes)
    BY <1>6, <1>7, NamedGrows DEF Sound
  <2>2. NamesWifi(c, r.nodes)
    BY <1>1, <1>5 DEF NamesWifi, c
  <2>3. ASSUME NEW k \in 1 .. Len(calls), calls[k].call \in {"wifi", "ap"}
        PROVE  NamesWifi(calls[k], r.nodes)
    <3>1. k \in 1 .. Len(m.calls) \/ k = Len(m.calls) + 1
      BY <1>3
    <3> HIDE DEF calls
    <3>2. CASE k \in 1 .. Len(m.calls)
      BY <1>3, <2>1, <2>3, <3>2 DEF Named
    <3>3. CASE k = Len(m.calls) + 1
      BY <1>3, <2>2, <3>3
    <3> QED BY <3>1, <3>2, <3>3
  <2> QED BY <1>5, <2>1, <2>3 DEF Named
<1>9. ASSUME NEW j \in 1 .. Len(m.nodes)
      PROVE  r.nodes[j].ap_calls = Weigh(calls, CallsFor(j)) + Weigh(q, AnswersFor(j))
  <2> DEFINE w == CallsFor(j)
             A == Weigh(q, AnswersFor(j))
  <2>1. w \in [F -> Int] /\ w[c] = IF j = i THEN 1 ELSE 0
    <3>1. w \in [F -> Int] /\ w[c] = IF c.call = "ap" /\ c.node = j THEN 1 ELSE 0
      BY <1>2, WeightTypes
    <3> QED BY <3>1 DEF c
  <2>2. Weigh(calls, w) = Weigh(m.calls, w) + w[c] /\ Weigh(m.calls, w) \in Int
    <3>1. w \in [F -> Int] BY <2>1
    <3>2. m.calls \in Seq(F) BY <1>1
    <3> HIDE DEF w, F
    <3> QED BY ZenonT(60), <1>2, <3>1, <3>2, WeighAppend, WeighType
  <2>3. m.nodes[j].ap_calls = Weigh(m.calls, w) + A
    BY DEF Sound, Counted
  <2>4. A \in Int
    <3>1. AnswersFor(j) \in [NMMessages -> Int] BY WeightTypes
    <3> QED BY <3>1, WeighType
  <2> HIDE DEF w, A, calls
  <2>5. r.nodes[j].ap_calls = Weigh(calls, w) + A
    BY SMTT(30), <1>5, <2>1, <2>2, <2>3, <2>4
  <2> QED BY <2>5 DEF w, A
<1>10. Counted(r.calls, q, r.nodes)
  BY <1>5, <1>9 DEF Counted
<1> QED BY <1>4, <1>5, <1>7, <1>8, <1>10 DEF Sound, r, c

-----------------------------------------------------------------------------
\* No NMDevice has come or changed its state.
SameStates(m, r) ==
    /\ Len(r.nodes) = Len(m.nodes)
    /\ \A i \in 1 .. Len(m.nodes) : /\ r.nodes[i].device = m.nodes[i].device
                                    /\ r.nodes[i].state = m.nodes[i].state

\* An NMDevice that is activated
LEMMA ActivatedSound ==
  ASSUME NEW m, NEW q \in Seq(NMMessages), Sound(m, q), NEW i \in 1 .. Len(m.nodes),
         NEW y \in P!NM!NMDevice, NEW n \in Nat,
         y.device = m.nodes[i].device, y.ap_calls = m.nodes[i].ap_calls,
         y.state = "activated", y.connected,
         y.device \notin Wifi => y.listed /\ y.ap_calls = 0
  PROVE  LET r == Swap(m, i, ActivatedNode(y, n), ActivatedCalls(y, i, m.calls))
         IN /\ Sound(r, q) /\ Grows(m.nodes, r.nodes)
            /\ Len(r.nodes) = Len(m.nodes)
            /\ r.nodes[i].state = "activated" /\ r.nodes[i].device = m.nodes[i].device
            /\ \A j \in 1 .. Len(m.nodes) : j # i => r.nodes[j] = m.nodes[j]
<1> DEFINE z == ActivatedNode(y, n)
<1>1. m \in NMKnowledge /\ m.calls \in Seq(P!NM!Calls) /\ Len(m.nodes) \in Nat /\ i \in Nat
  BY NMFields DEF Sound, Tied
<1>2. /\ z \in P!NM!NMDevice /\ z.device = y.device
      /\ z.listed = y.listed /\ z.connected = y.connected /\ z.state = y.state
      /\ y.device \in Wifi => z.ap_calls = y.ap_calls + 1
      /\ y.device \notin Wifi => z.ap_calls = y.ap_calls
  BY Zenon, <1>1, ActivatedType
<1> HIDE DEF z
<1>3. ProperNode(z)
  <2>1. z.connected /\ (y.device \notin Wifi => z.listed) /\ z.state = "activated"
    BY <1>2
  <2>2. z.connected \in BOOLEAN /\ z.listed \in BOOLEAN
    BY <1>2, NodeFields
  <2> QED BY Zenon, <1>2, <2>1, <2>2 DEF ProperNode
<1>4. CASE y.device \in Wifi
  <2>1. ActivatedCalls(y, i, m.calls) = Append(m.calls, [call |-> "ap", node |-> i])
    BY <1>4 DEF ActivatedCalls
  <2>2. z \in P!NM!NMDevice /\ z.device \in Wifi /\ z.device = m.nodes[i].device
        /\ z.ap_calls = m.nodes[i].ap_calls + 1
    BY <1>2, <1>4
  <2> DEFINE r == Swap(m, i, z, Append(m.calls, [call |-> "ap", node |-> i]))
  <2>3. /\ Sound(r, q) /\ Grows(m.nodes, r.nodes)
        /\ Len(r.nodes) = Len(m.nodes) /\ r.nodes[i] = z
        /\ \A j \in 1 .. Len(m.nodes) : j # i => r.nodes[j] = m.nodes[j]
    BY <1>3, <2>2, ApCallSound
  <2> HIDE DEF r
  <2> QED BY <1>2, <2>1, <2>3 DEF r, z
<1>5. CASE y.device \notin Wifi
  <2>1. ActivatedCalls(y, i, m.calls) = m.calls
    BY <1>5 DEF ActivatedCalls
  <2>2. z \in P!NM!NMDevice /\ z.device = m.nodes[i].device /\ z.ap_calls = m.nodes[i].ap_calls
    BY <1>2, <1>5
  <2> DEFINE r == Swap(m, i, z, m.calls)
  <2>3. /\ Sound(r, q) /\ Grows(m.nodes, r.nodes)
        /\ Len(r.nodes) = Len(m.nodes) /\ r.nodes[i] = z
        /\ \A j \in 1 .. Len(m.nodes) : j # i => r.nodes[j] = m.nodes[j]
    BY <1>3, <2>2, SwapSound
  <2> HIDE DEF r
  <2> QED BY <1>2, <2>1, <2>3 DEF r, z
<1> QED BY <1>4, <1>5

\* use_new_device()
LEMMA UseSound ==
  ASSUME NEW m, NEW q \in Seq(NMMessages), Sound(m, q), NEW i \in 1 .. Len(m.nodes), NEW n \in Nat
  PROVE  LET r == P!NM!UseNewDevice(m, i, n)
         IN Sound(r, q) /\ Grows(m.nodes, r.nodes) /\ SameStates(m, r)
<1> DEFINE x == m.nodes[i]
           y == NewlyUsed(x)
           r == P!NM!UseNewDevice(m, i, n)
<1>1. m \in NMKnowledge /\ Tied(m) /\ x \in P!NM!NMDevice /\ ProperNode(x)
  BY NMFields DEF Sound, Tied
<1>2. /\ y \in P!NM!NMDevice /\ y.device = x.device
      /\ y.state = x.state /\ y.listed /\ y.connected
      /\ y.ap_calls = x.ap_calls /\ y.contexts = x.contexts
      /\ r = IF y.state = "activated"
             THEN Swap(m, i, ActivatedNode(y, n), ActivatedCalls(y, i, m.calls))
             ELSE Swap(m, i, y, m.calls)
  BY <1>1, UseNewDeviceIs
<1> HIDE DEF r, y
<1>3. y.device \notin Wifi => y.ap_calls = 0
  BY <1>1, <1>2 DEF ProperNode
<1>4. CASE y.state = "activated"
  <2>1. /\ Sound(r, q) /\ Grows(m.nodes, r.nodes)
        /\ Len(r.nodes) = Len(m.nodes)
        /\ r.nodes[i].state = "activated" /\ r.nodes[i].device = m.nodes[i].device
        /\ \A j \in 1 .. Len(m.nodes) : j # i => r.nodes[j] = m.nodes[j]
    BY <1>2, <1>3, <1>4, ActivatedSound
  <2>2. SameStates(m, r)
    BY Zenon, <1>2, <1>4, <2>1 DEF SameStates
  <2> QED BY <2>1, <2>2 DEF r
<1>5. CASE y.state # "activated"
  <2>1. ProperNode(y)
    <3>1. y.connected \in BOOLEAN /\ y.listed \in BOOLEAN BY <1>2, NodeFields
    <3> QED BY <1>1, <1>2, <1>3, <3>1 DEF ProperNode
  <2>2. /\ Sound(r, q) /\ Grows(m.nodes, r.nodes)
        /\ Len(r.nodes) = Len(m.nodes) /\ r.nodes[i] = y
        /\ \A j \in 1 .. Len(m.nodes) : j # i => r.nodes[j] = m.nodes[j]
    BY <1>2, <1>5, <2>1, SwapSound
  <2>3. SameStates(m, r)
    BY ZenonT(60), <1>2, <2>2 DEF SameStates
  <2> QED BY <2>2, <2>3 DEF r
<1> QED BY <1>4, <1>5

\* nm_device_unref() of one of the list: a wired one is gone, whatever was going on.
LEMMA UnlistedSound ==
  ASSUME NEW m, NEW q, Sound(m, q), NEW i \in 1 .. Len(m.nodes)
  PROVE  LET r == P!NM!Unlisted(m, i)
         IN /\ Sound(r, q) /\ Grows(m.nodes, r.nodes) /\ SameStates(m, r)
            /\ m.nodes[i].device \notin Wifi => r.nodes[i].contexts = 0
            /\ \A j \in 1 .. Len(m.nodes) : j # i => r.nodes[j] = m.nodes[j]
<1> DEFINE x == m.nodes[i]
           y == [x EXCEPT !.listed = FALSE]
           z == Unrefd(y)
           r == P!NM!Unlisted(m, i)
<1>1. m \in NMKnowledge /\ Tied(m) /\ x \in P!NM!NMDevice /\ ProperNode(x)
  BY NMFields DEF Sound, Tied
<1>2. /\ y \in P!NM!NMDevice /\ y.device = x.device /\ ~y.listed
      /\ y.state = x.state /\ y.ap_calls = x.ap_calls
  BY Zenon, <1>1 DEF P!NM!NMDevice
<1>3. r = Swap(m, i, z, m.calls)
  BY <1>1, UnlistedIs
<1> HIDE DEF r, y
<1>4. /\ z \in P!NM!NMDevice /\ z.device = y.device /\ z.listed = y.listed
      /\ z.state = y.state /\ z.ap_calls = y.ap_calls
      /\ ~(y.listed \/ y.ap_calls > 0) => ~z.connected /\ z.contexts = 0
  BY <1>2, UnrefdType
<1> HIDE DEF z
<1>5. x.device \notin Wifi => ~z.connected /\ z.contexts = 0 /\ ~z.listed /\ z.ap_calls = 0
  <2>1. x.device \notin Wifi => y.ap_calls = 0
    BY <1>1, <1>2 DEF ProperNode
  <2>2. x.device \notin Wifi => ~(y.listed \/ y.ap_calls > 0)
    BY <1>2, <2>1
  <2> QED BY <1>2, <1>4, <2>1, <2>2
<1>6. ProperNode(z) /\ z.device = x.device /\ z.ap_calls = x.ap_calls /\ z.state = x.state
  <2>1. z.connected \in BOOLEAN /\ z.listed \in BOOLEAN BY <1>4, NodeFields
  <2> QED BY <1>1, <1>2, <1>4, <1>5, <2>1 DEF ProperNode
<1>7. /\ Sound(r, q) /\ Grows(m.nodes, r.nodes)
      /\ Len(r.nodes) = Len(m.nodes) /\ r.nodes[i] = z
      /\ \A j \in 1 .. Len(m.nodes) : j # i => r.nodes[j] = m.nodes[j]
  BY <1>3, <1>4, <1>6, SwapSound
<1>8. SameStates(m, r)
  BY <1>6, <1>7 DEF SameStates
<1> QED BY <1>5, <1>7, <1>8 DEF r

\* One call, or its answer, is still counted by the NMDevice it was for.
Overcounted(m, q, i) ==
    /\ Tied(m) /\ Named(m.calls, q, m.nodes)
    /\ i \in 1 .. Len(m.nodes) /\ m.nodes[i].device \in Wifi
    /\ \A j \in 1 .. Len(m.nodes) :
          m.nodes[j].ap_calls = Weigh(m.calls, CallsFor(j)) + Weigh(q, AnswersFor(j))
                                + (IF j = i THEN 1 ELSE 0)

\* The sums are not negative.
LEMMA CountsAreNat ==
  ASSUME NEW i, NEW calls \in Seq(P!NM!Calls), NEW q \in Seq(NMMessages)
  PROVE  Weigh(calls, CallsFor(i)) \in Nat /\ Weigh(q, AnswersFor(i)) \in Nat
<1> DEFINE w == CallsFor(i)
           v == AnswersFor(i)
<1>1. /\ w \in [P!NM!Calls -> Int] /\ \A c \in P!NM!Calls : w[c] >= 0
      /\ v \in [NMMessages -> Int] /\ \A e \in NMMessages : v[e] >= 0
  <2>1. /\ w \in [P!NM!Calls -> Int] /\ v \in [NMMessages -> Int]
        /\ \A c \in P!NM!Calls : w[c] = IF c.call = "ap" /\ c.node = i THEN 1 ELSE 0
        /\ \A e \in NMMessages : v[e] = IF e.type = "ap" /\ e.node = i THEN 1 ELSE 0
    BY WeightTypes
  <2> HIDE DEF w, v
  <2> QED BY <2>1
<1> HIDE DEF w, v
<1>2. \A n \in 1 .. Len(calls) : w[calls[n]] >= 0
  BY <1>1
<1>3. \A n \in 1 .. Len(q) : v[q[n]] >= 0
  BY <1>1
<1>4. Weigh(calls, w) \in Nat
  BY Zenon, <1>1, <1>2, WeighNat
<1>5. Weigh(q, v) \in Nat
  BY Zenon, <1>1, <1>3, WeighNat
<1> QED BY <1>4, <1>5 DEF w, v

\* It takes it back, may have got contexts, and is let go of if nothing else holds it.
LEMMA ReturnedSound ==
  ASSUME NEW m, NEW q \in Seq(NMMessages), NEW i, Overcounted(m, q, i), NEW n \in Nat
  PROVE  LET a == [m EXCEPT !.nodes[i].ap_calls = @ - 1]
             r == P!NM!Unref(P!NM!CreateContext(a, i, n), i)
             s == P!NM!Unref(a, i)
         IN /\ Sound(r, q) /\ Grows(m.nodes, r.nodes) /\ SameStates(m, r)
            /\ Sound(s, q) /\ Grows(m.nodes, s.nodes) /\ SameStates(m, s)
<1> DEFINE x == m.nodes[i]
           y == [x EXCEPT !.ap_calls = @ - 1]
           z == [y EXCEPT !.contexts = @ + n]
           a == [m EXCEPT !.nodes[i].ap_calls = @ - 1]
           b == P!NM!CreateContext(a, i, n)
           r == P!NM!Unref(b, i)
           s == P!NM!Unref(a, i)
           A == Weigh(m.calls, CallsFor(i))
           B == Weigh(q, AnswersFor(i))
<1>1. /\ m \in NMKnowledge /\ Tied(m) /\ i \in 1 .. Len(m.nodes) /\ x.device \in Wifi
      /\ m.calls \in Seq(P!NM!Calls) /\ m.nodes \in Seq(P!NM!NMDevice) /\ Len(m.nodes) \in Nat
      /\ x \in P!NM!NMDevice /\ ProperNode(x)
  BY NMFields DEF Overcounted, Tied
<1>2. x.ap_calls = A + B + 1 /\ A \in Nat /\ B \in Nat
  <2>1. A \in Nat /\ B \in Nat
    BY <1>1, CountsAreNat
  <2> HIDE DEF A, B
  <2>2. x.ap_calls = A + B + (IF i = i THEN 1 ELSE 0)
    BY <1>1 DEF Overcounted, A, B
  <2> QED BY <2>1, <2>2
<1>3. x.ap_calls - 1 \in Nat /\ x.ap_calls - 1 = A + B
  <2> HIDE DEF A, B
  <2> QED BY <1>2
<1>4. /\ y \in P!NM!NMDevice /\ y.device = x.device /\ y.contexts = x.contexts
      /\ y.state = x.state /\ y.ap_calls = x.ap_calls - 1
  BY Zenon, <1>1, <1>3 DEF P!NM!NMDevice
<1>5. /\ z \in P!NM!NMDevice /\ z.device = x.device /\ z.state = x.state
      /\ z.ap_calls = y.ap_calls
  <2> HIDE DEF x, y
  <2> QED BY <1>4 DEF P!NM!NMDevice
<1>6. a = SetNode(m, i, y)
  BY DEF SetNode
<1> HIDE DEF y, a
<1>7. a = Swap(m, i, y, m.calls)
  BY <1>1, <1>4, <1>6, SetNodeIs
<1>8. ProperNode(y)
  BY <1>1, <1>4 DEF ProperNode
<1>9. Tied(a)
  BY <1>1, <1>4, <1>7, <1>8, SwapTied
<1>10. /\ a \in NMKnowledge /\ a.calls = m.calls /\ Len(a.nodes) = Len(m.nodes) /\ a.nodes[i] = y
       /\ \A j \in 1 .. Len(m.nodes) : j # i => a.nodes[j] = m.nodes[j]
       /\ i \in 1 .. Len(a.nodes)
  BY <1>1, <1>4, <1>7, SwapFields
<1>11. SameStates(m, a) /\ Grows(m.nodes, a.nodes)
  <2>1. \A j \in 1 .. Len(m.nodes) : /\ a.nodes[j].device = m.nodes[j].device
                                     /\ a.nodes[j].state = m.nodes[j].state
    BY <1>4, <1>10
  <2> HIDE DEF x
  <2>2. SameStates(m, a)
    BY <1>10, <2>1 DEF SameStates
  <2>3. Grows(m.nodes, a.nodes)
    BY <1>1, <1>10, <2>1 DEF Grows
  <2> QED BY <2>2, <2>3
<1>12. Named(a.calls, q, a.nodes)
  <2>1. a.nodes \in Seq(P!NM!NMDevice)
    BY <1>10, NMFields
  <2> QED BY <1>1, <1>10, <1>11, <2>1, NamedGrows DEF Overcounted
<1>13. Counted(a.calls, q, a.nodes)
  <2> SUFFICES ASSUME NEW j \in 1 .. Len(m.nodes)
               PROVE  a.nodes[j].ap_calls
                        = Weigh(m.calls, CallsFor(j)) + Weigh(q, AnswersFor(j))
    BY <1>10 DEF Counted
  <2>1. CASE j = i
    <3>1. a.nodes[i].ap_calls = A + B
      BY <1>3, <1>4, <1>10
    <3> QED BY <2>1, <3>1
  <2>2. CASE j # i
    <3> DEFINE F == Weigh(m.calls, CallsFor(j))
               G == Weigh(q, AnswersFor(j))
    <3>1. F \in Nat /\ G \in Nat
      BY Zenon, <1>1, CountsAreNat
    <3>2. m.nodes[j].ap_calls = F + G + (IF j = i THEN 1 ELSE 0)
      BY DEF Overcounted
    <3> HIDE DEF F, G
    <3>3. a.nodes[j].ap_calls = F + G
      BY <1>10, <2>2, <3>1, <3>2
    <3> QED BY <3>3 DEF F, G
  <2> QED BY <2>1, <2>2
<1>14. Sound(a, q)
  BY <1>9, <1>12, <1>13 DEF Sound
<1>15. b = Swap(a, i, z, a.calls)
  BY Zenon, <1>10, ContextsAre
<1> HIDE DEF z, b
<1>16. ASSUME NEW e \in P!NM!NMDevice, e.device = x.device, e.state = x.state,
              e.ap_calls = y.ap_calls
       PROVE  LET t == Swap(a, i, Unrefd(e), a.calls)
              IN Sound(t, q) /\ Grows(m.nodes, t.nodes) /\ SameStates(m, t)
  <2> DEFINE u == Unrefd(e)
             t == Swap(a, i, u, a.calls)
  <2>1. u \in P!NM!NMDevice /\ u.device = x.device /\ u.state = x.state /\ u.ap_calls = y.ap_calls
    BY <1>16, UnrefdType
  <2> HIDE DEF u
  <2>2. ProperNode(u) /\ u.device = a.nodes[i].device /\ u.ap_calls = a.nodes[i].ap_calls
    BY <1>1, <1>4, <1>10, <2>1 DEF ProperNode
  <2>3. /\ Sound(t, q) /\ Grows(a.nodes, t.nodes) /\ Len(t.nodes) = Len(a.nodes) /\ t.nodes[i] = u
        /\ \A j \in 1 .. Len(a.nodes) : j # i => t.nodes[j] = a.nodes[j]
    BY <1>10, <1>14, <2>1, <2>2, SwapSound
  <2> HIDE DEF t
  <2>4. \A j \in 1 .. Len(m.nodes) : /\ t.nodes[j].device = m.nodes[j].device
                                     /\ t.nodes[j].state = m.nodes[j].state
    BY <1>10, <2>1, <2>3
  <2> QED BY <1>1, <1>10, <2>3, <2>4 DEF SameStates, Grows, t, u
<1>17. s = Swap(a, i, Unrefd(y), a.calls)
  <2>1. P!NM!Unref(a, i) = Swap(a, i, Unrefd(a.nodes[i]), a.calls)
    BY <1>10, UnrefIs
  <2> QED BY <1>10, <2>1
<1>18. r = Swap(a, i, Unrefd(z), a.calls)
  <2>1. a.calls \in Seq(P!NM!Calls)
    BY <1>1, <1>10
  <2>2. P!NM!Unref(Swap(a, i, z, a.calls), i) = Swap(a, i, Unrefd(z), a.calls)
    BY Zenon, <1>5, <1>10, <2>1, ThenHelpers
  <2> QED BY <1>15, <2>2
<1> HIDE DEF r, s
<1> QED BY Zenon, <1>4, <1>5, <1>16, <1>17, <1>18 DEF r, s, a, b

\* A call that is not for an access point
LEMMA CallSound ==
  ASSUME NEW m, NEW q \in Seq(NMMessages), Sound(m, q), NEW c \in P!NM!Calls, c.call # "ap",
         c.call = "wifi" => NamesWifi(c, m.nodes)
  PROVE  LET r == [m EXCEPT !.calls = Append(@, c)]
         IN Sound(r, q) /\ r.nodes = m.nodes
<1> DEFINE F == P!NM!Calls
           calls == Append(m.calls, c)
           r == [m EXCEPT !.calls = calls]
<1>1. /\ m \in NMKnowledge /\ m.calls \in Seq(F) /\ Tied(m) /\ Len(m.nodes) \in Nat
      /\ m.nodes \in Seq(P!NM!NMDevice) /\ m.told \in [Devices -> Int]
      /\ m = [nodes |-> m.nodes, calls |-> m.calls, told |-> m.told]
  BY NMFields DEF Sound, Tied
<1>2. /\ calls \in Seq(F) /\ Len(m.calls) \in Nat /\ Len(calls) = Len(m.calls) + 1
      /\ calls[Len(m.calls) + 1] = c /\ \A k \in 1 .. Len(m.calls) : calls[k] = m.calls[k]
  <2> HIDE DEF F
  <2>1. m.calls \in Seq(F) /\ c \in F BY <1>1 DEF F
  <2> QED BY <2>1, AppendFacts
<1> HIDE DEF calls
<1>3. r = [nodes |-> m.nodes, calls |-> calls, told |-> m.told]
  <2> DEFINE a == m.nodes
             b == m.calls
             t == m.told
  <2>1. m = [nodes |-> a, calls |-> b, told |-> t]
    BY <1>1
  <2> HIDE DEF a, b, t
  <2>2. r = [nodes |-> a, calls |-> calls, told |-> t]
    BY <2>1
  <2> QED BY <2>2 DEF a, t
<1> HIDE DEF r
<1>4. r.nodes = m.nodes /\ r.calls = calls /\ r.told = m.told /\ r \in NMKnowledge
  BY <1>1, <1>2, <1>3 DEF NMKnowledge
<1>5. Tied(r)
  BY <1>1, <1>4 DEF Tied
<1>6. Named(r.calls, q, r.nodes)
  <2>1. Named(m.calls, q, m.nodes)
    BY DEF Sound
  <2>2. ASSUME NEW k \in 1 .. Len(calls), calls[k].call \in {"wifi", "ap"}
        PROVE  NamesWifi(calls[k], m.nodes)
    <3>1. k \in 1 .. Len(m.calls) \/ k = Len(m.calls) + 1
      BY <1>2
    <3>2. CASE k \in 1 .. Len(m.calls)
      BY <1>2, <2>1, <2>2, <3>2 DEF Named
    <3>3. CASE k = Len(m.calls) + 1
      BY <1>2, <2>2, <3>3
    <3> QED BY <3>1, <3>2, <3>3
  <2> QED BY <1>4, <2>1, <2>2 DEF Named
<1>7. ASSUME NEW j \in 1 .. Len(m.nodes)
      PROVE  m.nodes[j].ap_calls = Weigh(calls, CallsFor(j)) + Weigh(q, AnswersFor(j))
  <2> DEFINE w == CallsFor(j)
             A == Weigh(q, AnswersFor(j))
  <2>1. w \in [F -> Int] /\ w[c] = 0
    BY WeightTypes
  <2>2. Weigh(calls, w) = Weigh(m.calls, w) + w[c] /\ Weigh(m.calls, w) \in Int
    <3>1. w \in [F -> Int] BY <2>1
    <3>2. m.calls \in Seq(F) BY <1>1
    <3>3. c \in F BY DEF F
    <3> HIDE DEF w, F
    <3> QED BY <3>1, <3>2, <3>3, WeighAppend, WeighType DEF calls
  <2>3. m.nodes[j].ap_calls = Weigh(m.calls, w) + A
    BY DEF Sound, Counted
  <2> HIDE DEF w, A
  <2>4. m.nodes[j].ap_calls = Weigh(calls, w) + A
    BY <2>1, <2>2, <2>3
  <2> QED BY <2>4 DEF w, A
<1>8. Counted(r.calls, q, r.nodes)
  BY <1>4, <1>7 DEF Counted
<1> QED BY <1>4, <1>5, <1>6, <1>8 DEF Sound, r, calls

\* A new NMDevice, for which there are no calls yet
LEMMA AppendSound ==
  ASSUME NEW m, NEW q \in Seq(NMMessages), Sound(m, q), NEW x \in P!NM!NMDevice,
         ProperNode(x), x.ap_calls = 0, x.contexts = 0
  PROVE  LET r == [m EXCEPT !.nodes = Append(@, x)]
         IN /\ Sound(r, q) /\ Grows(m.nodes, r.nodes) /\ r.calls = m.calls
            /\ Len(r.nodes) = Len(m.nodes) + 1 /\ r.nodes[Len(m.nodes) + 1] = x
            /\ \A j \in 1 .. Len(m.nodes) : r.nodes[j] = m.nodes[j]
<1> DEFINE Z == P!NM!NMDevice
           nodes == Append(m.nodes, x)
           L == Len(m.nodes)
           r == [m EXCEPT !.nodes = nodes]
<1>1. /\ m \in NMKnowledge /\ m.calls \in Seq(P!NM!Calls) /\ Tied(m) /\ L \in Nat
      /\ m.nodes \in Seq(Z) /\ m.told \in [Devices -> Int]
      /\ m = [nodes |-> m.nodes, calls |-> m.calls, told |-> m.told]
  BY NMFields DEF Sound, Tied
<1>2. /\ nodes \in Seq(Z) /\ Len(nodes) = L + 1
      /\ nodes[L + 1] = x /\ \A j \in 1 .. L : nodes[j] = m.nodes[j]
  <2> HIDE DEF Z
  <2>1. m.nodes \in Seq(Z) /\ x \in Z BY <1>1 DEF Z
  <2> QED BY <2>1, AppendFacts
<1> HIDE DEF nodes
<1>3. r = [nodes |-> nodes, calls |-> m.calls, told |-> m.told]
  <2> DEFINE a == m.nodes
             b == m.calls
             t == m.told
  <2>1. m = [nodes |-> a, calls |-> b, told |-> t]
    BY <1>1
  <2> HIDE DEF a, b, t
  <2>2. r = [nodes |-> nodes, calls |-> b, told |-> t]
    BY <2>1
  <2> QED BY <2>2 DEF b, t
<1> HIDE DEF r
<1>4. r.nodes = nodes /\ r.calls = m.calls /\ r.told = m.told /\ r \in NMKnowledge
  BY <1>1, <1>2, <1>3 DEF NMKnowledge
<1>5. \A j \in 1 .. Len(nodes) : j \in 1 .. L \/ j = L + 1
  BY <1>1, <1>2
<1>6. Tied(r)
  <2>1. \A j \in 1 .. Len(nodes) : ProperNode(nodes[j])
    BY <1>1, <1>2, <1>5 DEF Tied
  <2>2. ASSUME NEW d \in Devices PROVE m.told[d] = Weigh(nodes, ContextsOf(d))
    <3> DEFINE w == ContextsOf(d)
    <3>1. w \in [Z -> Int] /\ w[x] = 0
      BY WeightTypes
    <3>2. Weigh(nodes, w) = Weigh(m.nodes, w) + w[x] /\ Weigh(m.nodes, w) \in Int
      <4>1. w \in [Z -> Int] BY <3>1
      <4>2. m.nodes \in Seq(Z) BY <1>1
      <4>3. x \in Z BY DEF Z
      <4> HIDE DEF w, Z
      <4> QED BY <4>1, <4>2, <4>3, WeighAppend, WeighType DEF nodes
    <3>3. m.told[d] = Weigh(m.nodes, w)
      BY <1>1 DEF Tied
    <3> HIDE DEF w
    <3>4. m.told[d] = Weigh(nodes, w)
      BY <3>1, <3>2, <3>3
    <3> QED BY <3>4 DEF w
  <2> QED BY <1>4, <2>1, <2>2 DEF Tied
<1>7. Grows(m.nodes, nodes)
  BY <1>1, <1>2 DEF Grows
<1>8. Named(r.calls, q, r.nodes)
  <2>1. Named(m.calls, q, m.nodes)
    BY DEF Sound
  <2> QED BY <1>1, <1>2, <1>4, <1>7, <2>1, NamedGrows
<1>9. Weigh(m.calls, CallsFor(L + 1)) = 0 /\ Weigh(q, AnswersFor(L + 1)) = 0
  <2> DEFINE w == CallsFor(L + 1)
             v == AnswersFor(L + 1)
             F == P!NM!Calls
  <2>0. Named(m.calls, q, m.nodes) /\ ~(L + 1 \in 1 .. L)
    BY <1>1 DEF Sound
  <2>1. w \in [F -> Int] /\ v \in [NMMessages -> Int]
    BY WeightTypes
  <2>2. ASSUME NEW k \in 1 .. Len(m.calls) PROVE w[m.calls[k]] = 0
    <3>1. m.calls[k] \in F
      BY <1>1
    <3>2. w[m.calls[k]] = IF m.calls[k].call = "ap" /\ m.calls[k].node = L + 1 THEN 1 ELSE 0
      BY <3>1, WeightTypes
    <3>3. m.calls[k].call = "ap" => m.calls[k].node \in 1 .. L
      BY <2>0 DEF Named, NamesWifi
    <3> HIDE DEF L, w
    <3> QED BY <2>0, <3>2, <3>3
  <2>3. ASSUME NEW k \in 1 .. Len(q) PROVE v[q[k]] = 0
    <3>1. q[k] \in NMMessages
      OBVIOUS
    <3>2. v[q[k]] = IF q[k].type = "ap" /\ q[k].node = L + 1 THEN 1 ELSE 0
      BY <3>1, WeightTypes
    <3>3. q[k].type = "ap" => q[k].node \in 1 .. L
      BY <2>0 DEF Named, NamesWifi
    <3> HIDE DEF L, v
    <3> QED BY <2>0, <3>2, <3>3
  <2>4. m.calls \in Seq(F)
    BY <1>1
  <2> HIDE DEF w, v, F
  <2>5. Weigh(m.calls, w) = 0
    <3>1. \A k \in 1 .. Len(m.calls) : w[m.calls[k]] >= 0 /\ w[m.calls[k]] = 0
      BY <2>2
    <3>2. w \in [F -> Int]
      BY <2>1
    <3> QED BY Zenon, <3>1, <3>2, <2>4, WeighNat
  <2>6. Weigh(q, v) = 0
    <3>1. \A k \in 1 .. Len(q) : v[q[k]] >= 0 /\ v[q[k]] = 0
      BY <2>3
    <3>2. v \in [NMMessages -> Int]
      BY <2>1
    <3> QED BY Zenon, <3>1, <3>2, WeighNat
  <2> QED BY <2>5, <2>6 DEF w, v
<1>10. Counted(r.calls, q, r.nodes)
  <2> SUFFICES ASSUME NEW j \in 1 .. Len(nodes)
               PROVE  nodes[j].ap_calls
                        = Weigh(m.calls, CallsFor(j)) + Weigh(q, AnswersFor(j))
    BY <1>4 DEF Counted
  <2>1. CASE j \in 1 .. L
    BY <1>2, <2>1 DEF Sound, Counted
  <2>2. CASE j = L + 1
    BY <1>2, <1>9, <2>2
  <2> QED BY <1>5, <2>1, <2>2
<1> QED BY <1>2, <1>4, <1>6, <1>7, <1>8, <1>10 DEF Sound, r, nodes

-----------------------------------------------------------------------------
\* on_device_signal() of one NMDevice
LEMMA SignalSound ==
  ASSUME NEW m, NEW q \in Seq(NMMessages), Sound(m, q), NEW i \in 1 .. Len(m.nodes), NEW n \in Nat,
         NEW new \in {"disconnected", "activated"}
  PROVE  LET r == P!NM!DeviceSignal(m, i, new, n)
         IN /\ Sound(r, q) /\ Len(r.nodes) = Len(m.nodes)
            /\ r.nodes[i].state = new /\ r.nodes[i].device = m.nodes[i].device
            /\ \A j \in 1 .. Len(m.nodes) : j # i => r.nodes[j] = m.nodes[j]
<1> DEFINE x == m.nodes[i]
           y == [x EXCEPT !.state = new]
           z == [y EXCEPT !.contexts = 0]
           r == P!NM!DeviceSignal(m, i, new, n)
<1>1. m \in NMKnowledge /\ Tied(m) /\ x \in P!NM!NMDevice /\ ProperNode(x)
  BY NMFields DEF Sound, Tied
<1>2. new \in P!NM!DeviceStates /\ new # "none"
  BY DEF P!NM!DeviceStates
<1>3. /\ y \in P!NM!NMDevice /\ y.device = x.device /\ y.listed = x.listed
      /\ y.connected = x.connected /\ y.state = new /\ y.ap_calls = x.ap_calls
      /\ y.contexts = x.contexts
  BY <1>1, <1>2 DEF P!NM!NMDevice
<1>4. /\ z \in P!NM!NMDevice /\ z.device = y.device /\ z.listed = y.listed
      /\ z.connected = y.connected /\ z.state = y.state /\ z.ap_calls = y.ap_calls
      /\ z.contexts = 0
  <2> HIDE DEF x, y
  <2> QED BY <1>3 DEF P!NM!NMDevice
<1>5. r = IF ~x.connected THEN Swap(m, i, y, m.calls)
          ELSE IF new = "activated"
          THEN Swap(m, i, ActivatedNode(y, n), ActivatedCalls(y, i, m.calls))
          ELSE Swap(m, i, z, m.calls)
  BY Zenon, <1>1, <1>2, DeviceSignalIs
<1>6. x.connected \in BOOLEAN /\ x.listed \in BOOLEAN /\ x.contexts \in Nat
  BY <1>1, NodeFields
<1> HIDE DEF y, z, r
<1>7. CASE ~x.connected
  <2>1. ProperNode(y)
    BY <1>1, <1>2, <1>3, <1>6, <1>7 DEF ProperNode
  <2>2. r = Swap(m, i, y, m.calls)
    BY <1>5, <1>7
  <2> QED BY <1>3, <2>1, <2>2, SwapSound DEF r
<1>8. CASE x.connected /\ new = "activated"
  <2>1. y.connected /\ y.state = "activated" /\ (y.device \notin Wifi => y.listed /\ y.ap_calls = 0)
    BY Zenon, <1>1, <1>3, <1>6, <1>8 DEF ProperNode
  <2>2. r = Swap(m, i, ActivatedNode(y, n), ActivatedCalls(y, i, m.calls))
    BY <1>5, <1>8
  <2>3. /\ Sound(r, q) /\ Len(r.nodes) = Len(m.nodes)
        /\ r.nodes[i].state = "activated" /\ r.nodes[i].device = m.nodes[i].device
        /\ \A j \in 1 .. Len(m.nodes) : j # i => r.nodes[j] = m.nodes[j]
    BY <1>3, <2>1, <2>2, ActivatedSound
  <2> QED BY <1>8, <2>3 DEF r
<1>9. CASE x.connected /\ new # "activated"
  <2>1. ProperNode(z)
    <3>1. ~(0 > 0) OBVIOUS
    <3> QED BY Zenon, <1>1, <1>2, <1>3, <1>4, <1>6, <1>9, <3>1 DEF ProperNode
  <2>2. r = Swap(m, i, z, m.calls)
    BY <1>5, <1>9
  <2>3. z.device = m.nodes[i].device /\ z.ap_calls = m.nodes[i].ap_calls
    BY <1>3, <1>4
  <2>4. /\ Sound(r, q) /\ Len(r.nodes) = Len(m.nodes) /\ r.nodes[i] = z
        /\ \A j \in 1 .. Len(m.nodes) : j # i => r.nodes[j] = m.nodes[j]
    BY <1>4, <2>1, <2>2, <2>3, SwapSound
  <2> QED BY <1>3, <1>4, <2>4 DEF r
<1> QED BY <1>6, <1>7, <1>8, <1>9

\* What StateChanged makes of the NMDevices up to the i-th, and leaves of the others
Signalled(m, r, d, new, i) ==
    /\ Len(r.nodes) = Len(m.nodes)
    /\ \A j \in 1 .. Len(m.nodes) :
          /\ r.nodes[j].device = m.nodes[j].device
          /\ j <= i /\ m.nodes[j].device = d => r.nodes[j].state = new
          /\ j > i \/ m.nodes[j].device # d => r.nodes[j].state = m.nodes[j].state

\* on_device_signal() of all
LEMMA StateChangedSound ==
  ASSUME NEW m, NEW q \in Seq(NMMessages), Sound(m, q), NEW n \in Nat,
         NEW msg, msg.state \in {"disconnected", "activated"}
  PROVE  LET r == P!NM!StateChanged(m, msg, n)
         IN Sound(r, q) /\ Signalled(m, r, msg.device, msg.state, Len(m.nodes))
<1> DEFINE L == Len(m.nodes)
           d == msg.device
           new == msg.state
           K == {x \in NMKnowledge : Sound(x, q) /\ Len(x.nodes) = L}
           New(x, i) == IF m.nodes[i].device # d THEN x ELSE P!NM!DeviceSignal(x, i, new, n)
           step == [p \in (1 .. L) \X K |-> New(p[2], p[1])]
           after[i \in 0 .. L] ==
               IF i = 0 THEN m ELSE IF m.nodes[i].device # d THEN after[i - 1]
                               ELSE P!NM!DeviceSignal(after[i - 1], i, new, n)
<1>1. m \in NMKnowledge /\ L \in Nat
  BY NMFields DEF Sound, Tied
<1>2. m \in K
  BY <1>1
<1>3. ASSUME NEW i \in 1 .. L, NEW x \in K
      PROVE /\ New(x, i) \in K
            /\ \A j \in 1 .. L : j # i => New(x, i).nodes[j] = x.nodes[j]
            /\ m.nodes[i].device # d => New(x, i) = x
            /\ m.nodes[i].device = d => /\ New(x, i).nodes[i].state = new
                                        /\ New(x, i).nodes[i].device = x.nodes[i].device
  <2>1. CASE m.nodes[i].device # d
    BY <2>1
  <2>2. CASE m.nodes[i].device = d
    <3> DEFINE r == P!NM!DeviceSignal(x, i, new, n)
    <3>1. Sound(x, q) /\ i \in 1 .. Len(x.nodes) /\ Len(x.nodes) = L
      OBVIOUS
    <3>2. /\ Sound(r, q) /\ Len(r.nodes) = Len(x.nodes)
          /\ r.nodes[i].state = new /\ r.nodes[i].device = x.nodes[i].device
          /\ \A j \in 1 .. Len(x.nodes) : j # i => r.nodes[j] = x.nodes[j]
      BY SMTT(30), <3>1, SignalSound
    <3>3. New(x, i) = r
      BY <2>2
    <3> HIDE DEF r, New
    <3>4. r \in NMKnowledge
      BY <3>2 DEF Sound, Tied
    <3> QED BY <2>2, <3>1, <3>2, <3>3, <3>4
  <2> QED BY <2>1, <2>2
<1> HIDE DEF New, K, L
<1>4. step \in [(1 .. L) \X K -> K]
  BY <1>3
<1>5. PICK g : Repeats(g, K, m, L, step)
  <2> HIDE DEF step
  <2> QED BY Zenon, <1>1, <1>2, <1>4, Iteration
<1>6. g \in [0 .. L -> K] /\ g[0] = m
  BY <1>5 DEF Repeats
<1>7. ASSUME NEW i \in 1 .. L PROVE g[i - 1] \in K /\ g[i] = New(g[i - 1], i)
  <2>1. g[i - 1] \in K
    BY <1>1, <1>6
  <2>2. g[i] = step[<<i, g[i - 1]>>]
    BY Zenon, <1>5 DEF Repeats
  <2> QED BY <2>1, <2>2
<1>8. g = [i \in 0 .. L |-> IF i = 0 THEN m ELSE IF m.nodes[i].device # d THEN g[i - 1]
                            ELSE P!NM!DeviceSignal(g[i - 1], i, new, n)]
  BY <1>6, <1>7 DEF New
<1>9. after = [i \in 0 .. L |-> IF i = 0 THEN m ELSE IF m.nodes[i].device # d THEN after[i - 1]
                                ELSE P!NM!DeviceSignal(after[i - 1], i, new, n)]
  BY Zenon, <1>8
<1>10. P!NM!StateChanged(m, msg, n) = after[L]
  BY DEF P!NM!StateChanged, L
<1> HIDE DEF after, d, new
<1>11. after[0] = m /\ \A i \in 1 .. L : after[i] = New(after[i - 1], i)
  <2>1. after[0] = m
    BY <1>1, <1>9
  <2>2. ASSUME NEW i \in 1 .. L PROVE after[i] = New(after[i - 1], i)
    <3>1. i \in 0 .. L /\ i # 0
      BY <1>1
    <3>2. after[i] = IF m.nodes[i].device # d THEN after[i - 1]
                     ELSE P!NM!DeviceSignal(after[i - 1], i, new, n)
      BY Zenon, <1>9, <3>1
    <3> QED BY <3>2 DEF New
  <2> QED BY <2>1, <2>2
<1> DEFINE T == {i \in 0 .. L : after[i] \in K /\ Signalled(m, after[i], d, new, i)}
<1>12. 0 \in T
  <2>1. Signalled(m, m, d, new, 0)
    BY <1>1 DEF Signalled, L
  <2> QED BY <1>1, <1>2, <1>11, <2>1
<1>13. ASSUME NEW i \in 1 .. L, i - 1 \in T PROVE i \in T
  <2> DEFINE x == after[i - 1]
             y == after[i]
  <2>1. x \in K /\ Signalled(m, x, d, new, i - 1) /\ y = New(x, i) /\ i \in 0 .. L
    BY <1>11, <1>13
  <2> HIDE DEF x, y
  <2>2. /\ y \in K
        /\ \A j \in 1 .. L : j # i => y.nodes[j] = x.nodes[j]
        /\ m.nodes[i].device # d => y = x
        /\ m.nodes[i].device = d => /\ y.nodes[i].state = new
                                    /\ y.nodes[i].device = x.nodes[i].device
    BY <1>3, <2>1
  <2>3. Len(y.nodes) = L
    BY <2>2 DEF K
  <2>4. ASSUME NEW j \in 1 .. L
        PROVE  /\ y.nodes[j].device = m.nodes[j].device
               /\ j <= i /\ m.nodes[j].device = d => y.nodes[j].state = new
               /\ j > i \/ m.nodes[j].device # d => y.nodes[j].state = m.nodes[j].state
    <3>1. /\ x.nodes[j].device = m.nodes[j].device
          /\ j <= i - 1 /\ m.nodes[j].device = d => x.nodes[j].state = new
          /\ j > i - 1 \/ m.nodes[j].device # d => x.nodes[j].state = m.nodes[j].state
      BY <2>1 DEF Signalled, L
    <3>2. CASE j # i
      <4>1. (j <= i => j <= i - 1) /\ (j > i => j > i - 1)
        BY <1>1, <3>2
      <4>2. y.nodes[j] = x.nodes[j]
        BY <2>2, <3>2
      <4> QED BY <3>1, <4>1, <4>2
    <3>3. CASE j = i
      <4>1. j <= i /\ ~(j > i)
        BY <1>1, <3>3
      <4> QED BY <2>2, <3>1, <3>3, <4>1
    <3> QED BY <3>2, <3>3
  <2>5. Signalled(m, y, d, new, i)
    BY <2>3, <2>4 DEF Signalled, L
  <2> QED BY <2>1, <2>2, <2>5 DEF y
<1>14. L \in T
  <2>1. L \in 0 .. L BY <1>1
  <2> HIDE DEF T
  <2> QED BY Zenon, <1>1, <1>12, <1>13, <2>1, Induction
<1> QED BY <1>10, <1>14 DEF K, L, d, new

\* The NMDevices that are activated either were so, or have just been said to be.
Undoes(msg, d) == msg.type = "StateChanged" /\ msg.device = d /\ msg.state = "disconnected"
Says(msg, d) ==
    msg.type \in {"device", "StateChanged"} /\ msg.device = d /\ msg.state = "activated"
StatesFrom(m, r, msg) ==
    \A j \in 1 .. Len(r.nodes) : r.nodes[j].state = "activated" =>
        \/ /\ j \in 1 .. Len(m.nodes) /\ m.nodes[j].state = "activated"
           /\ m.nodes[j].device = r.nodes[j].device
           /\ ~Undoes(msg, r.nodes[j].device)
        \/ Says(msg, r.nodes[j].device)

LEMMA SameStatesFrom ==
  ASSUME NEW m, NEW r, SameStates(m, r), NEW msg, msg.type # "StateChanged"
  PROVE  StatesFrom(m, r, msg)
BY DEF SameStates, StatesFrom, Undoes

\* device_proxy_new_cb()
LEMMA DeviceProxyNewSound ==
  ASSUME NEW m, NEW q \in Seq(NMMessages), Sound(m, q), NEW n \in Nat,
         NEW msg \in NMMessages, msg.type = "device"
  PROVE  LET r == P!NM!DeviceProxyNew(m, msg, n)
         IN Sound(r, q) /\ Grows(m.nodes, r.nodes) /\ StatesFrom(m, r, msg)
<1> DEFINE i == Len(m.nodes) + 1
           x == [device |-> msg.device, listed |-> FALSE, connected |-> FALSE,
                 state |-> msg.state, ap_calls |-> 0, contexts |-> 0]
           k == [m EXCEPT !.nodes = Append(@, x)]
           r == P!NM!DeviceProxyNew(m, msg, n)
<1>1. msg.device \in Devices /\ msg.state \in P!NM!DeviceStates
  BY DEF NMMessages
<1>2. m \in NMKnowledge /\ m.nodes \in Seq(P!NM!NMDevice) /\ Len(m.nodes) \in Nat
  BY NMFields DEF Sound, Tied
<1>3. CASE msg.state = "none"
  <2>1. r = m
    BY <1>3 DEF P!NM!DeviceProxyNew
  <2>2. Grows(m.nodes, m.nodes) /\ SameStates(m, m)
    BY <1>2 DEF Grows, SameStates
  <2>3. StatesFrom(m, m, msg)
    BY <2>2, SameStatesFrom
  <2> QED BY <2>1, <2>2, <2>3
<1>4. CASE msg.state # "none"
  <2>1. /\ x \in P!NM!NMDevice /\ x.device = msg.device /\ x.state = msg.state
        /\ x.ap_calls = 0 /\ x.contexts = 0 /\ ~x.listed /\ ~x.connected
    BY <1>1 DEF P!NM!NMDevice
  <2>2. r = IF msg.device \in Wifi
            THEN [k EXCEPT !.calls = Append(@, [call |-> "wifi", node |-> i])]
            ELSE P!NM!UseNewDevice(k, i, n)
    BY <1>4 DEF P!NM!DeviceProxyNew
  <2>3. ProperNode(x)
    <3>1. x.connected = x.listed /\ ~(x.contexts > 0)
      <4>1. ~(0 > 0) OBVIOUS
      <4> QED BY <4>1
    <3> HIDE DEF x
    <3> QED BY <1>4, <2>1, <3>1 DEF ProperNode
  <2> HIDE DEF x, r
  <2>4. /\ Sound(k, q) /\ Grows(m.nodes, k.nodes)
        /\ Len(k.nodes) = i /\ k.nodes[i] = x
        /\ \A j \in 1 .. Len(m.nodes) : k.nodes[j] = m.nodes[j]
    BY <2>1, <2>3, AppendSound
  <2> HIDE DEF k
  <2>5. i \in 1 .. Len(k.nodes) /\ \A j \in 1 .. Len(k.nodes) : j \in 1 .. Len(m.nodes) \/ j = i
    BY <1>2, <2>4
  <2>6. StatesFrom(m, k, msg)
    <3>1. ASSUME NEW j \in 1 .. Len(m.nodes), k.nodes[j].state = "activated"
          PROVE  /\ m.nodes[j].state = "activated" /\ m.nodes[j].device = k.nodes[j].device
                 /\ ~Undoes(msg, k.nodes[j].device)
      BY <2>4, <3>1 DEF Undoes
    <3>2. ASSUME k.nodes[i].state = "activated" PROVE Says(msg, k.nodes[i].device)
      BY <2>1, <2>4, <3>2 DEF Says
    <3> HIDE DEF i
    <3> QED BY <2>5, <3>1, <3>2 DEF StatesFrom
  <2>7. ASSUME NEW s, Sound(s, q), SameStates(k, s)
        PROVE  Grows(m.nodes, s.nodes) /\ StatesFrom(m, s, msg)
    <3>1. /\ Len(s.nodes) = Len(k.nodes)
          /\ \A j \in 1 .. Len(k.nodes) : /\ s.nodes[j].device = k.nodes[j].device
                                          /\ s.nodes[j].state = k.nodes[j].state
      BY <2>7 DEF SameStates
    <3>2. Grows(m.nodes, s.nodes)
      BY <1>2, <2>4, <3>1 DEF Grows
    <3> HIDE DEF i
    <3>3. StatesFrom(m, s, msg)
      BY <2>6, <3>1 DEF StatesFrom
    <3> QED BY <3>2, <3>3
  <2>8. CASE msg.device \in Wifi
    <3> DEFINE c == [call |-> "wifi", node |-> i]
    <3>1. c \in P!NM!Calls /\ c.call # "ap"
      BY <1>2 DEF P!NM!Calls
    <3>2. NamesWifi(c, k.nodes)
      BY <2>1, <2>4, <2>5, <2>8 DEF NamesWifi
    <3>3. r = [k EXCEPT !.calls = Append(@, c)]
      BY <2>2, <2>8
    <3> HIDE DEF c, i
    <3>4. Sound(r, q) /\ r.nodes = k.nodes
      BY Zenon, <2>4, <3>1, <3>2, <3>3, CallSound
    <3>5. SameStates(k, r)
      BY <3>4 DEF SameStates
    <3> QED BY <2>7, <3>4, <3>5 DEF r
  <2>9. CASE msg.device \notin Wifi
    <3>1. r = P!NM!UseNewDevice(k, i, n)
      BY <2>2, <2>9
    <3> HIDE DEF i
    <3>2. Sound(r, q) /\ SameStates(k, r)
      BY <2>4, <2>5, <3>1, UseSound
    <3> QED BY <2>7, <3>2 DEF r
  <2> QED BY <2>8, <2>9
<1> QED BY <1>3, <1>4

\* get_devices_cb()
LEMMA NMOrder ==
  ASSUME NEW X, IsFiniteSet(X)
  PROVE  P!NM!SetToSeq(X) \in Seq(X)
<1>1. P!NM!SetToSeq(X) = P!Linux!SetToSeq(X)
  BY DEF P!NM!SetToSeq, P!Linux!SetToSeq, P!NM!IsInjective, P!Linux!IsInjective,
         P!NM!Cardinality, P!Linux!Cardinality
<1> QED BY <1>1, OrderFacts

LEMMA DeviceProxySound ==
  ASSUME NEW m, NEW q \in Seq(NMMessages), Sound(m, q), NEW d \in Devices
  PROVE  LET r == P!NM!DeviceProxy(m, d) IN Sound(r, q) /\ r.nodes = m.nodes
<1> DEFINE c == [call |-> "device", device |-> d]
<1>1. c \in P!NM!Calls /\ c.call # "ap" /\ c.call # "wifi"
  BY DEF P!NM!Calls
<1>2. P!NM!DeviceProxy(m, d) = [m EXCEPT !.calls = Append(@, c)]
  BY DEF P!NM!DeviceProxy
<1> HIDE DEF c
<1> QED BY ZenonT(60), <1>1, <1>2, CallSound

LEMMA GetDevicesSound ==
  ASSUME NEW m, NEW q \in Seq(NMMessages), Sound(m, q),
         NEW msg, msg.devices \in SUBSET Devices
  PROVE  LET r == P!NM!GetDevicesDone(m, msg) IN Sound(r, q) /\ r.nodes = m.nodes
<1> DEFINE found == P!NM!SetToSeq(msg.devices)
           Q == Len(found)
           K == {x \in NMKnowledge : Sound(x, q) /\ x.nodes = m.nodes}
           New(x, k) == P!NM!DeviceProxy(x, found[k])
           step == [p \in (1 .. Q) \X K |-> New(p[2], p[1])]
           after[k \in 0 .. Q] == IF k = 0 THEN m ELSE New(after[k - 1], k)
<1>1. Q \in Nat /\ \A k \in 1 .. Q : found[k] \in Devices
  <2>1. IsFiniteSet(msg.devices)
    BY Zenon, PartsAssumption, FS_Subset
  <2>2. found \in Seq(msg.devices)
    BY <2>1, NMOrder
  <2> HIDE DEF found
  <2> QED BY <2>2
<1>2. m \in K
  BY NMFields DEF Sound, Tied
<1> HIDE DEF found
<1>3. ASSUME NEW k \in 1 .. Q, NEW x \in K PROVE New(x, k) \in K
  <2>1. Sound(x, q) /\ x.nodes = m.nodes
    OBVIOUS
  <2>2. Sound(New(x, k), q) /\ New(x, k).nodes = x.nodes
    BY <1>1, <2>1, DeviceProxySound
  <2> HIDE DEF New
  <2>3. New(x, k) \in NMKnowledge
    BY <2>2 DEF Sound, Tied
  <2> QED BY <2>1, <2>2, <2>3
<1> HIDE DEF New, K, Q
<1>4. step \in [(1 .. Q) \X K -> K]
  BY <1>3
<1>5. PICK g : Repeats(g, K, m, Q, step)
  <2> HIDE DEF step
  <2> QED BY Zenon, <1>1, <1>2, <1>4, Iteration
<1>6. g \in [0 .. Q -> K] /\ g[0] = m
  BY <1>5 DEF Repeats
<1>7. ASSUME NEW k \in 1 .. Q PROVE g[k - 1] \in K /\ g[k] = New(g[k - 1], k)
  <2>1. g[k - 1] \in K
    BY <1>1, <1>6
  <2>2. g[k] = step[<<k, g[k - 1]>>]
    BY Zenon, <1>5 DEF Repeats
  <2> QED BY <2>1, <2>2
<1>8. g = [k \in 0 .. Q |-> IF k = 0 THEN m ELSE New(g[k - 1], k)]
  BY <1>6, <1>7
<1>9. after = [k \in 0 .. Q |-> IF k = 0 THEN m ELSE New(after[k - 1], k)]
  BY Zenon, <1>8
<1>10. P!NM!GetDevicesDone(m, msg) = after[Q]
  BY DEF P!NM!GetDevicesDone, New, Q, found
<1> HIDE DEF after
<1>11. after[0] = m /\ \A k \in 1 .. Q : after[k] = New(after[k - 1], k)
  BY <1>1, <1>9
<1> DEFINE T == {k \in 0 .. Q : after[k] \in K}
<1>12. 0 \in T
  BY <1>1, <1>2, <1>11
<1>13. ASSUME NEW k \in 1 .. Q, k - 1 \in T PROVE k \in T
  BY <1>3, <1>11, <1>13
<1>14. Q \in T
  <2>1. Q \in 0 .. Q BY <1>1
  <2> HIDE DEF T
  <2> QED BY Zenon, <1>1, <1>12, <1>13, <2>1, Induction
<1> QED BY <1>10, <1>14 DEF K

\* on_manager_signal() for DeviceRemoved
LEMMA DeviceRemovedSound ==
  ASSUME NEW m, NEW q, Sound(m, q), NEW msg
  PROVE  LET r == P!NM!DeviceRemoved(m, msg)
         IN Sound(r, q) /\ Grows(m.nodes, r.nodes) /\ SameStates(m, r)
<1> DEFINE found == {i \in DOMAIN m.nodes : m.nodes[i].listed /\ m.nodes[i].device = msg.device}
           r == P!NM!DeviceRemoved(m, msg)
<1>1. m.nodes \in Seq(P!NM!NMDevice) /\ Len(m.nodes) \in Nat /\ DOMAIN m.nodes = 1 .. Len(m.nodes)
  BY NMFields DEF Sound, Tied
<1>2. CASE found = {}
  <2>1. r = m
    BY <1>2 DEF P!NM!DeviceRemoved
  <2>2. Grows(m.nodes, m.nodes) /\ SameStates(m, m)
    BY <1>1 DEF Grows, SameStates
  <2> QED BY <2>1, <2>2
<1>3. CASE found # {}
  <2> DEFINE i == CHOOSE x \in found : \A y \in found : x <= y
  <2>1. r = P!NM!Unlisted(m, i)
    BY <1>3 DEF P!NM!DeviceRemoved
  <2>2. found \in SUBSET Nat
    BY <1>1
  <2>3. i \in found
    <3> HIDE DEF found
    <3>1. \E x \in found : \A y \in found : x <= y
      BY SMTT(30), <1>3, <2>2, SmallestNumber
    <3> QED BY <3>1
  <2>4. i \in 1 .. Len(m.nodes)
    BY <1>1, <2>3
  <2> HIDE DEF i, r
  <2> QED BY <2>1, <2>4, UnlistedSound DEF r
<1> QED BY <1>2, <1>3

-----------------------------------------------------------------------------
\* The head and the rest of what is on the bus
LEMMA HeadAndTail ==
  ASSUME NEW V, NEW s \in Seq(V), s # <<>>
  PROVE  /\ Head(s) = s[1] /\ 1 \in 1 .. Len(s) /\ Head(s) \in V /\ Tail(s) \in Seq(V)
         /\ Len(s) \in Nat /\ Len(Tail(s)) = Len(s) - 1
         /\ \A k \in 1 .. Len(Tail(s)) : Tail(s)[k] = s[k + 1] /\ k + 1 \in 2 .. Len(s)
         /\ \A k \in 2 .. Len(s) : k - 1 \in 1 .. Len(Tail(s)) /\ s[k] = Tail(s)[k - 1]
         /\ \A w \in [V -> Int] : Weigh(s, w) = w[Head(s)] + Weigh(Tail(s), w)
<1> DEFINE t == Tail(s)
           Z == Len(s)
<1>1. /\ Head(s) = s[1] /\ 1 \in 1 .. Z /\ s[1] \in V /\ t \in Seq(V)
      /\ Z \in Nat /\ Len(t) = Z - 1 /\ \A k \in 1 .. Z - 1 : t[k] = s[k + 1]
  OBVIOUS
<1>2. Cut(s, 1) = t
  <2> DEFINE c == Cut(s, 1)
  <2>1. /\ c \in Seq(V) /\ Len(c) = Z - 1
        /\ \A j \in 1 .. Z - 1 : c[j] = IF j < 1 THEN s[j] ELSE s[j + 1]
    BY Zenon, <1>1, CutIndices
  <2> HIDE DEF c, t, Z
  <2>2. \A j \in 1 .. Z - 1 : c[j] = t[j]
    BY <1>1, <2>1
  <2> QED BY <1>1, <2>1, <2>2 DEF c
<1> HIDE DEF t, Z
<1>3. /\ \A k \in 1 .. Len(t) : t[k] = s[k + 1] /\ k + 1 \in 2 .. Z
      /\ \A k \in 2 .. Z : k - 1 \in 1 .. Len(t) /\ s[k] = t[k - 1]
  BY <1>1
<1>4. ASSUME NEW w \in [V -> Int] PROVE Weigh(s, w) = w[Head(s)] + Weigh(t, w)
  <2>1. 1 \in 1 .. Len(s)
    BY <1>1 DEF Z
  <2>2. Weigh(t, w) = Weigh(s, w) - w[s[1]]
    BY <1>2, <2>1, WeighCut
  <2>3. Weigh(s, w) \in Int /\ w[s[1]] \in Int
    BY Zenon, <1>1, WeighType
  <2> QED BY <1>1, <2>2, <2>3
<1> QED BY <1>1, <1>3, <1>4 DEF t, Z

\* When the next message is read, only an NMDevice it answers still counts it.
LEMMA TailSound ==
  ASSUME NEW m, NEW q \in Seq(NMMessages), q # <<>>, Sound(m, q)
  PROVE  LET msg == Head(q)
             t == Tail(q)
         IN /\ msg \in NMMessages /\ t \in Seq(NMMessages)
            /\ msg.type \in {"wifi", "ap"} => NamesWifi(msg, m.nodes)
            /\ msg.type # "ap" => Sound(m, t)
            /\ msg.type = "ap" => Overcounted(m, t, msg.node)
<1> DEFINE msg == Head(q)
           t == Tail(q)
<1>1. /\ msg = q[1] /\ 1 \in 1 .. Len(q) /\ msg \in NMMessages /\ t \in Seq(NMMessages)
      /\ \A k \in 1 .. Len(t) : t[k] = q[k + 1] /\ k + 1 \in 2 .. Len(q)
      /\ \A w \in [NMMessages -> Int] : Weigh(q, w) = w[msg] + Weigh(t, w)
      /\ Len(q) \in Nat
  BY HeadAndTail
<1> HIDE DEF msg, t
<1>2. Tied(m) /\ Named(m.calls, q, m.nodes) /\ Counted(m.calls, q, m.nodes)
  BY DEF Sound
<1>3. msg.type \in {"wifi", "ap"} => NamesWifi(msg, m.nodes)
  BY <1>1, <1>2 DEF Named
<1>4. Named(m.calls, t, m.nodes)
  <2>1. ASSUME NEW k \in 1 .. Len(t), t[k].type \in {"wifi", "ap"}
        PROVE  NamesWifi(t[k], m.nodes)
    <3>1. k + 1 \in 1 .. Len(q) /\ t[k] = q[k + 1]
      BY <1>1
    <3> QED BY <1>2, <2>1, <3>1 DEF Named
  <2> QED BY <1>2, <2>1 DEF Named
<1>5. ASSUME NEW j \in 1 .. Len(m.nodes)
      PROVE  m.nodes[j].ap_calls = Weigh(m.calls, CallsFor(j)) + Weigh(t, AnswersFor(j))
                                   + (IF msg.type = "ap" /\ msg.node = j THEN 1 ELSE 0)
  <2> DEFINE v == AnswersFor(j)
             A == Weigh(m.calls, CallsFor(j))
  <2>1. v \in [NMMessages -> Int] /\ v[msg] = IF msg.type = "ap" /\ msg.node = j THEN 1 ELSE 0
    BY <1>1, WeightTypes
  <2>2. Weigh(q, v) = v[msg] + Weigh(t, v)
    BY <1>1, <2>1
  <2>3. m.nodes[j].ap_calls = A + Weigh(q, v)
    BY <1>2 DEF Counted
  <2>4. A \in Int /\ Weigh(t, v) \in Int
    <3>1. m.calls \in Seq(P!NM!Calls)
      BY <1>2, NMFields DEF Tied
    <3> QED BY <1>1, <3>1, CountsAreNat
  <2> HIDE DEF v, A
  <2>5. m.nodes[j].ap_calls
          = A + Weigh(t, v) + (IF msg.type = "ap" /\ msg.node = j THEN 1 ELSE 0)
    BY <2>1, <2>2, <2>3, <2>4
  <2> QED BY <2>5 DEF v, A
<1>6. ASSUME msg.type # "ap" PROVE Sound(m, t)
  <2>1. ASSUME NEW j \in 1 .. Len(m.nodes)
        PROVE  m.nodes[j].ap_calls = Weigh(m.calls, CallsFor(j)) + Weigh(t, AnswersFor(j))
    <3> DEFINE A == Weigh(m.calls, CallsFor(j))
               B == Weigh(t, AnswersFor(j))
    <3>1. A \in Int /\ B \in Int
      <4>1. m.calls \in Seq(P!NM!Calls)
        BY <1>2, NMFields DEF Tied
      <4> QED BY <1>1, <4>1, CountsAreNat
    <3>2. m.nodes[j].ap_calls = A + B + (IF msg.type = "ap" /\ msg.node = j THEN 1 ELSE 0)
      BY <1>5
    <3> HIDE DEF A, B
    <3>3. m.nodes[j].ap_calls = A + B
      BY <1>6, <3>1, <3>2
    <3> QED BY <3>3 DEF A, B
  <2> QED BY <1>2, <1>4, <2>1 DEF Sound, Counted
<1>7. ASSUME msg.type = "ap" PROVE Overcounted(m, t, msg.node)
  <2>1. NamesWifi(msg, m.nodes)
    BY <1>3, <1>7
  <2>2. ASSUME NEW j \in 1 .. Len(m.nodes)
        PROVE  m.nodes[j].ap_calls = Weigh(m.calls, CallsFor(j)) + Weigh(t, AnswersFor(j))
                                     + (IF j = msg.node THEN 1 ELSE 0)
    BY <1>5, <1>7
  <2> QED BY <1>2, <1>4, <2>1, <2>2 DEF Overcounted, NamesWifi
<1> QED BY <1>1, <1>3, <1>6, <1>7 DEF msg, t

\* What reading the next message does
LEMMA HandleSound ==
  ASSUME NEW m, NEW q \in Seq(NMMessages), q # <<>>, Sound(m, q), NEW n \in Nat
  PROVE  LET r == P!NM!Handle(m, Head(q), n)
         IN /\ Sound(r, Tail(q)) /\ Grows(m.nodes, r.nodes) /\ StatesFrom(m, r, Head(q))
            /\ Tail(q) \in Seq(NMMessages) /\ Head(q) \in NMMessages
<1> DEFINE msg == Head(q)
           t == Tail(q)
           r == P!NM!Handle(m, msg, n)
<1>1. /\ msg \in NMMessages /\ t \in Seq(NMMessages)
      /\ msg.type \in {"wifi", "ap"} => NamesWifi(msg, m.nodes)
      /\ msg.type # "ap" => Sound(m, t)
      /\ msg.type = "ap" => Overcounted(m, t, msg.node)
  BY Zenon, TailSound
<1> HIDE DEF msg, t
<1>2. m.nodes \in Seq(P!NM!NMDevice) /\ Len(m.nodes) \in Nat
  BY NMFields DEF Sound, Tied
<1>3. SUFFICES Sound(r, t) /\ Grows(m.nodes, r.nodes) /\ StatesFrom(m, r, msg)
  BY <1>1 DEF msg, t, r
<1>4. ASSUME r.nodes = m.nodes PROVE Grows(m.nodes, r.nodes) /\ SameStates(m, r)
  <2> HIDE DEF r
  <2> QED BY <1>2, <1>4 DEF Grows, SameStates
<1>5. CASE msg.type = "GetDevices"
  <2>1. r = P!NM!GetDevicesDone(m, msg) /\ msg.devices \in SUBSET Devices
    BY <1>1, <1>5 DEF P!NM!Handle, NMMessages
  <2> HIDE DEF r
  <2>2. Sound(r, t) /\ r.nodes = m.nodes
    BY <1>1, <1>5, <2>1, GetDevicesSound
  <2> QED BY <1>4, <1>5, <2>2, SameStatesFrom DEF r
<1>6. CASE msg.type = "device"
  <2>1. r = P!NM!DeviceProxyNew(m, msg, n)
    BY <1>6 DEF P!NM!Handle
  <2> HIDE DEF r
  <2> QED BY <1>1, <1>6, <2>1, DeviceProxyNewSound DEF r
<1>7. CASE msg.type = "wifi"
  <2>1. r = P!NM!UseNewDevice(m, msg.node, n) /\ msg.node \in 1 .. Len(m.nodes)
    BY <1>1, <1>7 DEF P!NM!Handle, NamesWifi
  <2> HIDE DEF r
  <2>2. Sound(r, t) /\ Grows(m.nodes, r.nodes) /\ SameStates(m, r)
    BY <1>1, <1>7, <2>1, UseSound
  <2> QED BY <1>7, <2>2, SameStatesFrom DEF r
<1>8. CASE msg.type = "ap"
  <2> DEFINE i == msg.node
             a == [m EXCEPT !.nodes[i].ap_calls = @ - 1]
  <2>1. r = P!NM!Unref(P!NM!CreateContext(a, i, n), i)
    BY <1>8 DEF P!NM!Handle, P!NM!ApProxyNew
  <2> HIDE DEF r, i
  <2>2. Overcounted(m, t, i)
    BY <1>1, <1>8 DEF i
  <2>3. Sound(r, t) /\ Grows(m.nodes, r.nodes) /\ SameStates(m, r)
    BY Zenon, <1>1, <2>1, <2>2, ReturnedSound
  <2> QED BY <1>8, <2>3, SameStatesFrom DEF r
<1>9. CASE msg.type = "StateChanged"
  <2>1. r = P!NM!StateChanged(m, msg, n) /\ msg.state \in {"disconnected", "activated"}
    BY <1>1, <1>9 DEF P!NM!Handle, NMMessages
  <2> HIDE DEF r
  <2>2. Sound(r, t) /\ Signalled(m, r, msg.device, msg.state, Len(m.nodes))
    BY <1>1, <1>9, <2>1, StateChangedSound
  <2>3. Len(r.nodes) = Len(m.nodes)
    BY <2>2 DEF Signalled
  <2>4. ASSUME NEW j \in 1 .. Len(m.nodes)
        PROVE  /\ r.nodes[j].device = m.nodes[j].device
               /\ m.nodes[j].device = msg.device => r.nodes[j].state = msg.state
               /\ m.nodes[j].device # msg.device => r.nodes[j].state = m.nodes[j].state
    <3>1. j <= Len(m.nodes)
      BY <1>2
    <3> QED BY <2>2, <3>1 DEF Signalled
  <2>5. Grows(m.nodes, r.nodes)
    BY <1>2, <2>3, <2>4 DEF Grows
  <2>6. ASSUME NEW j \in 1 .. Len(r.nodes), r.nodes[j].state = "activated"
        PROVE  \/ /\ j \in 1 .. Len(m.nodes) /\ m.nodes[j].state = "activated"
                  /\ m.nodes[j].device = r.nodes[j].device
                  /\ ~Undoes(msg, r.nodes[j].device)
               \/ Says(msg, r.nodes[j].device)
    <3>1. CASE m.nodes[j].device = msg.device
      BY <1>9, <2>3, <2>4, <2>6, <3>1 DEF Says
    <3>2. CASE m.nodes[j].device # msg.device
      BY <2>3, <2>4, <2>6, <3>2 DEF Undoes
    <3> QED BY <3>1, <3>2
  <2> QED BY <2>2, <2>5, <2>6 DEF StatesFrom, r
<1>10. CASE msg.type = "DeviceAdded"
  <2>1. r = P!NM!DeviceProxy(m, msg.device) /\ msg.device \in Devices
    BY <1>1, <1>10 DEF P!NM!Handle, NMMessages
  <2> HIDE DEF r
  <2>2. Sound(r, t) /\ r.nodes = m.nodes
    BY <1>1, <1>10, <2>1, DeviceProxySound
  <2> QED BY <1>4, <1>10, <2>2, SameStatesFrom DEF r
<1>11. CASE msg.type = "DeviceRemoved"
  <2>1. r = P!NM!DeviceRemoved(m, msg)
    BY <1>11 DEF P!NM!Handle
  <2> HIDE DEF r
  <2>2. Sound(r, t) /\ Grows(m.nodes, r.nodes) /\ SameStates(m, r)
    BY <1>1, <1>11, <2>1, DeviceRemovedSound
  <2> QED BY <1>11, <2>2, SameStatesFrom DEF r
<1>12. msg.type \in {"GetDevices", "device", "wifi", "ap", "StateChanged", "DeviceAdded",
                     "DeviceRemoved"}
  BY <1>1 DEF NMMessages
<1> QED BY <1>5, <1>6, <1>7, <1>8, <1>9, <1>10, <1>11, <1>12

-----------------------------------------------------------------------------
\* A call that has returned, in whatever way
LEMMA ReturnedCall ==
  ASSUME NEW m, NEW q \in Seq(NMMessages), Sound(m, q), NEW k \in 1 .. Len(m.calls)
  PROVE  LET r == [nodes |-> m.nodes, calls |-> Cut(m.calls, k), told |-> m.told]
             c == m.calls[k]
         IN /\ c \in P!NM!Calls /\ (c.call \in {"wifi", "ap"} => NamesWifi(c, m.nodes))
            /\ c.call # "ap" => Sound(r, q)
            /\ c.call = "ap" => Overcounted(r, q, c.node)
<1> DEFINE F == P!NM!Calls
           calls == Cut(m.calls, k)
           c == m.calls[k]
           r == [nodes |-> m.nodes, calls |-> calls, told |-> m.told]
<1>1. /\ m \in NMKnowledge /\ Tied(m) /\ m.calls \in Seq(F)
      /\ Named(m.calls, q, m.nodes) /\ Counted(m.calls, q, m.nodes)
  BY NMFields DEF Sound, Tied
<1>2. /\ c \in F /\ calls \in Seq(F) /\ Len(calls) = Len(m.calls) - 1 /\ Len(m.calls) \in Nat
      /\ \A j \in 1 .. Len(m.calls) - 1 : calls[j] = IF j < k THEN m.calls[j] ELSE m.calls[j + 1]
  <2> HIDE DEF F
  <2> DEFINE s == m.calls
  <2>1. s \in Seq(F) /\ s[k] \in F BY <1>1
  <2> HIDE DEF s
  <2>2. k \in 1 .. Len(s) BY DEF s
  <2>3. /\ Cut(s, k) \in Seq(F) /\ Len(Cut(s, k)) = Len(s) - 1 /\ Len(s) \in Nat
        /\ \A j \in 1 .. Len(s) - 1 : Cut(s, k)[j] = IF j < k THEN s[j] ELSE s[j + 1]
    BY Zenon, <2>1, <2>2, CutIndices
  <2> QED BY <2>1, <2>3 DEF s
<1> HIDE DEF calls, c
<1>3. r \in NMKnowledge /\ r.nodes = m.nodes /\ r.calls = calls /\ r.told = m.told
  BY <1>1, <1>2 DEF NMKnowledge
<1> HIDE DEF r
<1>4. Tied(r)
  BY <1>1, <1>3 DEF Tied
<1>5. c.call \in {"wifi", "ap"} => NamesWifi(c, m.nodes)
  BY <1>1 DEF Named, c
<1>6. Named(r.calls, q, r.nodes)
  <2>1. ASSUME NEW j \in 1 .. Len(calls), calls[j].call \in {"wifi", "ap"}
        PROVE  NamesWifi(calls[j], m.nodes)
    <3>1. j \in 1 .. Len(m.calls) /\ j + 1 \in 1 .. Len(m.calls)
      BY <1>2
    <3>2. calls[j] = m.calls[j] \/ calls[j] = m.calls[j + 1]
      BY <1>2
    <3> QED BY <1>1, <2>1, <3>1, <3>2 DEF Named
  <2> QED BY <1>1, <1>3, <2>1 DEF Named
<1>7. ASSUME NEW j \in 1 .. Len(m.nodes)
      PROVE  m.nodes[j].ap_calls = Weigh(calls, CallsFor(j)) + Weigh(q, AnswersFor(j))
                                   + (IF c.call = "ap" /\ c.node = j THEN 1 ELSE 0)
  <2> DEFINE w == CallsFor(j)
             B == Weigh(q, AnswersFor(j))
  <2>1. w \in [F -> Int] /\ w[c] = IF c.call = "ap" /\ c.node = j THEN 1 ELSE 0
    BY <1>2, WeightTypes
  <2>2. Weigh(calls, w) = Weigh(m.calls, w) - w[c]
    <3>1. w \in [F -> Int] BY <2>1
    <3>2. m.calls \in Seq(F) BY <1>1
    <3> HIDE DEF w, F
    <3> QED BY <3>1, <3>2, WeighCut DEF calls, c
  <2>3. m.nodes[j].ap_calls = Weigh(m.calls, w) + B
    BY <1>1 DEF Counted
  <2>4. Weigh(m.calls, w) \in Int /\ B \in Int
    BY <1>1, CountsAreNat
  <2> HIDE DEF w, B
  <2>5. m.nodes[j].ap_calls
          = Weigh(calls, w) + B + (IF c.call = "ap" /\ c.node = j THEN 1 ELSE 0)
    BY <2>1, <2>2, <2>3, <2>4
  <2> QED BY <2>5 DEF w, B
<1>8. ASSUME c.call # "ap" PROVE Sound(r, q)
  <2>1. ASSUME NEW j \in 1 .. Len(m.nodes)
        PROVE  m.nodes[j].ap_calls = Weigh(calls, CallsFor(j)) + Weigh(q, AnswersFor(j))
    <3> DEFINE A == Weigh(calls, CallsFor(j))
               B == Weigh(q, AnswersFor(j))
    <3>1. A \in Int /\ B \in Int
      BY <1>2, CountsAreNat
    <3>2. m.nodes[j].ap_calls = A + B + (IF c.call = "ap" /\ c.node = j THEN 1 ELSE 0)
      BY <1>7
    <3> HIDE DEF A, B
    <3>3. m.nodes[j].ap_calls = A + B
      BY <1>8, <3>1, <3>2
    <3> QED BY <3>3 DEF A, B
  <2>2. Counted(r.calls, q, r.nodes)
    BY <1>3, <2>1 DEF Counted
  <2> QED BY <1>4, <1>6, <2>2 DEF Sound
<1>9. ASSUME c.call = "ap" PROVE Overcounted(r, q, c.node)
  <2>1. ASSUME NEW j \in 1 .. Len(m.nodes)
        PROVE  m.nodes[j].ap_calls = Weigh(calls, CallsFor(j)) + Weigh(q, AnswersFor(j))
                                     + (IF j = c.node THEN 1 ELSE 0)
    BY <1>7, <1>9
  <2>2. NamesWifi(c, m.nodes)
    BY <1>5, <1>9
  <2> QED BY <1>3, <1>4, <1>6, <2>1, <2>2 DEF Overcounted, NamesWifi
<1> QED BY <1>2, <1>5, <1>8, <1>9 DEF r, c, calls

\* A message, which may be the answer to that call
LEMMA MessageSound ==
  ASSUME NEW m, NEW q \in Seq(NMMessages), NEW msg \in NMMessages,
         msg.type \in {"wifi", "ap"} => NamesWifi(msg, m.nodes),
         msg.type # "ap" => Sound(m, q), msg.type = "ap" => Overcounted(m, q, msg.node)
  PROVE  Sound(m, Append(q, msg))
<1> DEFINE t == Append(q, msg)
<1>1. /\ t \in Seq(NMMessages) /\ Len(q) \in Nat /\ Len(t) = Len(q) + 1
      /\ t[Len(q) + 1] = msg /\ \A k \in 1 .. Len(q) : t[k] = q[k]
      /\ \A w \in [NMMessages -> Int] : Weigh(t, w) = Weigh(q, w) + w[msg]
  BY AppendFacts, WeighAppend
<1> HIDE DEF t
<1>2. Tied(m) /\ Named(m.calls, q, m.nodes) /\ m.calls \in Seq(P!NM!Calls)
  <2>1. Tied(m) /\ Named(m.calls, q, m.nodes)
    BY DEF Sound, Overcounted
  <2> QED BY <2>1, NMFields DEF Tied
<1>3. Named(m.calls, t, m.nodes)
  <2>1. ASSUME NEW k \in 1 .. Len(t), t[k].type \in {"wifi", "ap"}
        PROVE  NamesWifi(t[k], m.nodes)
    <3>1. k \in 1 .. Len(q) \/ k = Len(q) + 1
      BY <1>1
    <3>2. CASE k \in 1 .. Len(q)
      BY <1>1, <1>2, <2>1, <3>2 DEF Named
    <3>3. CASE k = Len(q) + 1
      BY <1>1, <2>1, <3>3
    <3> QED BY <3>1, <3>2, <3>3
  <2> QED BY <1>2, <2>1 DEF Named
<1>4. ASSUME NEW j \in 1 .. Len(m.nodes)
      PROVE  m.nodes[j].ap_calls = Weigh(m.calls, CallsFor(j)) + Weigh(t, AnswersFor(j))
  <2> DEFINE v == AnswersFor(j)
             A == Weigh(m.calls, CallsFor(j))
             B == Weigh(q, v)
  <2>1. v \in [NMMessages -> Int] /\ v[msg] = IF msg.type = "ap" /\ msg.node = j THEN 1 ELSE 0
    BY WeightTypes
  <2>2. Weigh(t, v) = B + v[msg]
    BY <1>1, <2>1
  <2>3. A \in Int /\ B \in Int
    BY <1>2, CountsAreNat
  <2>4. m.nodes[j].ap_calls = A + B + (IF msg.type = "ap" /\ msg.node = j THEN 1 ELSE 0)
    <3>1. CASE msg.type = "ap"
      <4>1. m.nodes[j].ap_calls = A + B + (IF j = msg.node THEN 1 ELSE 0)
        BY <3>1 DEF Overcounted
      <4> HIDE DEF A, B
      <4> QED BY <3>1, <4>1
    <3>2. CASE msg.type # "ap"
      <4>1. m.nodes[j].ap_calls = A + B
        BY <3>2 DEF Sound, Counted
      <4> HIDE DEF A, B
      <4> QED BY <2>3, <3>2, <4>1
    <3> QED BY <3>1, <3>2
  <2> HIDE DEF v, A, B
  <2>5. m.nodes[j].ap_calls = A + Weigh(t, v)
    BY <2>1, <2>2, <2>3, <2>4
  <2> QED BY <2>5 DEF v, A
<1> QED BY <1>2, <1>3, <1>4 DEF Sound, Counted, t

-----------------------------------------------------------------------------
\* The bus says, after the k-th message, that d is no longer activated.
Undone(q, k, d) == \E l \in k + 1 .. Len(q) : Undoes(q[l], d)

\* What is known of a wired device that is not activated: that it is will be taken back.
Follows(now, q, nodes) ==
    \A d \in Devices \ Wifi : now[d] # "activated" =>
        /\ \A k \in 1 .. Len(q) : Says(q[k], d) => Undone(q, k, d)
        /\ \A i \in 1 .. Len(nodes) :
              nodes[i].device = d /\ nodes[i].state = "activated" => Undone(q, 0, d)

\* A message is read.
LEMMA FollowsTail ==
  ASSUME NEW now, NEW q \in Seq(NMMessages), q # <<>>, NEW m, NEW r,
         Follows(now, q, m.nodes), StatesFrom(m, r, Head(q))
  PROVE  Follows(now, Tail(q), r.nodes)
<1> DEFINE msg == Head(q)
           t == Tail(q)
<1>1. /\ msg = q[1] /\ 1 \in 1 .. Len(q) /\ Len(q) \in Nat /\ Len(t) = Len(q) - 1
      /\ \A k \in 1 .. Len(t) : t[k] = q[k + 1] /\ k + 1 \in 2 .. Len(q)
      /\ \A k \in 2 .. Len(q) : k - 1 \in 1 .. Len(t) /\ q[k] = t[k - 1]
  BY HeadAndTail
<1>2. StatesFrom(m, r, msg)
  OBVIOUS
<1> HIDE DEF msg, t
<1>3. ASSUME NEW d, NEW k \in Nat, Undone(q, k + 1, d) PROVE Undone(t, k, d)
  <2>1. PICK l \in (k + 1) + 1 .. Len(q) : Undoes(q[l], d)
    BY <1>3 DEF Undone
  <2>2. l \in 2 .. Len(q) /\ l - 1 \in k + 1 .. Len(t)
    BY <1>1, <2>1
  <2>3. Undoes(t[l - 1], d)
    BY <1>1, <2>1, <2>2
  <2> QED BY <2>2, <2>3 DEF Undone
<1>4. ASSUME NEW d, Undone(q, 0, d) PROVE Undoes(msg, d) \/ Undone(t, 0, d)
  <2>1. PICK l \in 1 .. Len(q) : Undoes(q[l], d)
    BY <1>4 DEF Undone
  <2>2. CASE l = 1
    BY <1>1, <2>1, <2>2
  <2>3. CASE l # 1
    <3>1. l \in (0 + 1) + 1 .. Len(q)
      BY <1>1, <2>3
    <3>2. Undone(q, 0 + 1, d)
      BY <2>1, <3>1 DEF Undone
    <3> QED BY <1>3, <3>2
  <2> QED BY <2>2, <2>3
<1>5. ASSUME NEW d \in Devices \ Wifi, now[d] # "activated", NEW k \in 1 .. Len(t), Says(t[k], d)
      PROVE  Undone(t, k, d)
  <2>1. k + 1 \in 1 .. Len(q) /\ t[k] = q[k + 1] /\ k \in Nat
    BY <1>1
  <2>2. Undone(q, k + 1, d)
    BY <1>5, <2>1 DEF Follows
  <2> QED BY <1>3, <2>1, <2>2
<1>6. ASSUME NEW d \in Devices \ Wifi, now[d] # "activated", NEW i \in 1 .. Len(r.nodes),
             r.nodes[i].device = d, r.nodes[i].state = "activated"
      PROVE  Undone(t, 0, d)
  <2>1. CASE Says(msg, d)
    <3>1. Undone(q, 0 + 1, d)
      BY <1>1, <1>6, <2>1 DEF Follows
    <3> QED BY <1>3, <3>1
  <2>2. CASE /\ i \in 1 .. Len(m.nodes) /\ m.nodes[i].state = "activated"
             /\ m.nodes[i].device = d /\ ~Undoes(msg, d)
    <3>1. Undone(q, 0, d)
      BY <1>6, <2>2 DEF Follows
    <3> QED BY <1>4, <2>2, <3>1
  <2> QED BY <1>2, <1>6, <2>1, <2>2 DEF StatesFrom
<1> QED BY <1>5, <1>6 DEF Follows, t

\* A message is sent, and the device may have changed.
LEMMA FollowsAppend ==
  ASSUME NEW now, NEW next, NEW q \in Seq(NMMessages), NEW nodes, Follows(now, q, nodes),
         NEW msg \in NMMessages,
         \A d \in Devices \ Wifi : next[d] # "activated" =>
             Undoes(msg, d) \/ (now[d] # "activated" /\ ~Says(msg, d))
  PROVE  Follows(next, Append(q, msg), nodes)
<1> DEFINE t == Append(q, msg)
<1>1. /\ Len(q) \in Nat /\ Len(t) = Len(q) + 1
      /\ t[Len(q) + 1] = msg /\ \A k \in 1 .. Len(q) : t[k] = q[k]
  BY AppendFacts
<1> HIDE DEF t
<1>2. ASSUME NEW d, NEW k \in 0 .. Len(q), Undone(q, k, d) PROVE Undone(t, k, d)
  <2>1. PICK l \in k + 1 .. Len(q) : Undoes(q[l], d)
    BY <1>2 DEF Undone
  <2>2. l \in k + 1 .. Len(t) /\ l \in 1 .. Len(q)
    BY <1>1, <2>1
  <2> QED BY <1>1, <2>1, <2>2 DEF Undone
<1>3. ASSUME NEW d, NEW k \in 0 .. Len(q), Undoes(msg, d) PROVE Undone(t, k, d)
  <2>1. Len(q) + 1 \in k + 1 .. Len(t)
    BY <1>1
  <2> QED BY <1>1, <1>3, <2>1 DEF Undone
<1>4. ASSUME NEW d \in Devices \ Wifi, next[d] # "activated", NEW k \in 1 .. Len(t), Says(t[k], d)
      PROVE  Undone(t, k, d)
  <2>1. k \in 1 .. Len(q) \/ k = Len(q) + 1
    BY <1>1
  <2>2. CASE k = Len(q) + 1
    BY <1>1, <1>4, <2>2 DEF Says, Undoes
  <2>3. CASE k \in 1 .. Len(q)
    <3>1. k \in 0 .. Len(q)
      BY <1>1, <2>3
    <3>2. CASE Undoes(msg, d)
      BY <1>3, <3>1, <3>2
    <3>3. CASE now[d] # "activated"
      <4>1. Says(q[k], d)
        BY <1>1, <1>4, <2>3
      <4>2. Undone(q, k, d)
        BY <2>3, <3>3, <4>1 DEF Follows
      <4> QED BY <1>2, <3>1, <4>2
    <3> QED BY <1>4, <3>2, <3>3
  <2> QED BY <2>1, <2>2, <2>3
<1>5. ASSUME NEW d \in Devices \ Wifi, next[d] # "activated", NEW i \in 1 .. Len(nodes),
             nodes[i].device = d, nodes[i].state = "activated"
      PROVE  Undone(t, 0, d)
  <2>1. 0 \in 0 .. Len(q)
    BY <1>1
  <2>2. CASE Undoes(msg, d)
    BY <1>3, <2>1, <2>2
  <2>3. CASE now[d] # "activated"
    <3>1. Undone(q, 0, d)
      BY <1>5, <2>3 DEF Follows
    <3> QED BY <1>2, <2>1, <3>1
  <2> QED BY <1>5, <2>2, <2>3
<1> QED BY <1>4, <1>5 DEF Follows, t

\* The states are the same.
LEMMA FollowsSame ==
  ASSUME NEW now, NEW q, NEW m, NEW r, Follows(now, q, m.nodes), SameStates(m, r)
  PROVE  Follows(now, q, r.nodes)
BY DEF Follows, SameStates

-----------------------------------------------------------------------------
\* nm_device_unref() of one of the list, when the calls are cancelled
LEMMA UnlistedTied ==
  ASSUME NEW m, Tied(m), NEW i \in 1 .. Len(m.nodes)
  PROVE  LET r == P!NM!Unlisted(m, i)
         IN /\ Tied(r) /\ r.calls = m.calls /\ Len(r.nodes) = Len(m.nodes)
            /\ r.nodes[i].device = m.nodes[i].device
            /\ m.nodes[i].device \notin Wifi => r.nodes[i].contexts = 0
            /\ \A j \in 1 .. Len(m.nodes) : j # i => r.nodes[j] = m.nodes[j]
<1> DEFINE x == m.nodes[i]
           y == [x EXCEPT !.listed = FALSE]
           z == Unrefd(y)
           r == P!NM!Unlisted(m, i)
<1>1. m \in NMKnowledge /\ x \in P!NM!NMDevice /\ ProperNode(x) /\ m.calls \in Seq(P!NM!Calls)
  BY NMFields DEF Tied
<1>2. /\ y \in P!NM!NMDevice /\ y.device = x.device /\ ~y.listed
      /\ y.state = x.state /\ y.ap_calls = x.ap_calls
  BY Zenon, <1>1 DEF P!NM!NMDevice
<1>3. r = Swap(m, i, z, m.calls)
  BY <1>1, UnlistedIs
<1> HIDE DEF r, y
<1>4. /\ z \in P!NM!NMDevice /\ z.device = y.device /\ z.listed = y.listed
      /\ z.state = y.state /\ z.ap_calls = y.ap_calls
      /\ ~(y.listed \/ y.ap_calls > 0) => ~z.connected /\ z.contexts = 0
  BY <1>2, UnrefdType
<1> HIDE DEF z
<1>5. x.device \notin Wifi => ~z.connected /\ z.contexts = 0 /\ ~z.listed /\ z.ap_calls = 0
  <2>1. x.device \notin Wifi => y.ap_calls = 0
    BY <1>1, <1>2 DEF ProperNode
  <2>2. x.device \notin Wifi => ~(y.listed \/ y.ap_calls > 0)
    BY <1>2, <2>1
  <2> QED BY <1>2, <1>4, <2>1, <2>2
<1>6. ProperNode(z) /\ z.device = x.device
  <2>1. z.connected \in BOOLEAN /\ z.listed \in BOOLEAN BY <1>4, NodeFields
  <2> QED BY <1>1, <1>2, <1>4, <1>5, <2>1 DEF ProperNode
<1>7. Tied(r)
  BY <1>1, <1>3, <1>4, <1>6, SwapTied
<1>8. /\ r.calls = m.calls /\ Len(r.nodes) = Len(m.nodes) /\ r.nodes[i] = z
      /\ \A j \in 1 .. Len(m.nodes) : j # i => r.nodes[j] = m.nodes[j]
  BY <1>1, <1>3, <1>4, SwapFields
<1> QED BY <1>5, <1>6, <1>7, <1>8 DEF r

\* gupnp_network_manager_dispose(): no context of a wired device is left.
LEMMA FreedTied ==
  ASSUME NEW m, Tied(m)
  PROVE  LET r == P!NM!Freed(m)
         IN /\ Tied(r) /\ r.calls = m.calls
            /\ \A j \in 1 .. Len(r.nodes) : r.nodes[j].device \notin Wifi => r.nodes[j].contexts = 0
<1> DEFINE L == Len(m.nodes)
           K == {x \in NMKnowledge : Tied(x) /\ Len(x.nodes) = L /\ x.calls = m.calls}
           New(x, i) == P!NM!Unlisted(x, i)
           step == [p \in (1 .. L) \X K |-> New(p[2], p[1])]
           after[i \in 0 .. L] == IF i = 0 THEN m ELSE New(after[i - 1], i)
           Bare(x, j) == x.nodes[j].device \notin Wifi => x.nodes[j].contexts = 0
<1>1. m \in NMKnowledge /\ L \in Nat
  BY NMFields DEF Tied
<1>2. m \in K
  BY <1>1
<1>3. ASSUME NEW i \in 1 .. L, NEW x \in K
      PROVE /\ New(x, i) \in K /\ Bare(New(x, i), i)
            /\ \A j \in 1 .. L : j # i => New(x, i).nodes[j] = x.nodes[j]
  <2> DEFINE r == P!NM!Unlisted(x, i)
  <2>1. Tied(x) /\ i \in 1 .. Len(x.nodes) /\ Len(x.nodes) = L /\ x.calls = m.calls
    OBVIOUS
  <2>2. /\ Tied(r) /\ r.calls = x.calls /\ Len(r.nodes) = Len(x.nodes)
        /\ r.nodes[i].device = x.nodes[i].device
        /\ x.nodes[i].device \notin Wifi => r.nodes[i].contexts = 0
        /\ \A j \in 1 .. Len(x.nodes) : j # i => r.nodes[j] = x.nodes[j]
    BY <2>1, UnlistedTied
  <2> HIDE DEF r
  <2>3. r \in NMKnowledge
    BY <2>2 DEF Tied
  <2>4. r \in K /\ Bare(r, i) /\ \A j \in 1 .. L : j # i => r.nodes[j] = x.nodes[j]
    BY <2>1, <2>2, <2>3
  <2> QED BY <2>4 DEF r
<1> HIDE DEF New, K, L
<1>4. step \in [(1 .. L) \X K -> K]
  BY <1>3
<1>5. PICK g : Repeats(g, K, m, L, step)
  <2> HIDE DEF step
  <2> QED BY <1>1, <1>2, <1>4, Iteration
<1>6. g \in [0 .. L -> K] /\ g[0] = m
  BY <1>5 DEF Repeats
<1>7. ASSUME NEW i \in 1 .. L PROVE g[i - 1] \in K /\ g[i] = New(g[i - 1], i)
  <2>1. g[i - 1] \in K
    BY <1>1, <1>6
  <2>2. g[i] = step[<<i, g[i - 1]>>]
    BY Zenon, <1>5 DEF Repeats
  <2> QED BY <2>1, <2>2
<1>8. g = [i \in 0 .. L |-> IF i = 0 THEN m ELSE New(g[i - 1], i)]
  BY <1>6, <1>7
<1>9. after = [i \in 0 .. L |-> IF i = 0 THEN m ELSE New(after[i - 1], i)]
  BY Zenon, <1>8
<1>10. P!NM!Freed(m) = after[L]
  BY DEF P!NM!Freed, New, L
<1> HIDE DEF after, Bare
<1>11. after[0] = m /\ \A i \in 1 .. L : after[i] = New(after[i - 1], i)
  BY <1>1, <1>9
<1> DEFINE T == {i \in 0 .. L : after[i] \in K /\ \A j \in 1 .. i : Bare(after[i], j)}
<1>12. 0 \in T
  <2>1. \A j \in 1 .. 0 : FALSE
    OBVIOUS
  <2> QED BY <1>1, <1>2, <1>11, <2>1
<1>13. ASSUME NEW i \in 1 .. L, i - 1 \in T PROVE i \in T
  <2> DEFINE x == after[i - 1]
             y == after[i]
  <2>1. x \in K /\ (\A j \in 1 .. i - 1 : Bare(x, j)) /\ y = New(x, i) /\ i \in 0 .. L
    BY <1>11, <1>13
  <2> HIDE DEF x, y
  <2>2. y \in K /\ Bare(y, i) /\ \A j \in 1 .. L : j # i => y.nodes[j] = x.nodes[j]
    BY <1>3, <2>1
  <2>3. ASSUME NEW j \in 1 .. i PROVE Bare(y, j)
    <3>1. CASE j = i
      BY <2>2, <3>1
    <3>2. CASE j # i
      <4>1. j \in 1 .. L /\ j \in 1 .. i - 1
        BY <1>1, <3>2
      <4>2. y.nodes[j] = x.nodes[j] /\ Bare(x, j)
        BY <2>1, <2>2, <3>2, <4>1
      <4> QED BY <4>2 DEF Bare
    <3> QED BY <3>1, <3>2
  <2> QED BY <2>1, <2>2, <2>3 DEF y
<1>14. L \in T
  <2>1. L \in 0 .. L BY <1>1
  <2> HIDE DEF T
  <2> QED BY <1>1, <1>12, <1>13, <2>1, Induction
<1> QED BY <1>10, <1>14 DEF K, Bare

\* The contexts of a device, counted as the property does
LEMMA HeldIs ==
  ASSUME NEW nodes \in Seq(P!NM!NMDevice), NEW d
  PROVE  P!NM!Held(nodes, d) = Weigh(nodes, ContextsOf(d))
<1> DEFINE Z == Len(nodes)
           w == ContextsOf(d)
           B == P!NM!NMDevice
           sum[i \in 0 .. Z] ==
               IF i = 0 THEN 0
               ELSE IF nodes[i].device = d THEN sum[i - 1] + nodes[i].contexts ELSE sum[i - 1]
<1>1. Z \in Nat /\ w \in [B -> Int]
      /\ \A i \in 1 .. Z : w[nodes[i]] = IF nodes[i].device = d THEN nodes[i].contexts ELSE 0
  <2>1. \A i \in 1 .. Z : nodes[i] \in B
    OBVIOUS
  <2> QED BY <2>1, WeightTypes
<1> HIDE DEF w
<1>2. PICK g : Sums(g, nodes, w)
  <2> HIDE DEF B, Z
  <2>1. nodes \in Seq(B) BY DEF B
  <2> QED BY <1>1, <2>1, SumsExist
<1>3. Weigh(nodes, w) = g[Z]
  <2> HIDE DEF B
  <2>1. nodes \in Seq(B) BY DEF B
  <2> QED BY <1>1, <1>2, <2>1, SumIsLast
<1>4. g \in [0 .. Z -> Int] /\ g[0] = 0 /\ \A i \in 1 .. Z : g[i] = g[i - 1] + w[nodes[i]]
  BY <1>2 DEF Sums
<1>5. ASSUME NEW i \in 1 .. Z
      PROVE  g[i] = IF nodes[i].device = d THEN g[i - 1] + nodes[i].contexts ELSE g[i - 1]
  <2>1. i - 1 \in 0 .. Z
    BY <1>1
  <2>2. g[i - 1] \in Int
    BY <1>4, <2>1
  <2> QED BY <1>1, <1>4, <2>2
<1> HIDE DEF Z
<1>6. g = [i \in 0 .. Z |->
             IF i = 0 THEN 0
             ELSE IF nodes[i].device = d THEN g[i - 1] + nodes[i].contexts ELSE g[i - 1]]
  BY SMTT(30), <1>1, <1>4, <1>5
<1>7. sum = [i \in 0 .. Z |->
             IF i = 0 THEN 0
             ELSE IF nodes[i].device = d THEN sum[i - 1] + nodes[i].contexts ELSE sum[i - 1]]
  BY Zenon, <1>6
<1>8. P!NM!Held(nodes, d) = sum[Z]
  BY DEF P!NM!Held, Z
<1> HIDE DEF sum
<1>9. sum[0] = 0
  BY <1>1, <1>7
<1>10. ASSUME NEW i \in 1 .. Z
       PROVE  sum[i] = IF nodes[i].device = d THEN sum[i - 1] + nodes[i].contexts ELSE sum[i - 1]
  <2>1. i \in 0 .. Z /\ i # 0
    BY <1>1
  <2> QED BY Zenon, <1>7, <2>1
<1> DEFINE Same == {i \in 0 .. Z : sum[i] = g[i]}
<1>11. 0 \in Same
  BY <1>1, <1>4, <1>9
<1>12. ASSUME NEW i \in 1 .. Z, i - 1 \in Same PROVE i \in Same
  BY <1>5, <1>10, <1>12
<1>13. Z \in Same
  <2>1. Z \in 0 .. Z BY <1>1
  <2> HIDE DEF Same
  <2> QED BY Zenon, <1>1, <1>11, <1>12, <2>1, Induction
<1> QED BY <1>3, <1>8, <1>13 DEF w

-----------------------------------------------------------------------------
\* What was told is held by NMDevices, each of which counts the calls and answers that
\* keep it; what is known of a wired device is so, or will be taken back.
NMInv ==
    /\ os \in [Devices -> P!NM!DeviceStates]
    /\ manager \in [nodes : Seq(P!NM!NMDevice), calls : Seq(P!NM!Calls)]
    /\ disposed \in BOOLEAN
    /\ Tied(P!NM!Known)
    /\ ~disposed => /\ queue \in Seq(NMMessages)
                    /\ Sound(P!NM!Known, queue)
                    /\ Follows(os, queue, manager.nodes)
    /\ disposed => /\ queue = <<>>
                   /\ \A i \in 1 .. Len(manager.nodes) :
                         manager.nodes[i].device \notin Wifi => manager.nodes[i].contexts = 0

\* What it consists of
LEMMA NMInvParts ==
  ASSUME NMInv
  PROVE  LET m == P!NM!Known
         IN /\ os \in [Devices -> P!NM!DeviceStates] /\ disposed \in BOOLEAN
            /\ manager.nodes \in Seq(P!NM!NMDevice) /\ manager.calls \in Seq(P!NM!Calls)
            /\ manager = [nodes |-> manager.nodes, calls |-> manager.calls]
            /\ m = [nodes |-> manager.nodes, calls |-> manager.calls, told |-> told]
            /\ m.nodes = manager.nodes /\ m.calls = manager.calls /\ m.told = told
            /\ Tied(m) /\ m \in NMKnowledge /\ told \in [Devices -> Int]
            /\ ~disposed => /\ queue \in Seq(NMMessages)
                            /\ Sound(m, queue)
                            /\ Follows(os, queue, manager.nodes)
<1>1. P!NM!Known = [nodes |-> manager.nodes, calls |-> manager.calls, told |-> told]
  BY DEF P!NM!Known
<1>2. manager.nodes \in Seq(P!NM!NMDevice) /\ manager.calls \in Seq(P!NM!Calls)
      /\ manager = [nodes |-> manager.nodes, calls |-> manager.calls]
  BY DEF NMInv
<1> DEFINE m == P!NM!Known
<1>3. m.nodes = manager.nodes /\ m.calls = manager.calls /\ m.told = told
  BY <1>1
<1>4. Tied(m)
  BY DEF NMInv
<1> HIDE DEF m
<1>5. m \in NMKnowledge
  BY <1>4 DEF Tied
<1>6. told \in [Devices -> Int]
  BY <1>3, <1>5, NMFields
<1> QED BY <1>1, <1>2, <1>3, <1>4, <1>5, <1>6 DEF NMInv, m

\* A wired device of which something was told has an NMDevice that is activated.
LEMMA ToldIsActivated ==
  ASSUME NEW m, Tied(m), NEW d \in Devices \ Wifi, m.told[d] # 0
  PROVE  \E i \in 1 .. Len(m.nodes) : /\ m.nodes[i].device = d /\ m.nodes[i].state = "activated"
                                      /\ m.nodes[i].contexts # 0
<1> SUFFICES ASSUME \A i \in 1 .. Len(m.nodes) :
                       ~(m.nodes[i].device = d /\ m.nodes[i].contexts # 0)
             PROVE  FALSE
  <2>1. ASSUME NEW i \in 1 .. Len(m.nodes), m.nodes[i].device = d, m.nodes[i].contexts # 0
        PROVE  m.nodes[i].state = "activated"
    <3>1. m.nodes[i] \in P!NM!NMDevice /\ ProperNode(m.nodes[i])
      BY NMFields DEF Tied
    <3>2. m.nodes[i].contexts > 0
      BY <2>1, <3>1, NodeFields
    <3> QED BY <2>1, <3>1, <3>2 DEF ProperNode
  <2> QED BY <2>1
<1> DEFINE w == ContextsOf(d)
           B == P!NM!NMDevice
<1>1. m.nodes \in Seq(B) /\ m.told[d] = Weigh(m.nodes, w)
  BY NMFields DEF Tied
<1>2. w \in [B -> Int]
  BY WeightTypes
<1>3. \A i \in 1 .. Len(m.nodes) : w[m.nodes[i]] = 0
  <2>1. \A i \in 1 .. Len(m.nodes) : m.nodes[i] \in B
    BY <1>1
  <2> QED BY <2>1, WeightTypes
<1> DEFINE s == m.nodes
<1> HIDE DEF w, B
<1>4. s \in Seq(B) /\ \A i \in 1 .. Len(s) : w[s[i]] >= 0 /\ w[s[i]] = 0
  BY <1>1, <1>3
<1> HIDE DEF s
<1>5. Weigh(s, w) = 0
  BY Zenon, <1>2, <1>4, WeighNat
<1> QED BY <1>1, <1>5 DEF s

\* It says what the run checks.
LEMMA NMInvTells == NMInv => P!NM!TypeOK /\ P!NM!ToldIsHeld /\ P!NM!WiredFollowsState
<1> SUFFICES ASSUME NMInv PROVE P!NM!TypeOK /\ P!NM!ToldIsHeld /\ P!NM!WiredFollowsState
  OBVIOUS
<1> DEFINE m == P!NM!Known
<1>1. P!NM!TypeOK
  <2>1. \A i \in DOMAIN manager.calls : manager.calls[i] \in P!NM!Calls
    <3>1. manager.calls \in Seq(P!NM!Calls)
      BY NMInvParts
    <3> QED BY <3>1
  <2> QED BY <2>1, NMInvParts DEF P!NM!TypeOK
<1>2. m.told = told /\ m.nodes = manager.nodes /\ Tied(m) /\ manager.nodes \in Seq(P!NM!NMDevice)
  BY NMInvParts
<1> HIDE DEF m
<1>3. P!NM!ToldIsHeld
  <2>1. ASSUME NEW d \in Devices PROVE told[d] = P!NM!Held(manager.nodes, d)
    <3>1. told[d] = Weigh(manager.nodes, ContextsOf(d))
      BY <1>2 DEF Tied
    <3> QED BY <1>2, <3>1, HeldIs
  <2> QED BY <2>1 DEF P!NM!ToldIsHeld
<1>4. ASSUME queue = <<>>, NEW d \in Devices \ Wifi, told[d] # 0 PROVE os[d] = "activated"
  <2>1. PICK i \in 1 .. Len(manager.nodes) :
           /\ manager.nodes[i].device = d /\ manager.nodes[i].state = "activated"
           /\ manager.nodes[i].contexts # 0
    BY <1>2, <1>4, ToldIsActivated
  <2>2. ~disposed
    BY <2>1 DEF NMInv
  <2>3. ~Undone(queue, 0, d)
    <3>1. \A l \in 0 + 1 .. Len(<<>>) : FALSE
      OBVIOUS
    <3> QED BY <1>4, <3>1 DEF Undone
  <2> QED BY <2>1, <2>2, <2>3 DEF NMInv, Follows
<1> QED BY <1>1, <1>3, <1>4 DEF P!NM!WiredFollowsState

\* It holds at first.
LEMMA InitNM == P!NM!Init => NMInv
<1> SUFFICES ASSUME P!NM!Init PROVE NMInv
  OBVIOUS
<1> DEFINE m == P!NM!Known
           GetDevices == [call |-> "GetDevices"]
<1>1. /\ os \in [Devices -> P!NM!DeviceStates] /\ queue = <<>> /\ disposed = FALSE
      /\ manager = [nodes |-> <<>>, calls |-> <<GetDevices>>]
      /\ told = [d \in Devices |-> 0]
  BY DEF P!NM!Init
<1>2. GetDevices \in P!NM!Calls /\ GetDevices.call = "GetDevices"
  BY DEF P!NM!Calls
<1> HIDE DEF GetDevices
<1>3. /\ <<GetDevices>> \in Seq(P!NM!Calls) /\ Len(<<GetDevices>>) = 1
      /\ <<GetDevices>>[1] = GetDevices
  BY <1>2
<1>4. <<>> \in Seq(P!NM!NMDevice) /\ Len(<<>>) = 0 /\ <<>> \in Seq(NMMessages)
  OBVIOUS
<1>5. m = [nodes |-> <<>>, calls |-> <<GetDevices>>, told |-> [d \in Devices |-> 0]]
  BY <1>1 DEF P!NM!Known
<1> HIDE DEF m
<1>6. m.nodes = <<>> /\ m.calls = <<GetDevices>> /\ m \in NMKnowledge
      /\ \A d \in Devices : m.told[d] = 0
  BY <1>3, <1>4, <1>5 DEF NMKnowledge
<1>7. Tied(m)
  <2>1. ASSUME NEW d \in Devices PROVE Weigh(<<>>, ContextsOf(d)) = 0
    <3>1. ContextsOf(d) \in [P!NM!NMDevice -> Int]
      BY WeightTypes
    <3> QED BY Zenon, <1>4, <3>1, WeighType
  <2> QED BY <1>4, <1>6, <2>1 DEF Tied
<1>8. Named(m.calls, queue, m.nodes)
  <2>1. ASSUME NEW k \in 1 .. Len(m.calls) PROVE m.calls[k].call \notin {"wifi", "ap"}
    <3>1. k = 1 BY <1>3, <1>6
    <3> QED BY <1>2, <1>3, <1>6, <3>1
  <2>2. \A k \in 1 .. Len(queue) : FALSE
    BY <1>1, <1>4
  <2> QED BY <2>1, <2>2 DEF Named
<1>9. Counted(m.calls, queue, m.nodes)
  <2>1. \A i \in 1 .. Len(m.nodes) : FALSE
    BY <1>4, <1>6
  <2> QED BY <2>1 DEF Counted
<1>10. Follows(os, queue, manager.nodes)
  <2>1. (\A k \in 1 .. Len(queue) : FALSE) /\ \A k \in 1 .. Len(manager.nodes) : FALSE
    BY <1>1, <1>4
  <2> QED BY <2>1 DEF Follows
<1>11. manager \in [nodes : Seq(P!NM!NMDevice), calls : Seq(P!NM!Calls)]
  BY <1>1, <1>3, <1>4
<1> QED BY Zenon, <1>1, <1>4, <1>7, <1>8, <1>9, <1>10, <1>11 DEF NMInv, Sound, m

\* What a step makes known is what the manager then knows.
LEMMA NMLearns ==
  ASSUME NEW r, Tied(r), P!NM!Know(r)
  PROVE  /\ manager' \in [nodes : Seq(P!NM!NMDevice), calls : Seq(P!NM!Calls)]
         /\ manager'.nodes = r.nodes /\ manager'.calls = r.calls /\ told' = r.told
         /\ P!NM!Known' = r
<1>1. manager' = [nodes |-> r.nodes, calls |-> r.calls] /\ told' = r.told
  BY DEF P!NM!Know
<1>2. /\ r.nodes \in Seq(P!NM!NMDevice) /\ r.calls \in Seq(P!NM!Calls)
      /\ r = [nodes |-> r.nodes, calls |-> r.calls, told |-> r.told]
  BY NMFields DEF Tied
<1>3. P!NM!Known' = [nodes |-> manager'.nodes, calls |-> manager'.calls, told |-> told']
  BY DEF P!NM!Known
<1>4. manager'.nodes = r.nodes /\ manager'.calls = r.calls
  BY <1>1
<1>5. P!NM!Known' = r
  BY <1>1, <1>2, <1>3, <1>4
<1> QED BY <1>1, <1>2, <1>4, <1>5

\* The message that comes next is read.
LEMMA NMDispatchStep == NMInv /\ P!NM!Dispatch => NMInv'
<1> SUFFICES ASSUME NMInv, P!NM!Dispatch PROVE NMInv'
  OBVIOUS
<1> DEFINE m == P!NM!Known
           msg == Head(queue)
           t == Tail(queue)
<1>1. /\ ~disposed /\ queue # <<>> /\ queue' = t /\ os' = os /\ disposed' = disposed
  BY DEF P!NM!Dispatch
<1>2. PICK n \in 0 .. P!NM!Cardinality(Families) : P!NM!Know(P!NM!Handle(m, msg, n))
  BY DEF P!NM!Dispatch
<1>3. n \in Nat
  OBVIOUS
<1> DEFINE r == P!NM!Handle(m, msg, n)
<1>4. /\ queue \in Seq(NMMessages) /\ Sound(m, queue) /\ Follows(os, queue, m.nodes)
      /\ os \in [Devices -> P!NM!DeviceStates] /\ disposed \in BOOLEAN
  BY <1>1, NMInvParts
<1> HIDE DEF m
<1>5. /\ Sound(r, t) /\ StatesFrom(m, r, msg) /\ t \in Seq(NMMessages)
  BY <1>1, <1>3, <1>4, HandleSound
<1> HIDE DEF r
<1>6. Follows(os, t, r.nodes)
  BY Zenon, <1>1, <1>4, <1>5, FollowsTail
<1>7. /\ manager' \in [nodes : Seq(P!NM!NMDevice), calls : Seq(P!NM!Calls)]
      /\ manager'.nodes = r.nodes /\ P!NM!Known' = r
  <2>1. Tied(r) /\ P!NM!Know(r)
    BY <1>2, <1>5 DEF Sound, r
  <2> QED BY <2>1, NMLearns
<1>8. Tied(r) /\ queue' = t /\ os' = os /\ ~disposed' /\ disposed' \in BOOLEAN
  BY <1>1, <1>4, <1>5 DEF Sound
<1> HIDE DEF t
<1> QED BY <1>4, <1>5, <1>6, <1>7, <1>8 DEF NMInv

\* A call fails.
LEMMA CallFailsStep ==
  ASSUME NMInv, NEW k \in DOMAIN manager.calls, P!NM!CallFails(k)
  PROVE  NMInv'
<1> DEFINE m == P!NM!Known
           call == manager.calls[k]
           c == [m EXCEPT !.calls = P!NM!RemoveAt(@, k)]
           a == [c EXCEPT !.nodes[call.node].ap_calls = @ - 1]
           r == IF call.call = "ap" THEN P!NM!Unref(a, call.node) ELSE c
<1>1. /\ ~disposed /\ P!NM!Know(r) /\ os' = os /\ queue' = queue /\ disposed' = disposed
  BY DEF P!NM!CallFails
<1>2. /\ queue \in Seq(NMMessages) /\ Sound(m, queue) /\ Follows(os, queue, m.nodes)
      /\ os \in [Devices -> P!NM!DeviceStates] /\ disposed \in BOOLEAN
      /\ m.calls = manager.calls /\ manager.calls \in Seq(P!NM!Calls)
      /\ m = [nodes |-> manager.nodes, calls |-> manager.calls, told |-> told]
      /\ m.nodes = manager.nodes /\ m.told = told
  BY <1>1, NMInvParts
<1> HIDE DEF m
<1>3. k \in 1 .. Len(m.calls) /\ call = m.calls[k]
  BY <1>2
<1>4. c = [nodes |-> m.nodes, calls |-> Cut(m.calls, k), told |-> m.told]
  <2>1. P!NM!RemoveAt(manager.calls, k) = Cut(manager.calls, k)
    BY DEF P!NM!RemoveAt, Cut
  <2>2. c = [nodes |-> manager.nodes, calls |-> P!NM!RemoveAt(manager.calls, k), told |-> told]
    BY <1>2
  <2> QED BY <1>2, <2>1, <2>2
<1> HIDE DEF c, call
<1>5. /\ call.call # "ap" => Sound(c, queue)
      /\ call.call = "ap" => Overcounted(c, queue, call.node)
  BY <1>2, <1>3, <1>4, ReturnedCall
<1>6. c.nodes = m.nodes
  BY <1>4
<1>7. Sound(r, queue) /\ SameStates(c, r)
  <2>1. CASE call.call = "ap"
    <3> DEFINE i == call.node
    <3>1. r = P!NM!Unref([c EXCEPT !.nodes[i].ap_calls = @ - 1], i)
      BY <2>1
    <3>2. Overcounted(c, queue, i) /\ 0 \in Nat
      BY <1>5, <2>1
    <3> HIDE DEF i, r
    <3> QED BY Zenon, <1>2, <3>1, <3>2, ReturnedSound
  <2>2. CASE call.call # "ap"
    <3>1. r = c
      BY <2>2
    <3> QED BY <1>5, <2>2, <3>1 DEF SameStates
  <2> QED BY <2>1, <2>2
<1> HIDE DEF r
<1>8. Follows(os, queue, r.nodes)
  BY Zenon, <1>2, <1>6, <1>7, FollowsSame
<1>9. /\ manager' \in [nodes : Seq(P!NM!NMDevice), calls : Seq(P!NM!Calls)]
      /\ manager'.nodes = r.nodes /\ P!NM!Known' = r
  <2>1. Tied(r)
    BY <1>7 DEF Sound
  <2> QED BY <1>1, <2>1, NMLearns
<1>10. Tied(r)
  BY <1>7 DEF Sound
<1> QED BY <1>1, <1>2, <1>7, <1>8, <1>9, <1>10 DEF NMInv

\* The manager goes.
LEMMA NMDisposeStep == NMInv /\ P!NM!Dispose => NMInv'
<1> SUFFICES ASSUME NMInv, P!NM!Dispose PROVE NMInv'
  OBVIOUS
<1> DEFINE m == P!NM!Known
           c == [m EXCEPT !.calls = <<>>]
           r == P!NM!Freed(c)
<1>1. disposed' = TRUE /\ queue' = <<>> /\ P!NM!Know(r) /\ os' = os
  BY DEF P!NM!Dispose
<1>2. /\ Tied(m) /\ os \in [Devices -> P!NM!DeviceStates]
      /\ m = [nodes |-> manager.nodes, calls |-> manager.calls, told |-> told]
      /\ m.nodes = manager.nodes /\ m.told = told
      /\ manager.nodes \in Seq(P!NM!NMDevice) /\ told \in [Devices -> Int]
  BY NMInvParts
<1> HIDE DEF m
<1>3. c = [nodes |-> manager.nodes, calls |-> <<>>, told |-> told]
  BY <1>2
<1> HIDE DEF c
<1>4. c \in NMKnowledge /\ c.nodes = m.nodes /\ c.told = m.told
  <2>1. <<>> \in Seq(P!NM!Calls)
    OBVIOUS
  <2> QED BY <1>2, <1>3, <2>1 DEF NMKnowledge
<1>5. Tied(c)
  BY <1>2, <1>4 DEF Tied
<1>6. /\ Tied(r)
      /\ \A j \in 1 .. Len(r.nodes) : r.nodes[j].device \notin Wifi => r.nodes[j].contexts = 0
  BY <1>5, FreedTied
<1> HIDE DEF r
<1>7. /\ manager' \in [nodes : Seq(P!NM!NMDevice), calls : Seq(P!NM!Calls)]
      /\ manager'.nodes = r.nodes /\ P!NM!Known' = r
  BY <1>1, <1>6, NMLearns
<1> QED BY <1>1, <1>2, <1>6, <1>7 DEF NMInv

\* A call is answered.
LEMMA NMAnswerStep ==
  ASSUME NMInv, NEW k \in DOMAIN manager.calls, P!NM!Answer(k)
  PROVE  NMInv'
<1> DEFINE m == P!NM!Known
           call == manager.calls[k]
           msg == CASE call.call = "GetDevices" ->
                         [type |-> "GetDevices", devices |-> {d \in Devices : os[d] # "none"}]
                    [] call.call = "device" ->
                         [type |-> "device", device |-> call.device, state |-> os[call.device]]
                    [] OTHER -> [type |-> call.call, node |-> call.node]
           c == [nodes |-> m.nodes, calls |-> Cut(m.calls, k), told |-> m.told]
<1>1. P!NM!Send(msg) /\ manager' = [manager EXCEPT !.calls = P!NM!RemoveAt(@, k)] /\ os' = os
  BY DEF P!NM!Answer
<1>2. ~disposed /\ queue' = Append(queue, msg) /\ told' = told /\ disposed' = disposed
  BY <1>1 DEF P!NM!Send
<1>3. /\ queue \in Seq(NMMessages) /\ Sound(m, queue) /\ Follows(os, queue, m.nodes)
      /\ os \in [Devices -> P!NM!DeviceStates] /\ disposed \in BOOLEAN
      /\ m.calls = manager.calls /\ manager.calls \in Seq(P!NM!Calls)
      /\ manager = [nodes |-> manager.nodes, calls |-> manager.calls]
      /\ manager.nodes \in Seq(P!NM!NMDevice)
      /\ m.nodes = manager.nodes /\ m.told = told
  BY <1>2, NMInvParts
<1>4. m' = [nodes |-> manager'.nodes, calls |-> manager'.calls, told |-> told']
  BY DEF P!NM!Known
<1> HIDE DEF m
<1>5. k \in 1 .. Len(m.calls) /\ call = m.calls[k]
  BY <1>3
<1>6. /\ call \in P!NM!Calls /\ (call.call \in {"wifi", "ap"} => NamesWifi(call, m.nodes))
      /\ call.call # "ap" => Sound(c, queue)
      /\ call.call = "ap" => Overcounted(c, queue, call.node)
  BY <1>3, <1>5, ReturnedCall
<1>7. manager' = [nodes |-> manager.nodes, calls |-> Cut(manager.calls, k)]
  <2>1. P!NM!RemoveAt(manager.calls, k) = Cut(manager.calls, k)
    BY DEF P!NM!RemoveAt, Cut
  <2> QED BY <1>1, <1>3, <2>1
<1>8. m' = c /\ manager'.nodes = m.nodes /\ c.nodes = m.nodes
  BY <1>2, <1>3, <1>4, <1>7
<1> HIDE DEF c, call
<1>9. /\ msg \in NMMessages
      /\ msg.type = call.call
      /\ msg.type \in {"wifi", "ap"} => msg.node = call.node
      /\ \A d \in Devices \ Wifi : os[d] # "activated" => ~Says(msg, d)
  <2>1. CASE call.call = "GetDevices"
    <3>1. msg = [type |-> "GetDevices", devices |-> {d \in Devices : os[d] # "none"}]
      BY <2>1
    <3> HIDE DEF msg
    <3> QED BY <2>1, <3>1 DEF NMMessages, Says
  <2>2. CASE call.call = "device"
    <3>1. msg = [type |-> "device", device |-> call.device, state |-> os[call.device]]
      BY <2>2
    <3>2. call.device \in Devices
      BY <1>6, <2>2 DEF P!NM!Calls
    <3>3. os[call.device] \in P!NM!DeviceStates
      BY <1>3, <3>2
    <3> HIDE DEF msg
    <3>4. msg \in NMMessages /\ msg.type = "device"
      BY <3>1, <3>2, <3>3 DEF NMMessages
    <3>5. \A d \in Devices \ Wifi : os[d] # "activated" => ~Says(msg, d)
      BY <3>1 DEF Says
    <3> QED BY <2>2, <3>4, <3>5
  <2>3. CASE call.call \notin {"GetDevices", "device"}
    <3>1. msg = [type |-> call.call, node |-> call.node]
      BY <2>3
    <3>2. call.call \in {"wifi", "ap"} /\ call.node \in Nat
      BY <1>6, <2>3 DEF P!NM!Calls
    <3> HIDE DEF msg
    <3>3. msg \in NMMessages /\ msg.type = call.call /\ msg.node = call.node
      BY <3>1, <3>2 DEF NMMessages
    <3> QED BY <3>2, <3>3 DEF Says
  <2> QED BY <2>1, <2>2, <2>3
<1> HIDE DEF msg
<1>10. Sound(c, queue')
  <2>1. /\ msg.type \in {"wifi", "ap"} => NamesWifi(msg, c.nodes)
        /\ msg.type # "ap" => Sound(c, queue)
        /\ msg.type = "ap" => Overcounted(c, queue, msg.node)
    BY <1>6, <1>8, <1>9 DEF NamesWifi
  <2> QED BY Zenon, <1>2, <1>3, <1>9, <2>1, MessageSound
<1>11. Follows(os, queue', m.nodes)
  BY <1>2, <1>3, <1>9, FollowsAppend
<1>12. queue' \in Seq(NMMessages)
  BY <1>2, <1>3, <1>9, AppendFacts
<1>13. /\ Tied(c)
       /\ manager' \in [nodes : Seq(P!NM!NMDevice), calls : Seq(P!NM!Calls)]
  <2>1. Tied(c)
    BY <1>10 DEF Sound
  <2>2. c.calls \in Seq(P!NM!Calls) /\ c.calls = Cut(manager.calls, k)
    BY <1>3, <2>1, NMFields DEF Tied, c
  <2> QED BY <1>3, <1>7, <2>1, <2>2
<1>14. P!NM!Known' = c
  BY <1>8 DEF m
<1> QED BY <1>1, <1>2, <1>3, <1>8, <1>10, <1>11, <1>12, <1>13, <1>14 DEF NMInv

\* A device is plugged in, changes its state, or is removed.
LEMMA DeviceChangeStep ==
  ASSUME NMInv, NEW d \in Devices, NEW new \in P!NM!DeviceStates, P!NM!DeviceChange(d, new)
  PROVE  NMInv'
<1> DEFINE m == P!NM!Known
           msg == IF os[d] = "none" THEN [type |-> "DeviceAdded", device |-> d]
                  ELSE IF new = "none" THEN [type |-> "DeviceRemoved", device |-> d]
                  ELSE [type |-> "StateChanged", device |-> d, state |-> new]
<1>1. /\ <<os[d], new>> \in {<<"none", "disconnected">>, <<"disconnected", "activated">>,
                             <<"activated", "disconnected">>, <<"disconnected", "none">>}
      /\ os' = [os EXCEPT ![d] = new] /\ P!NM!Send(msg) /\ manager' = manager
  BY DEF P!NM!DeviceChange
<1>2. ~disposed /\ queue' = Append(queue, msg) /\ told' = told /\ disposed' = disposed
  BY <1>1 DEF P!NM!Send
<1>3. /\ queue \in Seq(NMMessages) /\ Sound(m, queue) /\ Follows(os, queue, m.nodes)
      /\ os \in [Devices -> P!NM!DeviceStates] /\ disposed \in BOOLEAN
      /\ m.nodes = manager.nodes
  BY <1>2, NMInvParts
<1>4. m' = m
  BY <1>1, <1>2 DEF P!NM!Known
<1> HIDE DEF m
<1>5. /\ os' \in [Devices -> P!NM!DeviceStates] /\ os'[d] = new
      /\ \A e \in Devices : e # d => os'[e] = os[e]
  BY <1>1, <1>3
<1>6. /\ msg \in NMMessages /\ msg.type \notin {"wifi", "ap"}
      /\ \A e : Says(msg, e) => e = d /\ new = "activated"
      /\ os[d] = "activated" => Undoes(msg, d)
  <2>1. CASE os[d] = "none"
    <3>1. msg = [type |-> "DeviceAdded", device |-> d]
      BY <2>1
    <3> HIDE DEF msg
    <3> QED BY <2>1, <3>1 DEF NMMessages, Says
  <2>2. CASE os[d] # "none" /\ new = "none"
    <3>1. msg = [type |-> "DeviceRemoved", device |-> d]
      BY <2>2
    <3>2. os[d] # "activated"
      BY <1>1, <2>2
    <3> HIDE DEF msg
    <3> QED BY <3>1, <3>2 DEF NMMessages, Says
  <2>3. CASE os[d] # "none" /\ new # "none"
    <3>1. msg = [type |-> "StateChanged", device |-> d, state |-> new]
      BY <2>3
    <3>2. new \in {"disconnected", "activated"} /\ (os[d] = "activated" => new = "disconnected")
      BY <1>1, <2>3
    <3> HIDE DEF msg
    <3>3. msg \in NMMessages
      BY <3>1, <3>2 DEF NMMessages
    <3> QED BY <3>1, <3>2, <3>3 DEF Says, Undoes
  <2> QED BY <2>1, <2>2, <2>3
<1> HIDE DEF msg
<1>7. Sound(m, queue')
  <2>1. msg.type # "ap" /\ msg.type \notin {"wifi", "ap"}
    BY <1>6
  <2> QED BY <1>2, <1>3, <1>6, <2>1, MessageSound
<1>8. ASSUME NEW e \in Devices \ Wifi, os'[e] # "activated"
      PROVE  Undoes(msg, e) \/ (os[e] # "activated" /\ ~Says(msg, e))
  <2>1. CASE e = d
    BY <1>5, <1>6, <1>8, <2>1
  <2>2. CASE e # d
    BY <1>5, <1>6, <1>8, <2>2
  <2> QED BY <2>1, <2>2
<1>9. Follows(os', queue', m.nodes)
  BY <1>2, <1>3, <1>6, <1>8, FollowsAppend
<1>10. queue' \in Seq(NMMessages)
  BY <1>2, <1>3, <1>6, AppendFacts
<1>11. Tied(m) /\ P!NM!Known' = m
  BY <1>3, <1>4 DEF Sound, m
<1> QED BY <1>1, <1>2, <1>3, <1>5, <1>7, <1>9, <1>10, <1>11 DEF NMInv

\* Every step keeps it.
LEMMA NextKeepsNM == NMInv /\ P!NM!Next => NMInv'
<1> SUFFICES ASSUME NMInv, P!NM!Next PROVE NMInv'
  OBVIOUS
<1> QED BY NMDispatchStep, NMDisposeStep, NMAnswerStep, CallFailsStep, DeviceChangeStep
        DEF P!NM!Next
=============================================================================
