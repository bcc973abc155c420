-------------------------- MODULE PlatformsProofs ---------------------------
(***************************************************************************)
(* The other platforms, and the context manager on whichever it was        *)
(* created for; for every number of links, addresses, services and         *)
(* interfaces.                                                             *)
(*                                                                         *)
(* Linux: the manager, once it has read all that the kernel told it, has   *)
(* announced exactly what the kernel has. What it knows lags behind the    *)
(* kernel by the messages in the socket. The invariant follows them: it    *)
(* says that reading them one by one (a Course) ends with what the kernel  *)
(* has. A step of the kernel prolongs the course, one of the manager takes *)
(* its first step.                                                         *)
(*                                                                         *)
(* ConnMan: whatever is still on the bus, a service that has a context is  *)
(* active; nothing waits for a service that was freed. Unix and Windows:   *)
(* what was announced is what the manager has.                             *)
(***************************************************************************)
EXTENDS NetworkManagerProofs

-----------------------------------------------------------------------------
(* Linux: what the manager knows, and how each message changes it.         *)

\* What the manager knows and has told
Knowledge == [interfaces : SUBSET Links, up : SUBSET Links, contexts : SUBSET Addresses,
              told : [Addresses -> Int]]

\* Announced are the contexts of links that are up ...
ToldOf(m) == [a \in Addresses |-> IF a \in m.contexts /\ LinkOf[a] \in m.up THEN 1 ELSE 0]

\* ... and a context has a link that is known and valid.
Coherent(m) ==
    /\ m \in Knowledge
    /\ m.up \subseteq m.interfaces
    /\ \A a \in m.contexts : a \notin Broken /\ LinkOf[a] \in m.interfaces \cap Valid
    /\ m.told = ToldOf(m)

\* No link is deleted that has a context.
Emptied(m, msg) ==
    msg.type = "RTM_DELLINK" => \A a \in m.contexts : LinkOf[a] # msg.link

\* The four kinds of message, and what each carries
LEMMA MessageKinds ==
  ASSUME NEW msg \in P!Linux!Messages
  PROVE  \/ /\ msg.type = "RTM_NEWLINK" /\ msg.link \in Links
            /\ msg.up \in BOOLEAN /\ msg.wireless \in BOOLEAN
         \/ msg.type = "RTM_DELLINK" /\ msg.link \in Links
         \/ /\ msg.type = "RTM_NEWADDR" /\ msg.address \in Addresses
            /\ msg.state \in {"tentative", "usable", "deprecated"}
         \/ msg.type = "RTM_DELADDR" /\ msg.address \in Addresses
BY DEF P!Linux!Messages, P!Linux!AddressStates

\* receive_netlink_message() takes each to its handler.
LEMMA ReceiveKinds ==
  ASSUME NEW m, NEW msg
  PROVE  /\ msg.type = "RTM_NEWLINK" =>
              P!Linux!Receive(m, msg) = IF msg.wireless THEN m ELSE P!Linux!NewLink(m, msg)
         /\ msg.type = "RTM_DELLINK" =>
              P!Linux!Receive(m, msg)
                = IF msg.link \in m.interfaces THEN P!Linux!Free(m, msg.link) ELSE m
         /\ msg.type = "RTM_NEWADDR" => P!Linux!Receive(m, msg) = P!Linux!NewAddress(m, msg)
         /\ msg.type = "RTM_DELADDR" => P!Linux!Receive(m, msg) = P!Linux!DelAddress(m, msg)
BY DEF P!Linux!Receive

\* The fields of what is known
LEMMA KnowledgeFields ==
  ASSUME NEW m \in Knowledge
  PROVE  /\ m.interfaces \in SUBSET Links /\ m.up \in SUBSET Links
         /\ m.contexts \in SUBSET Addresses /\ m.told \in [Addresses -> Int]
BY DEF Knowledge

\* Signals leave the counts numbers.
LEMMA SignalType ==
  ASSUME NEW t \in [Addresses -> Int], NEW X, NEW n \in Int
  PROVE  P!Linux!Signal(t, X, n) \in [Addresses -> Int]
BY DEF P!Linux!Signal

\* Knowledge with some of its fields replaced
LinksChanged(m, X, U, T) == [m EXCEPT !.interfaces = X, !.up = U, !.told = T]
AllChanged(m, X, U, Y, T) ==
    [m EXCEPT !.interfaces = X, !.up = U, !.contexts = Y, !.told = T]
ContextsChanged(m, Y, T) == [m EXCEPT !.contexts = Y, !.told = T]

\* What such a replacement leaves: links and counts,
LEMMA LinksChange ==
  ASSUME NEW m \in Knowledge, NEW X \in SUBSET Links, NEW U \in SUBSET Links,
         NEW T \in [Addresses -> Int]
  PROVE  LET r == LinksChanged(m, X, U, T)
         IN /\ r \in Knowledge /\ r.interfaces = X /\ r.up = U
            /\ r.contexts = m.contexts /\ r.told = T
BY Zenon DEF Knowledge, LinksChanged

\* ... everything,
LEMMA AllChange ==
  ASSUME NEW m \in Knowledge, NEW X \in SUBSET Links, NEW U \in SUBSET Links,
         NEW Y \in SUBSET Addresses, NEW T \in [Addresses -> Int]
  PROVE  LET r == AllChanged(m, X, U, Y, T)
         IN /\ r \in Knowledge /\ r.interfaces = X /\ r.up = U
            /\ r.contexts = Y /\ r.told = T
BY Zenon DEF Knowledge, AllChanged

\* ... contexts and counts.
LEMMA ContextsChange ==
  ASSUME NEW m \in Knowledge, NEW Y \in SUBSET Addresses, NEW T \in [Addresses -> Int]
  PROVE  LET r == ContextsChanged(m, Y, T)
         IN /\ r \in Knowledge /\ r.interfaces = m.interfaces /\ r.up = m.up
            /\ r.contexts = Y /\ r.told = T
BY Zenon DEF Knowledge, ContextsChanged

\* The links that are up after a message, and what contexts of its link count for
UpAfter(m, msg) == IF msg.up THEN m.up \cup {msg.link} ELSE m.up \ {msg.link}
Turn(m, msg) ==
    IF msg.link \in UpAfter(m, msg) \ m.up THEN 1
    ELSE IF msg.link \in m.up \ UpAfter(m, msg) THEN -1 ELSE 0
Lost(m, a) == IF LinkOf[a] \in m.up THEN -1 ELSE 0

\* network_device_new(), network_device_up() and network_device_down(), field by field
LEMMA NewLinkFields ==
  ASSUME NEW m \in Knowledge, NEW msg, msg.link \in Links, msg.up \in BOOLEAN
  PROVE  LET r == P!Linux!NewLink(m, msg)
             l == msg.link
         IN /\ r \in Knowledge /\ r.interfaces = m.interfaces \cup {l}
            /\ r.up = UpAfter(m, msg) /\ r.contexts = m.contexts
            /\ r.told = P!Linux!Signal(m.told, P!Linux!ContextsOf(m, l), Turn(m, msg))
<1> DEFINE l == msg.link
           on == UpAfter(m, msg)
           n == Turn(m, msg)
           X == m.interfaces \cup {l}
           T == P!Linux!Signal(m.told, P!Linux!ContextsOf(m, l), n)
<1>1. X \in SUBSET Links /\ on \in SUBSET Links /\ n \in Int
  BY KnowledgeFields DEF UpAfter, Turn
<1>2. T \in [Addresses -> Int]
  <2> HIDE DEF n
  <2> QED BY <1>1, KnowledgeFields, SignalType
<1>3. P!Linux!NewLink(m, msg) = LinksChanged(m, X, on, T)
  BY DEF P!Linux!NewLink, LinksChanged, UpAfter, Turn
<1>4. m.contexts \in SUBSET Addresses
  BY KnowledgeFields
<1> HIDE DEF X, on, n, T
<1>5. LET r == LinksChanged(m, X, on, T)
      IN /\ r \in Knowledge /\ r.interfaces = X /\ r.up = on
         /\ r.contexts = m.contexts /\ r.told = T
  BY <1>1, <1>2, <1>4, LinksChange
<1> QED BY <1>3, <1>5 DEF X, on, n, T

\* network_device_free(), field by field
LEMMA FreeFields ==
  ASSUME NEW m \in Knowledge, NEW l \in Links
  PROVE  LET r == P!Linux!Free(m, l)
         IN /\ r \in Knowledge /\ r.interfaces = m.interfaces \ {l} /\ r.up = m.up \ {l}
            /\ r.contexts = m.contexts \ P!Linux!ContextsOf(m, l)
            /\ r.told = P!Linux!Signal(m.told, P!Linux!ContextsOf(m, l), -1)
<1> DEFINE X == m.interfaces \ {l}
           U == m.up \ {l}
           Y == m.contexts \ P!Linux!ContextsOf(m, l)
           T == P!Linux!Signal(m.told, P!Linux!ContextsOf(m, l), -1)
<1>1. X \in SUBSET Links /\ U \in SUBSET Links /\ Y \in SUBSET Addresses
  BY KnowledgeFields
<1>2. T \in [Addresses -> Int]
  BY KnowledgeFields, SignalType
<1>3. P!Linux!Free(m, l) = AllChanged(m, X, U, Y, T)
  BY DEF P!Linux!Free, AllChanged
<1> HIDE DEF X, U, Y, T
<1>4. LET r == AllChanged(m, X, U, Y, T)
      IN /\ r \in Knowledge /\ r.interfaces = X /\ r.up = U
         /\ r.contexts = Y /\ r.told = T
  BY <1>1, <1>2, AllChange
<1> QED BY Zenon, <1>3, <1>4 DEF X, U, Y, T

\* create_context(), field by field
LEMMA NewAddressFields ==
  ASSUME NEW m \in Knowledge, NEW msg, msg.address \in Addresses
  PROVE  LET r == P!Linux!NewAddress(m, msg)
             a == msg.address
         IN IF \/ msg.state \in {"tentative", "deprecated"}
               \/ LinkOf[a] \notin m.interfaces \cap Valid
               \/ a \in m.contexts \cup Broken
            THEN r = m
            ELSE /\ r \in Knowledge /\ r.interfaces = m.interfaces /\ r.up = m.up
                 /\ r.contexts = m.contexts \cup {a}
                 /\ r.told = P!Linux!Signal(m.told, {a}, IF LinkOf[a] \in m.up THEN 1 ELSE 0)
<1> DEFINE a == msg.address
           Y == m.contexts \cup {a}
           n == IF LinkOf[a] \in m.up THEN 1 ELSE 0
           T == P!Linux!Signal(m.told, {a}, n)
           ignored == \/ msg.state \in {"tentative", "deprecated"}
                      \/ LinkOf[a] \notin m.interfaces \cap Valid
                      \/ a \in m.contexts \cup Broken
<1>1. Y \in SUBSET Addresses /\ n \in Int
  BY KnowledgeFields
<1>2. T \in [Addresses -> Int]
  <2> HIDE DEF n
  <2> QED BY <1>1, KnowledgeFields, SignalType
<1>3. P!Linux!NewAddress(m, msg) = IF ignored THEN m ELSE ContextsChanged(m, Y, T)
  BY DEF P!Linux!NewAddress, ContextsChanged
<1> HIDE DEF Y, n, T, ignored
<1>4. LET r == ContextsChanged(m, Y, T)
      IN /\ r \in Knowledge /\ r.interfaces = m.interfaces /\ r.up = m.up
         /\ r.contexts = Y /\ r.told = T
  BY <1>1, <1>2, KnowledgeFields, ContextsChange
<1> QED BY Zenon, <1>3, <1>4 DEF Y, n, T, ignored

\* remove_context(), field by field
LEMMA DelAddressFields ==
  ASSUME NEW m \in Knowledge, NEW msg, msg.address \in Addresses
  PROVE  LET r == P!Linux!DelAddress(m, msg)
             a == msg.address
         IN /\ r \in Knowledge /\ r.interfaces = m.interfaces /\ r.up = m.up
            /\ r.contexts = m.contexts \ {a}
            /\ r.told = P!Linux!Signal(m.told, {a} \cap m.contexts, Lost(m, a))
<1> DEFINE a == msg.address
           gone == {a} \cap m.contexts
           Y == m.contexts \ gone
           n == Lost(m, a)
           T == P!Linux!Signal(m.told, gone, n)
<1>1. Y \in SUBSET Addresses /\ n \in Int /\ Y = m.contexts \ {a}
  BY KnowledgeFields DEF Lost
<1>2. T \in [Addresses -> Int]
  <2> HIDE DEF n
  <2> QED BY <1>1, KnowledgeFields, SignalType
<1>3. P!Linux!DelAddress(m, msg) = ContextsChanged(m, Y, T)
  BY DEF P!Linux!DelAddress, ContextsChanged, Lost
<1> HIDE DEF Y, n, T
<1>4. LET r == ContextsChanged(m, Y, T)
      IN /\ r \in Knowledge /\ r.interfaces = m.interfaces /\ r.up = m.up
         /\ r.contexts = Y /\ r.told = T
  BY <1>1, <1>2, KnowledgeFields, ContextsChange
<1> QED BY Zenon, <1>1, <1>3, <1>4 DEF n, T

\* A signal counts for the contexts it is for, and for no others.
LEMMA SignalAt ==
  ASSUME NEW m \in Knowledge, NEW X, NEW n, NEW a \in Addresses
  PROVE  P!Linux!Signal(m.told, X, n)[a] = IF a \in X THEN m.told[a] + n ELSE m.told[a]
BY DEF P!Linux!Signal

\* What is told stays right, context by context.
LEMMA ToldRight ==
  ASSUME NEW m \in Knowledge, m.told = ToldOf(m), NEW r \in Knowledge,
         NEW X, NEW n, r.told = P!Linux!Signal(m.told, X, n),
         \A a \in Addresses :
            (IF a \in r.contexts /\ LinkOf[a] \in r.up THEN 1 ELSE 0)
              = (IF a \in m.contexts /\ LinkOf[a] \in m.up THEN 1 ELSE 0)
                  + (IF a \in X THEN n ELSE 0)
  PROVE  r.told = ToldOf(r)
<1>1. ASSUME NEW a \in Addresses
      PROVE  r.told[a] = IF a \in r.contexts /\ LinkOf[a] \in r.up THEN 1 ELSE 0
  <2>1. m.told[a] = IF a \in m.contexts /\ LinkOf[a] \in m.up THEN 1 ELSE 0
    BY DEF ToldOf
  <2>2. r.told[a] = IF a \in X THEN m.told[a] + n ELSE m.told[a]
    BY SignalAt
  <2> QED BY <2>1, <2>2
<1>2. r.told \in [Addresses -> Int]
  BY KnowledgeFields
<1> QED BY <1>1, <1>2 DEF ToldOf

\* Every handler leaves what is known coherent.
LEMMA ReceiveCoherent ==
  ASSUME NEW m, Coherent(m), NEW msg \in P!Linux!Messages, Emptied(m, msg)
  PROVE  Coherent(P!Linux!Receive(m, msg))
<1> DEFINE r == P!Linux!Receive(m, msg)
<1>1. /\ m \in Knowledge /\ m.up \subseteq m.interfaces /\ m.told = ToldOf(m)
      /\ \A a \in m.contexts : a \notin Broken /\ LinkOf[a] \in m.interfaces \cap Valid
      /\ m.interfaces \in SUBSET Links /\ m.contexts \in SUBSET Addresses
  BY KnowledgeFields DEF Coherent
<1>2. CASE msg.type = "RTM_NEWLINK"
  <2>1. msg.link \in Links /\ msg.up \in BOOLEAN /\ r = IF msg.wireless THEN m ELSE P!Linux!NewLink(m, msg)
    BY <1>2, MessageKinds, ReceiveKinds
  <2>2. CASE msg.wireless
    BY <2>1, <2>2
  <2>3. CASE ~msg.wireless
    <3> DEFINE l == msg.link
               on == UpAfter(m, msg)
               n == Turn(m, msg)
    <3>1. /\ r \in Knowledge /\ r.interfaces = m.interfaces \cup {l} /\ r.up = on
          /\ r.contexts = m.contexts
          /\ r.told = P!Linux!Signal(m.told, P!Linux!ContextsOf(m, l), n)
      BY <1>1, <2>1, <2>3, NewLinkFields
    <3>2. on = m.up \cup {l} \/ on = m.up \ {l}
      BY DEF UpAfter
    <3>3. r.told = ToldOf(r)
      <4>1. ASSUME NEW a \in Addresses
            PROVE (IF a \in r.contexts /\ LinkOf[a] \in r.up THEN 1 ELSE 0)
              = (IF a \in m.contexts /\ LinkOf[a] \in m.up THEN 1 ELSE 0)
                  + (IF a \in P!Linux!ContextsOf(m, l) THEN n ELSE 0)
        <5>1. a \in P!Linux!ContextsOf(m, l) <=> a \in m.contexts /\ LinkOf[a] = l
          BY DEF P!Linux!ContextsOf
        <5>2. \A k : k # l => (k \in on <=> k \in m.up)
          BY <3>2
        <5>3. n = (IF l \in on THEN 1 ELSE 0) - (IF l \in m.up THEN 1 ELSE 0)
          BY DEF Turn
        <5> HIDE DEF on, n, l, r
        <5>4. CASE LinkOf[a] = l
          BY <5>1, <5>3, <5>4, <3>1
        <5>5. CASE LinkOf[a] # l
          BY <5>1, <5>2, <5>5, <3>1
        <5> QED BY <5>4, <5>5
      <4> HIDE DEF n, r
      <4> QED BY <4>1, <1>1, <3>1, ToldRight
    <3> HIDE DEF r, n
    <3> QED BY <1>1, <3>1, <3>2, <3>3 DEF Coherent, r
  <2> QED BY <2>2, <2>3
<1>3. CASE msg.type = "RTM_DELLINK"
  <2>1. msg.link \in Links /\ r = IF msg.link \in m.interfaces THEN P!Linux!Free(m, msg.link) ELSE m
    BY <1>3, MessageKinds, ReceiveKinds
  <2>2. CASE msg.link \notin m.interfaces
    BY <2>1, <2>2
  <2>3. CASE msg.link \in m.interfaces
    <3> DEFINE l == msg.link
    <3>1. /\ r \in Knowledge /\ r.interfaces = m.interfaces \ {l} /\ r.up = m.up \ {l}
          /\ r.contexts = m.contexts \ P!Linux!ContextsOf(m, l)
          /\ r.told = P!Linux!Signal(m.told, P!Linux!ContextsOf(m, l), -1)
      BY <1>1, <2>1, <2>3, FreeFields
    <3>2. \A a \in m.contexts : LinkOf[a] # l
      BY <1>3 DEF Emptied
    <3>3. P!Linux!ContextsOf(m, l) = {}
      BY <3>2 DEF P!Linux!ContextsOf
    <3> HIDE DEF r, l
    <3>4. r.told = ToldOf(r)
      <4>1. \A a \in Addresses : (IF a \in r.contexts /\ LinkOf[a] \in r.up THEN 1 ELSE 0)
              = (IF a \in m.contexts /\ LinkOf[a] \in m.up THEN 1 ELSE 0)
                  + (IF a \in P!Linux!ContextsOf(m, l) THEN -1 ELSE 0)
        BY <3>1, <3>2, <3>3
      <4> QED BY <4>1, <1>1, <3>1, ToldRight
    <3> QED BY <1>1, <3>1, <3>2, <3>3, <3>4 DEF Coherent, r
  <2> QED BY <2>2, <2>3
<1>4. CASE msg.type = "RTM_NEWADDR"
  <2> DEFINE a == msg.address
             n == IF LinkOf[a] \in m.up THEN 1 ELSE 0
  <2>1. a \in Addresses /\ r = P!Linux!NewAddress(m, msg)
    BY <1>4, MessageKinds, ReceiveKinds
  <2>2. \/ r = m
        \/ /\ LinkOf[a] \in m.interfaces \cap Valid /\ a \notin m.contexts \cup Broken
           /\ r \in Knowledge /\ r.interfaces = m.interfaces /\ r.up = m.up
           /\ r.contexts = m.contexts \cup {a}
           /\ r.told = P!Linux!Signal(m.told, {a}, n)
    BY SMTT(30), <1>1, <2>1, NewAddressFields
  <2>3. CASE r # m
    <3> HIDE DEF r, a
    <3>1. r.told = ToldOf(r)
      <4>1. \A b \in Addresses : (IF b \in r.contexts /\ LinkOf[b] \in r.up THEN 1 ELSE 0)
              = (IF b \in m.contexts /\ LinkOf[b] \in m.up THEN 1 ELSE 0)
                  + (IF b \in {a} THEN n ELSE 0)
        BY <2>2, <2>3
      <4> HIDE DEF n
      <4> QED BY <4>1, <1>1, <2>2, <2>3, ToldRight
    <3> QED BY <1>1, <2>2, <2>3, <3>1 DEF Coherent, r
  <2> QED BY <2>3
<1>5. CASE msg.type = "RTM_DELADDR"
  <2> DEFINE a == msg.address
             gone == {a} \cap m.contexts
             n == Lost(m, a)
  <2>1. a \in Addresses /\ r = P!Linux!DelAddress(m, msg)
    BY <1>5, MessageKinds, ReceiveKinds
  <2>2. /\ r \in Knowledge /\ r.interfaces = m.interfaces /\ r.up = m.up
        /\ r.contexts = m.contexts \ {a} /\ r.told = P!Linux!Signal(m.told, gone, n)
    BY <1>1, <2>1, DelAddressFields
  <2>3. r.told = ToldOf(r)
    <3>0. \A b : b \in gone <=> b = a /\ a \in m.contexts
      OBVIOUS
    <3> HIDE DEF r, a, gone
    <3>1. \A b \in Addresses : (IF b \in r.contexts /\ LinkOf[b] \in r.up THEN 1 ELSE 0)
            = (IF b \in m.contexts /\ LinkOf[b] \in m.up THEN 1 ELSE 0)
                + (IF b \in gone THEN n ELSE 0)
      BY <2>2, <3>0 DEF Lost
    <3> HIDE DEF n
    <3> QED BY <3>1, <1>1, <2>2, ToldRight
  <2> HIDE DEF r, a, gone, n
  <2> QED BY <1>1, <2>2, <2>3 DEF Coherent, r
<1> QED BY <1>2, <1>3, <1>4, <1>5, MessageKinds

-----------------------------------------------------------------------------
\* What is known while the messages q are read, one after the other, starting from m:
\* it stays coherent, and no link is deleted that has a context.
Course(f, m, q) ==
    /\ f \in [0 .. Len(q) -> Knowledge] /\ f[0] = m
    /\ \A n \in 1 .. Len(q) : f[n] = P!Linux!Receive(f[n - 1], q[n]) /\ Emptied(f[n - 1], q[n])
    /\ \A n \in 0 .. Len(q) : Coherent(f[n])

\* Nothing is read.
LEMMA CourseOfNone ==
  ASSUME NEW m, Coherent(m)
  PROVE  Course([n \in 0 .. 0 |-> m], m, <<>>)
BY DEF Course, Coherent

\* One message is read.
LEMMA CourseOfOne ==
  ASSUME NEW m, Coherent(m), NEW msg \in P!Linux!Messages, Emptied(m, msg)
  PROVE  \E f : Course(f, m, <<msg>>) /\ f[1] = P!Linux!Receive(m, msg)
<1> DEFINE r == P!Linux!Receive(m, msg)
           f == [n \in 0 .. 1 |-> IF n = 0 THEN m ELSE r]
           q == <<msg>>
<1>1. Coherent(r) /\ r \in Knowledge /\ m \in Knowledge
  BY ReceiveCoherent DEF Coherent
<1>2. Len(q) = 1 /\ q[1] = msg
  OBVIOUS
<1>3. f[0] = m /\ f[1] = r /\ f \in [0 .. 1 -> Knowledge]
  BY <1>1
<1>4. \A n \in 1 .. 1 : n = 1 /\ n - 1 = 0
  OBVIOUS
<1>5. \A n \in 0 .. 1 : n = 0 \/ n = 1
  OBVIOUS
<1> HIDE DEF f, q
<1>6. \A n \in 1 .. Len(q) : f[n] = P!Linux!Receive(f[n - 1], q[n]) /\ Emptied(f[n - 1], q[n])
  BY <1>2, <1>3, <1>4
<1>7. \A n \in 0 .. Len(q) : Coherent(f[n])
  BY <1>1, <1>2, <1>3, <1>5
<1>8. Course(f, m, q) /\ f[1] = r
  BY <1>2, <1>3, <1>6, <1>7 DEF Course
<1> QED BY <1>8 DEF q

\* After the first message the course goes on with the rest.
LEMMA CourseTail ==
  ASSUME NEW q \in Seq(P!Linux!Messages), q # <<>>, NEW m, NEW f, Course(f, m, q)
  PROVE  \E g : /\ Course(g, P!Linux!Receive(m, Head(q)), Tail(q))
                /\ g[Len(Tail(q))] = f[Len(q)]
<1> DEFINE Q == Len(q)
           g == [n \in 0 .. Q - 1 |-> f[n + 1]]
           s == Tail(q)
<1>1. Q \in Nat /\ Q >= 1 /\ Len(s) = Q - 1 /\ \A n \in 1 .. Q - 1 : s[n] = q[n + 1]
  OBVIOUS
<1>2. Head(q) = q[1]
  OBVIOUS
<1>3. /\ f \in [0 .. Q -> Knowledge] /\ f[0] = m
      /\ \A n \in 1 .. Q : f[n] = P!Linux!Receive(f[n - 1], q[n]) /\ Emptied(f[n - 1], q[n])
      /\ \A n \in 0 .. Q : Coherent(f[n])
  BY DEF Course
<1> HIDE DEF Q, s
<1>4. g \in [0 .. Q - 1 -> Knowledge] /\ \A n \in 0 .. Q - 1 : g[n] = f[n + 1]
  BY <1>1, <1>3
<1> HIDE DEF g
<1>5. g[0] = P!Linux!Receive(m, Head(q))
  <2>1. 1 \in 1 .. Q /\ 1 - 1 = 0 /\ 0 \in 0 .. Q - 1 /\ 0 + 1 = 1
    BY <1>1
  <2> QED BY <2>1, <1>2, <1>3, <1>4
<1>6. ASSUME NEW n \in 1 .. Q - 1
      PROVE  g[n] = P!Linux!Receive(g[n - 1], s[n]) /\ Emptied(g[n - 1], s[n])
  <2>1. n + 1 \in 1 .. Q /\ (n + 1) - 1 = n /\ (n - 1) + 1 = n /\ n \in 0 .. Q - 1 /\ n - 1 \in 0 .. Q - 1
    BY <1>1
  <2>2. g[n] = f[n + 1] /\ g[n - 1] = f[n] /\ s[n] = q[n + 1]
    BY <2>1, <1>1, <1>4
  <2> QED BY <2>1, <2>2, <1>3
<1>7. ASSUME NEW n \in 0 .. Q - 1 PROVE Coherent(g[n])
  <2>1. n + 1 \in 0 .. Q
    BY <1>1
  <2> QED BY <2>1, <1>3, <1>4
<1>8. g[Q - 1] = f[Q]
  <2>1. Q - 1 \in 0 .. Q - 1 /\ (Q - 1) + 1 = Q
    BY <1>1
  <2> QED BY <2>1, <1>4
<1>9. Course(g, P!Linux!Receive(m, Head(q)), s)
  BY <1>1, <1>4, <1>5, <1>6, <1>7 DEF Course
<1> QED BY <1>1, <1>8, <1>9 DEF s, Q

\* One course after the other
LEMMA CourseJoin ==
  ASSUME NEW q \in Seq(P!Linux!Messages), NEW r \in Seq(P!Linux!Messages),
         NEW m, NEW f, NEW g, Course(f, m, q), Course(g, f[Len(q)], r)
  PROVE  \E h : Course(h, m, q \o r) /\ h[Len(q \o r)] = g[Len(r)]
<1> DEFINE Q == Len(q)
           M == Len(r)
           s == q \o r
           h == [n \in 0 .. Q + M |-> IF n <= Q THEN f[n] ELSE g[n - Q]]
<1>1. /\ Q \in Nat /\ M \in Nat /\ Len(s) = Q + M
      /\ \A n \in 1 .. Q + M : s[n] = IF n <= Q THEN q[n] ELSE r[n - Q]
  BY JoinFacts
<1>2. /\ f \in [0 .. Q -> Knowledge] /\ f[0] = m
      /\ \A n \in 1 .. Q : f[n] = P!Linux!Receive(f[n - 1], q[n]) /\ Emptied(f[n - 1], q[n])
      /\ \A n \in 0 .. Q : Coherent(f[n])
  BY DEF Course
<1>3. /\ g \in [0 .. M -> Knowledge] /\ g[0] = f[Q]
      /\ \A n \in 1 .. M : g[n] = P!Linux!Receive(g[n - 1], r[n]) /\ Emptied(g[n - 1], r[n])
      /\ \A n \in 0 .. M : Coherent(g[n])
  BY DEF Course
<1> HIDE DEF Q, M, s
<1>4. ASSUME NEW n \in 0 .. Q + M, ~(n <= Q)
      PROVE  n - Q \in 0 .. M /\ n - Q \in 1 .. M /\ n \in 1 .. Q + M /\ (n - Q) - 1 = (n - 1) - Q
  BY <1>1, <1>4
<1>5. h \in [0 .. Q + M -> Knowledge]
  <2>1. ASSUME NEW n \in 0 .. Q + M PROVE (IF n <= Q THEN f[n] ELSE g[n - Q]) \in Knowledge
    <3>1. CASE n <= Q
      <4>1. n \in 0 .. Q BY <3>1, <1>1
      <4> QED BY <3>1, <4>1, <1>2
    <3>2. CASE ~(n <= Q)
      BY <3>2, <1>3, <1>4
    <3> QED BY <3>1, <3>2
  <2> QED BY <2>1
<1>6. \A n \in 0 .. Q + M : h[n] = IF n <= Q THEN f[n] ELSE g[n - Q]
  OBVIOUS
<1> HIDE DEF h
<1>7. \A n \in 0 .. Q : n \in 0 .. Q + M /\ n <= Q /\ h[n] = f[n]
  BY <1>1, <1>6
<1>8. \A k \in 0 .. M : h[Q + k] = g[k]
  <2> SUFFICES ASSUME NEW k \in 0 .. M PROVE h[Q + k] = g[k]
    OBVIOUS
  <2>1. CASE k = 0
    BY <2>1, <1>1, <1>3, <1>7
  <2>2. CASE k # 0
    <3>1. Q + k \in 0 .. Q + M /\ ~(Q + k <= Q) /\ (Q + k) - Q = k
      BY <2>2, <1>1
    <3> QED BY <3>1, <1>6
  <2> QED BY <2>1, <2>2
<1>9. ASSUME NEW n \in 1 .. Q + M
      PROVE  h[n] = P!Linux!Receive(h[n - 1], s[n]) /\ Emptied(h[n - 1], s[n])
  <2>1. CASE n <= Q
    <3>1. n \in 1 .. Q /\ n \in 0 .. Q /\ n - 1 \in 0 .. Q /\ s[n] = q[n]
      BY <2>1, <1>1
    <3> QED BY <3>1, <1>2, <1>7
  <2>2. CASE ~(n <= Q)
    <3> DEFINE k == n - Q
    <3>1. k \in 1 .. M /\ k \in 0 .. M /\ k - 1 \in 0 .. M /\ Q + k = n /\ Q + (k - 1) = n - 1 /\ s[n] = r[k]
      BY <2>2, <1>1
    <3> HIDE DEF k
    <3>2. h[n] = g[k] /\ h[n - 1] = g[k - 1]
      BY <3>1, <1>8
    <3> QED BY <3>1, <3>2, <1>3
  <2> QED BY <2>1, <2>2
<1>10. ASSUME NEW n \in 0 .. Q + M PROVE Coherent(h[n])
  <2>1. CASE n <= Q
    <3>1. n \in 0 .. Q BY <2>1, <1>1
    <3> QED BY <3>1, <1>2, <1>7
  <2>2. CASE ~(n <= Q)
    BY <2>2, <1>3, <1>4, <1>6
  <2> QED BY <2>1, <2>2
<1>11. Course(h, m, s)
  <2>1. h[0] = m
    <3>1. 0 \in 0 .. Q BY <1>1
    <3> QED BY <3>1, <1>2, <1>7
  <2> QED BY <2>1, <1>1, <1>5, <1>9, <1>10 DEF Course
<1>12. h[Len(s)] = g[M]
  <2>1. M \in 0 .. M BY <1>1
  <2> QED BY <2>1, <1>1, <1>8
<1> QED BY <1>11, <1>12 DEF s, M

\* Messages can be read if none of them deletes a link.
LEMMA CourseExists ==
  ASSUME NEW m, Coherent(m), NEW q \in Seq(P!Linux!Messages),
         \A n \in 1 .. Len(q) : q[n].type # "RTM_DELLINK"
  PROVE  \E f : Course(f, m, q)
<1> DEFINE Q == Len(q)
           K == {k \in Knowledge : Coherent(k)}
           step == [p \in (1 .. Q) \X K |-> P!Linux!Receive(p[2], q[p[1]])]
<1>1. Q \in Nat /\ m \in K /\ \A n \in 1 .. Q : q[n] \in P!Linux!Messages
  BY DEF Coherent
<1>2. \A n \in 1 .. Q : \A k : Emptied(k, q[n])
  BY DEF Emptied
<1>3. ASSUME NEW n \in 1 .. Q, NEW k \in K PROVE P!Linux!Receive(k, q[n]) \in K
  <2>1. Coherent(P!Linux!Receive(k, q[n]))
    BY <1>1, <1>2, ReceiveCoherent
  <2> QED BY <2>1 DEF Coherent
<1>4. step \in [(1 .. Q) \X K -> K]
  <2> HIDE DEF K, Q
  <2> QED BY <1>3
<1>5. PICK f : Repeats(f, K, m, Q, step)
  <2> HIDE DEF K, Q, step
  <2> QED BY Zenon, <1>1, <1>4, Iteration
<1>6. f \in [0 .. Q -> K] /\ f[0] = m
  BY <1>5 DEF Repeats
<1>7. ASSUME NEW n \in 1 .. Q PROVE f[n] = P!Linux!Receive(f[n - 1], q[n])
  <2>1. f[n - 1] \in K
    <3> HIDE DEF K
    <3> QED BY <1>1, <1>6
  <2>2. f[n] = step[<<n, f[n - 1]>>]
    BY Zenon, <1>5 DEF Repeats
  <2> HIDE DEF K
  <2> QED BY <2>1, <2>2
<1>8. f \in [0 .. Q -> Knowledge] /\ \A n \in 0 .. Q : Coherent(f[n])
  BY <1>6
<1>9. Course(f, m, q)
  BY Zenon, <1>2, <1>6, <1>7, <1>8 DEF Course
<1> QED BY <1>9

\* A course ends where receive_netlink_message(), called for each message, ends.
LEMMA CourseIsReading ==
  ASSUME NEW m, NEW q \in Seq(P!Linux!Messages), NEW f, Course(f, m, q)
  PROVE  P!Linux!Reading(m, q) = f[Len(q)]
<1> DEFINE Q == Len(q)
           after[n \in 0 .. Q] == IF n = 0 THEN m ELSE P!Linux!Receive(after[n - 1], q[n])
<1>1. f = [n \in 0 .. Q |-> IF n = 0 THEN m ELSE P!Linux!Receive(f[n - 1], q[n])]
  <2>1. \A n \in 1 .. Q : f[n] = P!Linux!Receive(f[n - 1], q[n])
    BY DEF Course
  <2> QED BY <2>1 DEF Course
<1>2. after = [n \in 0 .. Q |-> IF n = 0 THEN m ELSE P!Linux!Receive(after[n - 1], q[n])]
  BY <1>1
<1>3. P!Linux!Reading(m, q) = after[Q]
  BY DEF P!Linux!Reading
<1> HIDE DEF after
<1>4. after[0] = m /\ \A n \in 1 .. Q : after[n] = P!Linux!Receive(after[n - 1], q[n])
  BY <1>2
<1> DEFINE Same == {n \in 0 .. Q : after[n] = f[n]}
<1>5. 0 \in Same
  BY <1>4 DEF Course
<1>6. ASSUME NEW n \in 1 .. Q, n - 1 \in Same PROVE n \in Same
  BY <1>4, <1>6 DEF Course
<1>7. \A n \in 0 .. Q : n \in Same
  <2>1. Q \in Nat OBVIOUS
  <2> HIDE DEF Same, Q
  <2> QED BY Zenon, <1>5, <1>6, <2>1, Induction
<1> QED BY <1>3, <1>7

-----------------------------------------------------------------------------
\* What a message does to the parts of what is known
LEMMA Effects ==
  ASSUME NEW m, Coherent(m), NEW msg \in P!Linux!Messages, Emptied(m, msg)
  PROVE  LET r == P!Linux!Receive(m, msg)
         IN /\ msg.type = "RTM_NEWLINK" /\ ~msg.wireless =>
                  /\ r.interfaces = m.interfaces \cup {msg.link} /\ r.up = UpAfter(m, msg)
                  /\ r.contexts = m.contexts
            /\ msg.type = "RTM_NEWLINK" /\ msg.wireless => r = m
            /\ msg.type = "RTM_DELLINK" =>
                  /\ r.interfaces = m.interfaces \ {msg.link} /\ r.up = m.up \ {msg.link}
                  /\ r.contexts = m.contexts
            /\ msg.type = "RTM_NEWADDR" =>
                  /\ r.interfaces = m.interfaces /\ r.up = m.up
                  /\ r.contexts =
                        IF /\ msg.state = "usable" /\ msg.address \notin Broken
                           /\ LinkOf[msg.address] \in m.interfaces \cap Valid
                        THEN m.contexts \cup {msg.address} ELSE m.contexts
            /\ msg.type = "RTM_DELADDR" =>
                  /\ r.interfaces = m.interfaces /\ r.up = m.up
                  /\ r.contexts = m.contexts \ {msg.address}
<1> DEFINE r == P!Linux!Receive(m, msg)
<1>1. /\ m \in Knowledge /\ m.up \subseteq m.interfaces
      /\ \A a \in m.contexts : a \notin Broken /\ LinkOf[a] \in m.interfaces \cap Valid
  BY DEF Coherent
<1>2. CASE msg.type = "RTM_NEWLINK"
  <2>1. msg.link \in Links /\ msg.up \in BOOLEAN /\ msg.wireless \in BOOLEAN
    BY <1>2, MessageKinds
  <2>2. r = IF msg.wireless THEN m ELSE P!Linux!NewLink(m, msg)
    BY <1>2, ReceiveKinds
  <2> HIDE DEF r
  <2> QED BY <1>1, <1>2, <2>1, <2>2, NewLinkFields DEF r
<1>3. CASE msg.type = "RTM_DELLINK"
  <2>1. msg.link \in Links
    BY <1>3, MessageKinds
  <2>2. r = IF msg.link \in m.interfaces THEN P!Linux!Free(m, msg.link) ELSE m
    BY <1>3, ReceiveKinds
  <2>3. P!Linux!ContextsOf(m, msg.link) = {}
    BY <1>3 DEF Emptied, P!Linux!ContextsOf
  <2> HIDE DEF r
  <2>4. CASE msg.link \in m.interfaces
    <3>1. /\ r.interfaces = m.interfaces \ {msg.link} /\ r.up = m.up \ {msg.link}
          /\ r.contexts = m.contexts \ P!Linux!ContextsOf(m, msg.link)
      BY <1>1, <2>1, <2>2, <2>4, FreeFields
    <3>2. r.contexts = m.contexts
      BY <3>1, <2>3
    <3> QED BY <1>3, <3>1, <3>2 DEF r
  <2>5. CASE msg.link \notin m.interfaces
    BY <1>1, <1>3, <2>2, <2>5 DEF r
  <2> QED BY <2>4, <2>5
<1>4. CASE msg.type = "RTM_NEWADDR"
  <2>1. msg.address \in Addresses /\ msg.state \in {"tentative", "usable", "deprecated"}
    BY <1>4, MessageKinds
  <2>2. r = P!Linux!NewAddress(m, msg)
    BY <1>4, ReceiveKinds
  <2> HIDE DEF r
  <2>3. CASE \/ msg.state \in {"tentative", "deprecated"}
             \/ LinkOf[msg.address] \notin m.interfaces \cap Valid
             \/ msg.address \in m.contexts \cup Broken
    <3>1. r = m
      BY Zenon, <1>1, <2>1, <2>2, <2>3, NewAddressFields
    <3> QED BY <3>1, <2>1, <2>3, <1>4 DEF r
  <2>4. CASE ~ ( \/ msg.state \in {"tentative", "deprecated"}
                 \/ LinkOf[msg.address] \notin m.interfaces \cap Valid
                 \/ msg.address \in m.contexts \cup Broken )
    <3>1. /\ r.interfaces = m.interfaces /\ r.up = m.up
          /\ r.contexts = m.contexts \cup {msg.address}
      BY Zenon, <1>1, <2>1, <2>2, <2>4, NewAddressFields
    <3> QED BY <3>1, <2>1, <2>4, <1>4 DEF r
  <2> QED BY <2>3, <2>4
<1>5. CASE msg.type = "RTM_DELADDR"
  <2>1. msg.address \in Addresses /\ r = P!Linux!DelAddress(m, msg)
    BY <1>5, MessageKinds, ReceiveKinds
  <2> HIDE DEF r
  <2>2. r.interfaces = m.interfaces /\ r.up = m.up /\ r.contexts = m.contexts \ {msg.address}
    BY Zenon, <1>1, <2>1, DelAddressFields
  <2> QED BY <1>5, <2>2 DEF r
<1> QED BY <1>2, <1>3, <1>4, <1>5, MessageKinds

\* A link that is there
LEMMA NewLinkEffect ==
  ASSUME NEW m, Coherent(m), NEW msg \in P!Linux!Messages,
         msg.type = "RTM_NEWLINK", ~msg.wireless
  PROVE  LET r == P!Linux!Receive(m, msg)
         IN /\ r.interfaces = m.interfaces \cup {msg.link} /\ r.up = UpAfter(m, msg)
            /\ r.contexts = m.contexts
<1>1. Emptied(m, msg)
  BY DEF Emptied
<1> QED BY Zenon, <1>1, Effects

\* An address that is gone
LEMMA DelAddressEffect ==
  ASSUME NEW m, Coherent(m), NEW msg \in P!Linux!Messages, msg.type = "RTM_DELADDR"
  PROVE  LET r == P!Linux!Receive(m, msg)
         IN /\ r.interfaces = m.interfaces /\ r.up = m.up
            /\ r.contexts = m.contexts \ {msg.address}
<1>1. Emptied(m, msg)
  BY DEF Emptied
<1> QED BY ZenonT(60), <1>1, Effects

\* A link that is gone
LEMMA DelLinkEffect ==
  ASSUME NEW m, Coherent(m), NEW msg \in P!Linux!Messages, msg.type = "RTM_DELLINK",
         Emptied(m, msg)
  PROVE  LET r == P!Linux!Receive(m, msg)
         IN /\ r.interfaces = m.interfaces \ {msg.link} /\ r.up = m.up \ {msg.link}
            /\ r.contexts = m.contexts
BY Zenon, Effects

\* ... along a course
LEMMA CourseStep ==
  ASSUME NEW q \in Seq(P!Linux!Messages), NEW f, NEW m, Course(f, m, q),
         NEW n \in 1 .. Len(q)
  PROVE  /\ n - 1 \in 0 .. Len(q) /\ n \in 0 .. Len(q) /\ q[n] \in P!Linux!Messages
         /\ f[n] = P!Linux!Receive(f[n - 1], q[n])
         /\ Emptied(f[n - 1], q[n]) /\ Coherent(f[n - 1])
<1>1. n - 1 \in 0 .. Len(q) /\ n \in 0 .. Len(q) /\ q[n] \in P!Linux!Messages
  OBVIOUS
<1> QED BY <1>1 DEF Course

\* After messages that say that links are there
LEMMA AfterNewLinks ==
  ASSUME NEW q \in Seq(P!Linux!Messages), NEW f, NEW m, Course(f, m, q), NEW link,
         \A n \in 1 .. Len(q) : /\ q[n].type = "RTM_NEWLINK" /\ ~q[n].wireless
                                /\ q[n].up = (link[q[n].link] = "up"),
         \A l \in m.interfaces : l \in m.up <=> link[l] = "up"
  PROVE  LET r == f[Len(q)]
         IN /\ r.contexts = m.contexts
            /\ \A l \in r.interfaces : /\ l \in r.up <=> link[l] = "up"
                                       /\ l \in m.interfaces \/ \E i \in 1 .. Len(q) : l = q[i].link
            /\ m.interfaces \subseteq r.interfaces
            /\ \A i \in 1 .. Len(q) : q[i].link \in r.interfaces
<1> DEFINE Q == Len(q)
           Good(n) ==
              /\ f[n].contexts = m.contexts
              /\ \A l \in f[n].interfaces : /\ l \in f[n].up <=> link[l] = "up"
                                            /\ l \in m.interfaces \/ \E i \in 1 .. Q : l = q[i].link
              /\ m.interfaces \subseteq f[n].interfaces
              /\ \A i \in 1 .. n : q[i].link \in f[n].interfaces
           T == {n \in 0 .. Q : Good(n)}
<1>1. 0 \in T
  BY DEF Course
<1>2. ASSUME NEW n \in 1 .. Q, n - 1 \in T PROVE n \in T
  <2>1. Good(n - 1) BY <1>2
  <2> DEFINE x == f[n - 1]
             y == f[n]
             l == q[n].link
  <2>2. y.contexts = x.contexts /\ y.interfaces = x.interfaces \cup {l} /\ y.up = UpAfter(x, q[n])
    <3>1. /\ y = P!Linux!Receive(x, q[n]) /\ q[n] \in P!Linux!Messages
          /\ Emptied(x, q[n]) /\ Coherent(x)
      BY CourseStep
    <3> DEFINE msg == q[n]
    <3>2. msg.type = "RTM_NEWLINK" /\ ~msg.wireless
      OBVIOUS
    <3> HIDE DEF x, y, Good, T, Q, msg
    <3>3. y = P!Linux!Receive(x, msg)
      BY <3>1 DEF msg
    <3>4. msg \in P!Linux!Messages /\ Emptied(x, msg) /\ Coherent(x)
      BY <3>1 DEF msg
    <3>5. y.contexts = x.contexts /\ y.interfaces = x.interfaces \cup {msg.link} /\ y.up = UpAfter(x, msg)
      BY <3>2, <3>3, <3>4, NewLinkEffect
    <3> QED BY <3>5 DEF msg
  <2>3. y.up = IF link[l] = "up" THEN x.up \cup {l} ELSE x.up \ {l}
    BY Zenon, <2>2 DEF UpAfter
  <2>4. \A i \in 1 .. n : i \in 1 .. n - 1 \/ i = n
    OBVIOUS
  <2>5. \A i \in 1 .. n : q[i].link \in y.interfaces
    BY <2>1, <2>2, <2>4
  <2>6. /\ x.contexts = m.contexts
        /\ \A k \in x.interfaces : /\ k \in x.up <=> link[k] = "up"
                                   /\ k \in m.interfaces \/ \E i \in 1 .. Q : k = q[i].link
        /\ m.interfaces \subseteq x.interfaces
    BY <2>1
  <2>7. \E i \in 1 .. Q : l = q[i].link
    OBVIOUS
  <2> HIDE DEF x, Q, l
  <2>8. ASSUME NEW k \in y.interfaces
        PROVE  /\ k \in y.up <=> link[k] = "up"
               /\ k \in m.interfaces \/ \E i \in 1 .. Q : k = q[i].link
    <3>1. CASE k = l
      BY <3>1, <2>3, <2>7
    <3>2. CASE k # l
      BY <3>2, <2>2, <2>3, <2>6
    <3> QED BY <3>1, <3>2
  <2>9. m.interfaces \subseteq y.interfaces /\ y.contexts = m.contexts
    BY <2>2, <2>6
  <2> QED BY <2>5, <2>8, <2>9 DEF Q
<1>3. Q \in 0 .. Q /\ Q \in Nat
  OBVIOUS
<1>4. Q \in T
  <2> HIDE DEF T, Q
  <2> QED BY Zenon, <1>1, <1>2, <1>3, Induction
<1> QED BY <1>4

\* After messages that say that addresses are there
LEMMA AfterNewAddresses ==
  ASSUME NEW q \in Seq(P!Linux!Messages), NEW f, NEW m, Course(f, m, q), NEW address,
         \A n \in 1 .. Len(q) : /\ q[n].type = "RTM_NEWADDR"
                                /\ q[n].state = address[q[n].address]
  PROVE  LET r == f[Len(q)]
         IN /\ r.interfaces = m.interfaces /\ r.up = m.up /\ m.contexts \subseteq r.contexts
            /\ \A a \in r.contexts : a \in m.contexts \/ address[a] = "usable"
            /\ \A i \in 1 .. Len(q) :
                  LET a == q[i].address
                  IN address[a] = "usable" /\ a \notin Broken /\ LinkOf[a] \in m.interfaces \cap Valid
                        => a \in r.contexts
<1> DEFINE Q == Len(q)
           Good(n) ==
            /\ f[n].interfaces = m.interfaces /\ f[n].up = m.up /\ m.contexts \subseteq f[n].contexts
            /\ \A a \in f[n].contexts : a \in m.contexts \/ address[a] = "usable"
            /\ \A i \in 1 .. n :
                  LET a == q[i].address
                  IN address[a] = "usable" /\ a \notin Broken /\ LinkOf[a] \in m.interfaces \cap Valid
                        => a \in f[n].contexts
           T == {n \in 0 .. Q : Good(n)}
<1>1. 0 \in T
  BY DEF Course
<1>2. ASSUME NEW n \in 1 .. Q, n - 1 \in T PROVE n \in T
  <2>1. Good(n - 1) BY <1>2
  <2> DEFINE x == f[n - 1]
             y == f[n]
             b == q[n].address
  <2>2. /\ y.interfaces = x.interfaces /\ y.up = x.up
        /\ y.contexts = IF /\ q[n].state = "usable" /\ b \notin Broken
                           /\ LinkOf[b] \in x.interfaces \cap Valid
                        THEN x.contexts \cup {b} ELSE x.contexts
    <3>1. /\ y = P!Linux!Receive(x, q[n]) /\ q[n] \in P!Linux!Messages
          /\ Emptied(x, q[n]) /\ Coherent(x)
      BY CourseStep
    <3>2. q[n].type = "RTM_NEWADDR"
      OBVIOUS
    <3> HIDE DEF x, y, Good, T, Q
    <3> QED BY Zenon, <3>1, <3>2, Effects
  <2>3. q[n].state = address[b]
    OBVIOUS
  <2>4. \A i \in 1 .. n : i \in 1 .. n - 1 \/ i = n
    OBVIOUS
  <2>5. Good(n)
    BY <2>1, <2>2, <2>3, <2>4
  <2> QED BY <2>5
<1>3. Q \in 0 .. Q /\ Q \in Nat
  OBVIOUS
<1>4. Q \in T
  <2> HIDE DEF T, Q
  <2> QED BY <1>1, <1>2, <1>3, Induction
<1> QED BY <1>4

\* After messages that say that addresses are gone
LEMMA AfterDelAddresses ==
  ASSUME NEW q \in Seq(P!Linux!Messages), NEW f, NEW m, Course(f, m, q),
         \A n \in 1 .. Len(q) : q[n].type = "RTM_DELADDR"
  PROVE  LET r == f[Len(q)]
         IN /\ r.interfaces = m.interfaces /\ r.up = m.up
            /\ \A a : a \in r.contexts <=> /\ a \in m.contexts
                                           /\ \A i \in 1 .. Len(q) : q[i].address # a
<1> DEFINE Q == Len(q)
           Good(n) ==
            /\ f[n].interfaces = m.interfaces /\ f[n].up = m.up
            /\ \A a : a \in f[n].contexts <=> /\ a \in m.contexts
                                              /\ \A i \in 1 .. n : q[i].address # a
           T == {n \in 0 .. Q : Good(n)}
<1>1. 0 \in T
  BY DEF Course
<1>2. ASSUME NEW n \in 1 .. Q, n - 1 \in T PROVE n \in T
  <2>1. Good(n - 1) BY <1>2
  <2> DEFINE x == f[n - 1]
             y == f[n]
             b == q[n].address
  <2>2. y.interfaces = x.interfaces /\ y.up = x.up /\ y.contexts = x.contexts \ {b}
    <3>1. /\ y = P!Linux!Receive(x, q[n]) /\ q[n] \in P!Linux!Messages
          /\ Emptied(x, q[n]) /\ Coherent(x)
      BY CourseStep
    <3>2. q[n].type = "RTM_DELADDR"
      OBVIOUS
    <3> HIDE DEF x, y, Good, T, Q
    <3> QED BY ZenonT(60), <3>1, <3>2, Effects
  <2>3. \A i : i \in 1 .. n <=> i \in 1 .. n - 1 \/ i = n
    OBVIOUS
  <2>5. Good(n)
    BY <2>1, <2>2, <2>3
  <2> QED BY <2>5
<1>3. Q \in 0 .. Q /\ Q \in Nat
  OBVIOUS
<1>4. Q \in T
  <2> HIDE DEF T, Q
  <2> QED BY Zenon, <1>1, <1>2, <1>3, Induction
<1> QED BY <1>4

\* What is known is what the kernel has
Current(m, link, address, seq) ==
    /\ \A l \in m.interfaces : link[l] # "none" /\ (l \in m.up <=> link[l] = "up")
    /\ \A a \in m.contexts : address[a] \in {"usable", "deprecated"}
    /\ seq >= 1 => \A l \in Links : link[l] # "none" => l \in m.interfaces
    /\ seq = 2 => \A a \in Addresses \ Broken :
                     address[a] = "usable" /\ LinkOf[a] \in Valid => a \in m.contexts

\* ... and what the kernel has
Kernel(link, address) ==
    /\ link \in [Links -> {"none", "down", "up"}]
    /\ address \in [Addresses -> {"none", "tentative", "usable", "deprecated"}]
    /\ \A a \in Addresses : address[a] # "none" => link[LinkOf[a]] # "none"

\* A course that ends with what the kernel has, for what is known and not yet read
UpToDate(m, q, link, address, seq) ==
    \E f : Course(f, m, q) /\ Current(f[Len(q)], link, address, seq)

\* More messages, and what they come to
LEMMA ReportKeeps ==
  ASSUME NEW q \in Seq(P!Linux!Messages), NEW r \in Seq(P!Linux!Messages), NEW m,
         NEW f, Course(f, m, q), NEW g, Course(g, f[Len(q)], r),
         NEW link, NEW address, NEW seq, Current(g[Len(r)], link, address, seq)
  PROVE  UpToDate(m, q \o r, link, address, seq)
<1>1. \E h : Course(h, m, q \o r) /\ h[Len(q \o r)] = g[Len(r)]
  BY CourseJoin
<1> QED BY <1>1 DEF UpToDate

\* One message
LEMMA ReportOne ==
  ASSUME NEW q \in Seq(P!Linux!Messages), NEW m, NEW f, Course(f, m, q),
         NEW msg \in P!Linux!Messages, Emptied(f[Len(q)], msg),
         NEW link, NEW address, NEW seq,
         Current(P!Linux!Receive(f[Len(q)], msg), link, address, seq)
  PROVE  UpToDate(m, q \o <<msg>>, link, address, seq)
<1>1. Coherent(f[Len(q)])
  <2>1. Len(q) \in 0 .. Len(q) OBVIOUS
  <2> QED BY <2>1 DEF Course
<1> DEFINE x == f[Len(q)]
           r == <<msg>>
<1>2. PICK g : Course(g, x, r) /\ g[1] = P!Linux!Receive(x, msg)
  <2> HIDE DEF x
  <2> QED BY <1>1, CourseOfOne DEF x
<1>3. r \in Seq(P!Linux!Messages) /\ Len(r) = 1
  OBVIOUS
<1> HIDE DEF r
<1>4. UpToDate(m, q \o r, link, address, seq)
  BY Zenon, <1>2, <1>3, ReportKeeps
<1> QED BY <1>4 DEF r

\* The message that is read next leaves the course behind it.
LEMMA ReadKeeps ==
  ASSUME NEW q \in Seq(P!Linux!Messages), q # <<>>, NEW m, NEW link, NEW address, NEW seq,
         UpToDate(m, q, link, address, seq)
  PROVE  /\ UpToDate(P!Linux!Receive(m, Head(q)), Tail(q), link, address, seq)
         /\ P!Linux!Receive(m, Head(q)) \in Knowledge
<1>1. PICK f : Course(f, m, q) /\ Current(f[Len(q)], link, address, seq)
  BY DEF UpToDate
<1>2. PICK g : /\ Course(g, P!Linux!Receive(m, Head(q)), Tail(q))
               /\ g[Len(Tail(q))] = f[Len(q)]
  BY <1>1, CourseTail
<1>3. UpToDate(P!Linux!Receive(m, Head(q)), Tail(q), link, address, seq)
  BY <1>1, <1>2 DEF UpToDate
<1>4. P!Linux!Receive(m, Head(q)) \in Knowledge
  <2>1. 0 \in 0 .. Len(Tail(q)) OBVIOUS
  <2> QED BY <1>2, <2>1 DEF Course
<1> QED BY <1>3, <1>4

-----------------------------------------------------------------------------
(* The kernel's steps, for what it comes to.                               *)

\* The end of a course
LEMMA CourseEnd ==
  ASSUME NEW q \in Seq(P!Linux!Messages), NEW m, NEW f, Course(f, m, q)
  PROVE  Coherent(f[Len(q)])
<1>1. Len(q) \in 0 .. Len(q) OBVIOUS
<1> QED BY <1>1 DEF Course

\* A link appears, goes up or goes down.
LEMMA LinkChangeKeeps ==
  ASSUME NEW q \in Seq(P!Linux!Messages), NEW m, NEW link, NEW address, NEW seq \in 0 .. 2,
         UpToDate(m, q, link, address, seq), Kernel(link, address),
         NEW l \in Links, NEW phase \in {"down", "up"},
         <<link[l], phase>> \in {<<"none", "down">>, <<"down", "up">>, <<"up", "down">>}
  PROVE  LET msg == P!Linux!LinkMessage(l, phase = "up", FALSE)
             now == [link EXCEPT ![l] = phase]
         IN /\ q \o <<msg>> \in Seq(P!Linux!Messages)
            /\ UpToDate(m, q \o <<msg>>, now, address, seq)
            /\ Kernel(now, address)
<1> DEFINE msg == P!Linux!LinkMessage(l, phase = "up", FALSE)
           now == [link EXCEPT ![l] = phase]
<1>1. PICK f : Course(f, m, q) /\ Current(f[Len(q)], link, address, seq)
  BY DEF UpToDate
<1> DEFINE x == f[Len(q)]
           r == P!Linux!Receive(x, msg)
<1>2. /\ msg \in P!Linux!Messages /\ msg.type = "RTM_NEWLINK" /\ ~msg.wireless
      /\ msg.link = l /\ msg.up = (phase = "up")
  BY DEF P!Linux!LinkMessage, P!Linux!Messages
<1>3. Coherent(x)
  BY <1>1, CourseEnd
<1>4. Current(x, link, address, seq)
  BY <1>1
<1> HIDE DEF msg, x
<1>5. r.interfaces = x.interfaces \cup {l} /\ r.up = UpAfter(x, msg) /\ r.contexts = x.contexts
  BY <1>2, <1>3, NewLinkEffect
<1>6. \A k \in Links : now[k] = IF k = l THEN phase ELSE link[k]
  BY DEF Kernel
<1>7. now \in [Links -> {"none", "down", "up"}]
  BY DEF Kernel
<1>8. r.up = IF phase = "up" THEN x.up \cup {l} ELSE x.up \ {l}
  BY Zenon, <1>2, <1>5 DEF UpAfter
<1>9. x.interfaces \subseteq Links
  BY <1>3, KnowledgeFields DEF Coherent
<1> HIDE DEF now, r
<1>10. Current(r, now, address, seq)
  BY <1>4, <1>5, <1>6, <1>8, <1>9 DEF Current
<1>11. Emptied(x, msg)
  BY <1>2 DEF Emptied
<1>12. UpToDate(m, q \o <<msg>>, now, address, seq)
  <2>1. Course(f, m, q) BY <1>1
  <2>2. Emptied(f[Len(q)], msg) BY <1>11 DEF x
  <2>3. Current(P!Linux!Receive(f[Len(q)], msg), now, address, seq) BY <1>10 DEF r, x
  <2> QED BY <1>2, <2>1, <2>2, <2>3, ReportOne
<1>13. Kernel(now, address)
  BY Zenon, <1>6, <1>7, PartsAssumption DEF Kernel
<1>14. q \o <<msg>> \in Seq(P!Linux!Messages)
  BY <1>2
<1> QED BY Zenon, <1>12, <1>13, <1>14 DEF msg, now

\* A wireless status message says nothing.
LEMMA WirelessStatusKeeps ==
  ASSUME NEW q \in Seq(P!Linux!Messages), NEW m, NEW link, NEW address, NEW seq \in 0 .. 2,
         UpToDate(m, q, link, address, seq), NEW l \in Links
  PROVE  LET msg == P!Linux!LinkMessage(l, FALSE, TRUE)
         IN /\ q \o <<msg>> \in Seq(P!Linux!Messages)
            /\ UpToDate(m, q \o <<msg>>, link, address, seq)
<1> DEFINE msg == P!Linux!LinkMessage(l, FALSE, TRUE)
<1>1. PICK f : Course(f, m, q) /\ Current(f[Len(q)], link, address, seq)
  BY DEF UpToDate
<1>2. msg \in P!Linux!Messages /\ msg.type = "RTM_NEWLINK" /\ msg.wireless
  BY DEF P!Linux!LinkMessage, P!Linux!Messages
<1> HIDE DEF msg
<1>3. Emptied(f[Len(q)], msg)
  BY <1>2 DEF Emptied
<1>4. P!Linux!Receive(f[Len(q)], msg) = f[Len(q)]
  BY <1>2, ReceiveKinds
<1>5. Current(P!Linux!Receive(f[Len(q)], msg), link, address, seq)
  BY <1>1, <1>4
<1>6. UpToDate(m, q \o <<msg>>, link, address, seq)
  BY <1>1, <1>2, <1>3, <1>5, ReportOne
<1>7. q \o <<msg>> \in Seq(P!Linux!Messages)
  BY <1>2
<1> QED BY Zenon, <1>6, <1>7 DEF msg

\* An address appears, or changes its flags.
LEMMA AddressChangeKeeps ==
  ASSUME NEW q \in Seq(P!Linux!Messages), NEW m, NEW link, NEW address, NEW seq \in 0 .. 2,
         UpToDate(m, q, link, address, seq), Kernel(link, address),
         NEW a \in Addresses, NEW phase, link[LinkOf[a]] # "none",
         <<address[a], phase>> \in
            {<<"none", "tentative">>, <<"none", "usable">>, <<"tentative", "usable">>,
             <<"usable", "usable">>, <<"usable", "deprecated">>}
  PROVE  LET msg == [type |-> "RTM_NEWADDR", address |-> a, state |-> phase]
             now == [address EXCEPT ![a] = phase]
         IN /\ q \o <<msg>> \in Seq(P!Linux!Messages)
            /\ UpToDate(m, q \o <<msg>>, link, now, seq)
            /\ Kernel(link, now)
<1> DEFINE msg == [type |-> "RTM_NEWADDR", address |-> a, state |-> phase]
           now == [address EXCEPT ![a] = phase]
<1>1. PICK f : Course(f, m, q) /\ Current(f[Len(q)], link, address, seq)
  BY DEF UpToDate
<1> DEFINE x == f[Len(q)]
           r == P!Linux!Receive(x, msg)
<1>2. /\ msg \in P!Linux!Messages /\ msg.type = "RTM_NEWADDR"
      /\ msg.address = a /\ msg.state = phase
  BY DEF P!Linux!Messages, P!Linux!AddressStates
<1>3. Coherent(x)
  BY <1>1, CourseEnd
<1>4. Current(x, link, address, seq)
  BY <1>1
<1>5. Emptied(x, msg)
  BY <1>2 DEF Emptied
<1> HIDE DEF msg, x
<1>6. /\ r.interfaces = x.interfaces /\ r.up = x.up
      /\ r.contexts =
            IF /\ phase = "usable" /\ a \notin Broken /\ LinkOf[a] \in x.interfaces \cap Valid
            THEN x.contexts \cup {a} ELSE x.contexts
  BY ZenonT(60), <1>2, <1>3, <1>5, Effects
<1>7. \A b \in Addresses : now[b] = IF b = a THEN phase ELSE address[b]
  BY DEF Kernel
<1>8. now \in [Addresses -> {"none", "tentative", "usable", "deprecated"}]
  BY DEF Kernel
<1>9. x.interfaces \subseteq Links /\ x.contexts \subseteq Addresses
  BY <1>3, KnowledgeFields DEF Coherent
<1>10. LinkOf[a] \in Links
  BY PartsAssumption
<1>11. Current(r, link, now, seq)
  <2> HIDE DEF now, r
  <2>1. \A b \in r.contexts : now[b] \in {"usable", "deprecated"}
    BY <1>4, <1>6, <1>7, <1>9 DEF Current
  <2>2. seq = 2 => \A b \in Addresses \ Broken :
                     now[b] = "usable" /\ LinkOf[b] \in Valid => b \in r.contexts
    <3> SUFFICES ASSUME seq = 2, NEW b \in Addresses \ Broken, now[b] = "usable", LinkOf[b] \in Valid
                 PROVE b \in r.contexts
      OBVIOUS
    <3>1. CASE b # a
      BY <3>1, <1>4, <1>6, <1>7 DEF Current
    <3>2. CASE b = a
      <4>1. LinkOf[a] \in x.interfaces
        BY <1>4, <1>10 DEF Current
      <4> QED BY <3>2, <4>1, <1>6, <1>7
    <3> QED BY <3>1, <3>2
  <2>3. /\ \A l \in r.interfaces : link[l] # "none" /\ (l \in r.up <=> link[l] = "up")
        /\ seq >= 1 => \A l \in Links : link[l] # "none" => l \in r.interfaces
    BY <1>4, <1>6 DEF Current
  <2> QED BY <2>1, <2>2, <2>3 DEF Current
<1> HIDE DEF now, r
<1>12. UpToDate(m, q \o <<msg>>, link, now, seq)
  <2>1. Course(f, m, q) BY <1>1
  <2>2. Emptied(f[Len(q)], msg) BY <1>5 DEF x
  <2>3. Current(P!Linux!Receive(f[Len(q)], msg), link, now, seq) BY <1>11 DEF r, x
  <2> QED BY <1>2, <2>1, <2>2, <2>3, ReportOne
<1>13. Kernel(link, now)
  BY <1>7, <1>8 DEF Kernel
<1>14. q \o <<msg>> \in Seq(P!Linux!Messages)
  BY <1>2
<1> QED BY <1>12, <1>13, <1>14 DEF msg, now

\* An address is deleted.
LEMMA AddressDeleteKeeps ==
  ASSUME NEW q \in Seq(P!Linux!Messages), NEW m, NEW link, NEW address, NEW seq \in 0 .. 2,
         UpToDate(m, q, link, address, seq), Kernel(link, address),
         NEW a \in Addresses
  PROVE  LET msg == [type |-> "RTM_DELADDR", address |-> a]
             now == [address EXCEPT ![a] = "none"]
         IN /\ q \o <<msg>> \in Seq(P!Linux!Messages)
            /\ UpToDate(m, q \o <<msg>>, link, now, seq)
            /\ Kernel(link, now)
<1> DEFINE msg == [type |-> "RTM_DELADDR", address |-> a]
           now == [address EXCEPT ![a] = "none"]
<1>1. PICK f : Course(f, m, q) /\ Current(f[Len(q)], link, address, seq)
  BY DEF UpToDate
<1> DEFINE x == f[Len(q)]
           r == P!Linux!Receive(x, msg)
<1>2. msg \in P!Linux!Messages /\ msg.type = "RTM_DELADDR" /\ msg.address = a
  BY DEF P!Linux!Messages
<1>3. Coherent(x)
  BY <1>1, CourseEnd
<1>4. Current(x, link, address, seq)
  BY <1>1
<1>5. Emptied(x, msg)
  BY <1>2 DEF Emptied
<1> HIDE DEF msg, x
<1>6. r.interfaces = x.interfaces /\ r.up = x.up /\ r.contexts = x.contexts \ {a}
  BY <1>2, <1>3, DelAddressEffect
<1>7. \A b \in Addresses : now[b] = IF b = a THEN "none" ELSE address[b]
  BY DEF Kernel
<1>8. now \in [Addresses -> {"none", "tentative", "usable", "deprecated"}]
  BY DEF Kernel
<1>9. x.interfaces \subseteq Links /\ x.contexts \subseteq Addresses
  BY <1>3, KnowledgeFields DEF Coherent
<1> HIDE DEF now, r
<1>11. Current(r, link, now, seq)
  BY <1>4, <1>6, <1>7, <1>9 DEF Current
<1>12. UpToDate(m, q \o <<msg>>, link, now, seq)
  <2>1. Course(f, m, q) BY <1>1
  <2>2. Emptied(f[Len(q)], msg) BY <1>5 DEF x
  <2>3. Current(P!Linux!Receive(f[Len(q)], msg), link, now, seq) BY <1>11 DEF r, x
  <2> QED BY <1>2, <2>1, <2>2, <2>3, ReportOne
<1>13. Kernel(link, now)
  BY <1>7, <1>8 DEF Kernel
<1>14. q \o <<msg>> \in Seq(P!Linux!Messages)
  BY <1>2
<1> QED BY <1>12, <1>13, <1>14 DEF msg, now

\* What the kernel says when a link is deleted
LostOf(address, l) == {a \in Addresses : LinkOf[a] = l /\ address[a] # "none"}
DownOf(link, l) ==
    IF link[l] = "up" THEN <<P!Linux!LinkMessage(l, FALSE, FALSE)>> ELSE <<>>
Withdrawals(X) == {[type |-> "RTM_DELADDR", address |-> a] : a \in X}
Farewell(link, address, l) ==
    DownOf(link, l) \o P!Linux!SetToSeq(Withdrawals(LostOf(address, l)))
        \o <<[type |-> "RTM_DELLINK", link |-> l]>>

\* ... and what is left
LinksWithout(link, l) == [link EXCEPT ![l] = "none"]
AddressesWithout(address, l) ==
    [a \in Addresses |-> IF a \in LostOf(address, l) THEN "none" ELSE address[a]]

\* A link that goes down, if it was up
LEMMA DownCourse ==
  ASSUME NEW x, Coherent(x), NEW link, NEW l \in Links
  PROVE  /\ DownOf(link, l) \in Seq(P!Linux!Messages)
         /\ \E f : /\ Course(f, x, DownOf(link, l))
                   /\ LET y == f[Len(DownOf(link, l))]
                      IN /\ y.contexts = x.contexts
                         /\ y.interfaces \ {l} = x.interfaces \ {l} /\ y.up \ {l} = x.up \ {l}
<1> DEFINE msg == P!Linux!LinkMessage(l, FALSE, FALSE)
<1>1. CASE link[l] = "up"
  <2>1. /\ msg \in P!Linux!Messages /\ msg.type = "RTM_NEWLINK" /\ ~msg.wireless
        /\ msg.link = l /\ msg.up = FALSE
    BY DEF P!Linux!LinkMessage, P!Linux!Messages
  <2>2. DownOf(link, l) = <<msg>>
    BY <1>1 DEF DownOf
  <2> HIDE DEF msg
  <2>3. Emptied(x, msg)
    BY <2>1 DEF Emptied
  <2>4. PICK f : Course(f, x, <<msg>>) /\ f[1] = P!Linux!Receive(x, msg)
    BY <2>1, <2>3, CourseOfOne
  <2> DEFINE y == f[1]
  <2>5. y.contexts = x.contexts /\ y.interfaces = x.interfaces \cup {l} /\ y.up = UpAfter(x, msg)
    BY <2>1, <2>4, NewLinkEffect
  <2>6. y.up = x.up \ {l}
    BY <2>1, <2>5 DEF UpAfter
  <2> HIDE DEF y
  <2>7. y.interfaces \ {l} = x.interfaces \ {l} /\ y.up \ {l} = x.up \ {l}
    BY <2>5, <2>6
  <2>8. Len(<<msg>>) = 1 /\ <<msg>> \in Seq(P!Linux!Messages)
    BY <2>1
  <2> QED BY <2>2, <2>4, <2>5, <2>7, <2>8 DEF y
<1>2. CASE link[l] # "up"
  <2>1. DownOf(link, l) = <<>>
    BY <1>2 DEF DownOf
  <2> DEFINE f == [n \in 0 .. 0 |-> x]
  <2>2. Course(f, x, <<>>) /\ f[0] = x
    BY CourseOfNone
  <2>3. Len(<<>>) = 0 /\ <<>> \in Seq(P!Linux!Messages)
    OBVIOUS
  <2> HIDE DEF f
  <2> QED BY <2>1, <2>2, <2>3
<1> QED BY <1>1, <1>2

\* ... and its addresses
LEMMA WithdrawalFacts ==
  ASSUME NEW X \in SUBSET Addresses
  PROVE  LET s == P!Linux!SetToSeq(Withdrawals(X))
         IN /\ s \in Seq(P!Linux!Messages)
            /\ \A i \in 1 .. Len(s) : s[i].type = "RTM_DELADDR" /\ s[i].address \in X
            /\ \A a \in X : \E i \in 1 .. Len(s) : s[i].address = a
<1> DEFINE V == Withdrawals(X)
           s == P!Linux!SetToSeq(V)
<1>1. IsFiniteSet(V)
  <2>1. IsFiniteSet(X)
    BY PartsAssumption, FS_Subset
  <2> DEFINE f == [a \in X |-> [type |-> "RTM_DELADDR", address |-> a]]
  <2>2. f \in Surjection(X, V)
    BY DEF Surjection, Withdrawals
  <2> HIDE DEF f, V
  <2> QED BY <2>1, <2>2, FS_Surjection
<1>2. V \subseteq P!Linux!Messages
  BY DEF Withdrawals, P!Linux!Messages
<1>3. \A w \in V : w.type = "RTM_DELADDR" /\ w.address \in X
  BY DEF Withdrawals
<1>4. \A a \in X : \E w \in V : w.address = a
  <2> SUFFICES ASSUME NEW a \in X PROVE \E w \in V : w.address = a
    OBVIOUS
  <2> DEFINE w == [type |-> "RTM_DELADDR", address |-> a]
  <2>1. w \in V /\ w.address = a
    BY DEF Withdrawals
  <2> QED BY <2>1
<1> HIDE DEF V
<1>5. s \in Seq(V) /\ Members(s) = V
  BY <1>1, OrderFacts
<1> HIDE DEF s
<1>6. s \in Seq(P!Linux!Messages)
  BY <1>2, <1>5
<1>7. \A i \in 1 .. Len(s) : s[i] \in V
  BY <1>5
<1>8. \A w \in V : \E i \in 1 .. Len(s) : s[i] = w
  BY <1>5 DEF Members
<1> QED BY <1>3, <1>4, <1>6, <1>7, <1>8 DEF s, V

\* A link is deleted: by the time the manager reads so, it has no context on it.
LEMMA LinkDeleteKeeps ==
  ASSUME NEW q \in Seq(P!Linux!Messages), NEW m, NEW link, NEW address, NEW seq \in 0 .. 2,
         UpToDate(m, q, link, address, seq), Kernel(link, address), NEW l \in Links
  PROVE  /\ q \o Farewell(link, address, l) \in Seq(P!Linux!Messages)
         /\ UpToDate(m, q \o Farewell(link, address, l), LinksWithout(link, l),
                     AddressesWithout(address, l), seq)
         /\ Kernel(LinksWithout(link, l), AddressesWithout(address, l))
<1> DEFINE lost == LostOf(address, l)
           down == DownOf(link, l)
           dels == P!Linux!SetToSeq(Withdrawals(lost))
           msg == [type |-> "RTM_DELLINK", link |-> l]
           last == <<msg>>
           links == [link EXCEPT ![l] = "none"]
           addresses == [a \in Addresses |-> IF a \in lost THEN "none" ELSE address[a]]
<1>1. PICK f : Course(f, m, q) /\ Current(f[Len(q)], link, address, seq)
  BY DEF UpToDate
<1> DEFINE x == f[Len(q)]
<1>2. Coherent(x) /\ Current(x, link, address, seq)
  BY <1>1, CourseEnd
<1>3. \A a : a \in lost <=> a \in Addresses /\ LinkOf[a] = l /\ address[a] # "none"
  BY DEF LostOf
<1>4. down \in Seq(P!Linux!Messages)
  <2> HIDE DEF x
  <2> QED BY <1>2, DownCourse
<1>5. PICK d : /\ Course(d, x, down)
               /\ d[Len(down)].contexts = x.contexts
               /\ d[Len(down)].interfaces \ {l} = x.interfaces \ {l}
               /\ d[Len(down)].up \ {l} = x.up \ {l}
  <2> HIDE DEF x
  <2> QED BY <1>2, DownCourse
<1> HIDE DEF down
<1> DEFINE y == d[Len(down)]
<1>6. Coherent(y)
  BY <1>4, <1>5, CourseEnd
<1>7. /\ dels \in Seq(P!Linux!Messages)
      /\ \A i \in 1 .. Len(dels) : dels[i].type = "RTM_DELADDR" /\ dels[i].address \in lost
      /\ \A a \in lost : \E i \in 1 .. Len(dels) : dels[i].address = a
  <2>1. lost \in SUBSET Addresses BY <1>3
  <2> HIDE DEF lost
  <2> QED BY <2>1, WithdrawalFacts
<1> HIDE DEF dels, lost
<1>8. PICK e : Course(e, y, dels)
  <2>1. \A i \in 1 .. Len(dels) : dels[i].type # "RTM_DELLINK"
    BY <1>7
  <2> HIDE DEF y
  <2> QED BY <1>6, <1>7, <2>1, CourseExists
<1> DEFINE z == e[Len(dels)]
<1>9. Coherent(z)
  BY <1>7, <1>8, CourseEnd
<1>10. /\ z.interfaces = y.interfaces /\ z.up = y.up
       /\ \A a : a \in z.contexts <=> a \in y.contexts /\ a \notin lost
  <2>1. /\ z.interfaces = y.interfaces /\ z.up = y.up
        /\ \A a : a \in z.contexts <=> /\ a \in y.contexts
                                       /\ \A i \in 1 .. Len(dels) : dels[i].address # a
    <3>1. \A i \in 1 .. Len(dels) : dels[i].type = "RTM_DELADDR"
      BY <1>7
    <3> HIDE DEF y
    <3> QED BY <1>7, <1>8, <3>1, AfterDelAddresses
  <2> HIDE DEF y, z
  <2> QED BY <2>1, <1>7
<1>11. y.contexts = x.contexts /\ y.interfaces \ {l} = x.interfaces \ {l} /\ y.up \ {l} = x.up \ {l}
  BY <1>5
<1> HIDE DEF x, y, z
<1>12. x.contexts \subseteq Addresses /\ x.interfaces \subseteq Links
  BY <1>2, KnowledgeFields DEF Coherent
<1>13. \A a \in z.contexts : LinkOf[a] # l
  BY <1>2, <1>3, <1>10, <1>11, <1>12 DEF Current
<1>14. msg \in P!Linux!Messages /\ msg.type = "RTM_DELLINK" /\ msg.link = l
  BY DEF P!Linux!Messages
<1> HIDE DEF msg
<1>15. Emptied(z, msg)
  BY <1>13, <1>14 DEF Emptied
<1>16. PICK g : Course(g, z, last) /\ g[1] = P!Linux!Receive(z, msg)
  BY <1>9, <1>14, <1>15, CourseOfOne
<1> DEFINE w == g[1]
<1>17. w.interfaces = z.interfaces \ {l} /\ w.up = z.up \ {l} /\ w.contexts = z.contexts
  BY <1>9, <1>14, <1>15, <1>16, DelLinkEffect
<1>18. last \in Seq(P!Linux!Messages) /\ Len(last) = 1
  BY <1>14
<1> HIDE DEF w, last
<1>19. w.interfaces = x.interfaces \ {l} /\ w.up = x.up \ {l}
  BY <1>10, <1>11, <1>17
<1>20. \A k \in Links : links[k] = IF k = l THEN "none" ELSE link[k]
  BY DEF Kernel
<1>21. links \in [Links -> {"none", "down", "up"}]
  BY DEF Kernel
<1>22. \A a \in Addresses : addresses[a] = IF a \in lost THEN "none" ELSE address[a]
  OBVIOUS
<1>23. addresses \in [Addresses -> {"none", "tentative", "usable", "deprecated"}]
  BY DEF Kernel
<1> HIDE DEF links, addresses
<1>24. Current(w, links, addresses, seq)
  <2>1. \A k \in w.interfaces : links[k] # "none" /\ (k \in w.up <=> links[k] = "up")
    BY <1>2, <1>12, <1>19, <1>20 DEF Current
  <2>2. \A a \in w.contexts : addresses[a] \in {"usable", "deprecated"}
    BY <1>2, <1>10, <1>11, <1>12, <1>17, <1>22 DEF Current
  <2>3. seq >= 1 => \A k \in Links : links[k] # "none" => k \in w.interfaces
    BY <1>2, <1>19, <1>20 DEF Current
  <2>4. seq = 2 => \A a \in Addresses \ Broken :
                     addresses[a] = "usable" /\ LinkOf[a] \in Valid => a \in w.contexts
    BY <1>2, <1>10, <1>11, <1>17, <1>22 DEF Current
  <2> QED BY <2>1, <2>2, <2>3, <2>4 DEF Current
<1>25. Kernel(links, addresses)
  BY SMTT(30), <1>3, <1>20, <1>21, <1>22, <1>23, PartsAssumption DEF Kernel
<1>26. PICK h : Course(h, x, down \o dels) /\ h[Len(down \o dels)] = z
  <2>1. Course(e, d[Len(down)], dels)
    BY <1>8 DEF y
  <2> QED BY <1>4, <1>5, <1>7, <2>1, CourseJoin DEF z
<1>27. down \o dels \in Seq(P!Linux!Messages)
  BY <1>4, <1>7, JoinFacts
<1>28. PICK k : /\ Course(k, x, (down \o dels) \o last)
                /\ k[Len((down \o dels) \o last)] = w
  <2> DEFINE both == down \o dels
  <2>0. both \in Seq(P!Linux!Messages) /\ Course(h, x, both) /\ h[Len(both)] = z
    BY <1>26, <1>27
  <2> HIDE DEF both
  <2>1. Course(g, h[Len(both)], last)
    BY <1>16, <2>0
  <2>2. g[Len(last)] = w
    BY <1>18 DEF w
  <2>3. Course(h, x, both) /\ last \in Seq(P!Linux!Messages)
    BY <1>18, <2>0
  <2>4. \E k : Course(k, x, both \o last) /\ k[Len(both \o last)] = g[Len(last)]
    BY <2>0, <2>1, <2>3, CourseJoin
  <2> QED BY <2>2, <2>4 DEF both
<1>29. (down \o dels) \o last \in Seq(P!Linux!Messages)
  BY <1>18, <1>27, JoinFacts
<1> DEFINE msgs == (down \o dels) \o last
<1>30. UpToDate(m, q \o msgs, links, addresses, seq)
  <2>1. Course(f, m, q)
    BY <1>1
  <2>2. Course(k, f[Len(q)], msgs)
    BY <1>28 DEF x
  <2>3. Current(k[Len(msgs)], links, addresses, seq)
    BY <1>24, <1>28
  <2>4. msgs \in Seq(P!Linux!Messages)
    BY <1>29
  <2> HIDE DEF msgs
  <2> QED BY <2>1, <2>2, <2>3, <2>4, ReportKeeps
<1>31. q \o msgs \in Seq(P!Linux!Messages)
  <2>1. msgs \in Seq(P!Linux!Messages)
    BY <1>29
  <2> HIDE DEF msgs
  <2> QED BY <2>1, JoinFacts
<1>32. /\ msgs = Farewell(link, address, l) /\ links = LinksWithout(link, l)
       /\ addresses = AddressesWithout(address, l)
  BY DEF lost, down, dels, msg, last, links, addresses, Farewell, LinksWithout, AddressesWithout
<1> HIDE DEF msgs, links, addresses
<1> QED BY <1>25, <1>30, <1>31, <1>32

-----------------------------------------------------------------------------
(* The manager's steps.                                                    *)

\* The dumps, for what the kernel has
LinkDumpOf(link) ==
    LET links == P!Linux!SetToSeq({l \in Links : link[l] # "none"}) IN
    [i \in DOMAIN links |-> [type |-> "RTM_NEWLINK", link |-> links[i],
                             up |-> link[links[i]] = "up", wireless |-> FALSE]]
AddressDumpOf(address) ==
    LET present == P!Linux!SetToSeq({a \in Addresses : address[a] # "none"}) IN
    [i \in DOMAIN present |-> [type |-> "RTM_NEWADDR", address |-> present[i],
                               state |-> address[present[i]]]]

\* A dump has each link that is there.
LEMMA LinkDumpFacts ==
  ASSUME NEW link, NEW address, Kernel(link, address)
  PROVE  LET d == LinkDumpOf(link)
         IN /\ d \in Seq(P!Linux!Messages)
            /\ \A i \in 1 .. Len(d) :
                  /\ d[i].type = "RTM_NEWLINK" /\ ~d[i].wireless
                  /\ d[i].up = (link[d[i].link] = "up")
                  /\ d[i].link \in Links /\ link[d[i].link] # "none"
            /\ \A l \in Links : link[l] # "none" => \E i \in 1 .. Len(d) : d[i].link = l
<1> DEFINE X == {l \in Links : link[l] # "none"}
           s == P!Linux!SetToSeq(X)
           d == LinkDumpOf(link)
<1>1. IsFiniteSet(X)
  <2>1. X \subseteq Links OBVIOUS
  <2> HIDE DEF X
  <2> QED BY <2>1, PartsAssumption, FS_Subset
<1>2. s \in Seq(X) /\ Members(s) = X
  <2> HIDE DEF X
  <2> QED BY <1>1, OrderFacts
<1>3. d = [i \in DOMAIN s |-> [type |-> "RTM_NEWLINK", link |-> s[i],
                               up |-> link[s[i]] = "up", wireless |-> FALSE]]
  BY DEF LinkDumpOf
<1>4. \A l : l \in X <=> l \in Links /\ link[l] # "none"
  OBVIOUS
<1> HIDE DEF s, d, X
<1>5. Len(s) \in Nat /\ DOMAIN s = 1 .. Len(s) /\ \A i \in 1 .. Len(s) : s[i] \in X
  BY <1>2
<1>6. \A i \in 1 .. Len(s) : d[i] \in P!Linux!Messages
  BY <1>3, <1>4, <1>5 DEF P!Linux!Messages
<1>7. DOMAIN d = 1 .. Len(s)
  BY <1>3, <1>5
<1>8. d \in [1 .. Len(s) -> P!Linux!Messages]
  <2>1. d = [i \in 1 .. Len(s) |-> d[i]]
    BY <1>3, <1>7
  <2> QED BY <2>1, <1>6
<1>9. d \in Seq(P!Linux!Messages) /\ Len(d) = Len(s)
  BY <1>5, <1>8
<1>10. \A i \in 1 .. Len(d) :
          /\ d[i].type = "RTM_NEWLINK" /\ ~d[i].wireless
          /\ d[i].up = (link[d[i].link] = "up")
          /\ d[i].link = s[i]
  BY <1>3, <1>5, <1>9
<1>11. \A l \in X : \E i \in 1 .. Len(s) : s[i] = l
  BY <1>2 DEF Members
<1> QED BY SMTT(30), <1>4, <1>5, <1>9, <1>10, <1>11 DEF d

\* A dump has each address that is there.
LEMMA AddressDumpFacts ==
  ASSUME NEW link, NEW address, Kernel(link, address)
  PROVE  LET d == AddressDumpOf(address)
         IN /\ d \in Seq(P!Linux!Messages)
            /\ \A i \in 1 .. Len(d) :
                  /\ d[i].type = "RTM_NEWADDR" /\ d[i].state = address[d[i].address]
            /\ \A a \in Addresses : address[a] # "none" => \E i \in 1 .. Len(d) : d[i].address = a
<1> DEFINE X == {a \in Addresses : address[a] # "none"}
           s == P!Linux!SetToSeq(X)
           d == AddressDumpOf(address)
<1>1. IsFiniteSet(X)
  <2>1. X \subseteq Addresses OBVIOUS
  <2> HIDE DEF X
  <2> QED BY <2>1, PartsAssumption, FS_Subset
<1>2. s \in Seq(X) /\ Members(s) = X
  <2> HIDE DEF X
  <2> QED BY <1>1, OrderFacts
<1>3. d = [i \in DOMAIN s |-> [type |-> "RTM_NEWADDR", address |-> s[i],
                               state |-> address[s[i]]]]
  BY DEF AddressDumpOf
<1>4. \A a : a \in X <=> a \in Addresses /\ address[a] # "none"
  OBVIOUS
<1> HIDE DEF s, d, X
<1>5. Len(s) \in Nat /\ DOMAIN s = 1 .. Len(s) /\ \A i \in 1 .. Len(s) : s[i] \in X
  BY <1>2
<1>6. \A i \in 1 .. Len(s) : d[i] \in P!Linux!Messages
  BY <1>3, <1>4, <1>5 DEF P!Linux!Messages, P!Linux!AddressStates, Kernel
<1>7. DOMAIN d = 1 .. Len(s)
  BY <1>3, <1>5
<1>8. d \in [1 .. Len(s) -> P!Linux!Messages]
  <2>1. d = [i \in 1 .. Len(s) |-> d[i]]
    BY <1>3, <1>7
  <2> QED BY <2>1, <1>6
<1>9. d \in Seq(P!Linux!Messages) /\ Len(d) = Len(s)
  BY <1>5, <1>8
<1>10. \A i \in 1 .. Len(d) :
          /\ d[i].type = "RTM_NEWADDR" /\ d[i].state = address[d[i].address]
          /\ d[i].address = s[i]
  BY <1>3, <1>5, <1>9
<1>11. \A a \in X : \E i \in 1 .. Len(s) : s[i] = a
  BY <1>2 DEF Members
<1> QED BY <1>4, <1>5, <1>9, <1>10, <1>11 DEF d

\* The links are asked for, and everything in the socket is read.
LEMMA QueryLinksKeeps ==
  ASSUME NEW q \in Seq(P!Linux!Messages), NEW m, NEW link, NEW address,
         UpToDate(m, q, link, address, 0), Kernel(link, address)
  PROVE  LET r == P!Linux!Reading(m, q \o LinkDumpOf(link))
         IN r \in Knowledge /\ UpToDate(r, <<>>, link, address, 1)
<1> DEFINE d == LinkDumpOf(link)
           r == P!Linux!Reading(m, q \o d)
<1>1. PICK f : Course(f, m, q) /\ Current(f[Len(q)], link, address, 0)
  BY DEF UpToDate
<1> DEFINE x == f[Len(q)]
<1>2. Coherent(x) /\ Current(x, link, address, 0)
  BY <1>1, CourseEnd
<1>3. /\ d \in Seq(P!Linux!Messages)
      /\ \A i \in 1 .. Len(d) :
            /\ d[i].type = "RTM_NEWLINK" /\ ~d[i].wireless
            /\ d[i].up = (link[d[i].link] = "up")
            /\ d[i].link \in Links /\ link[d[i].link] # "none"
      /\ \A l \in Links : link[l] # "none" => \E i \in 1 .. Len(d) : d[i].link = l
  BY LinkDumpFacts
<1> HIDE DEF d
<1>4. PICK g : Course(g, x, d)
  <2>1. \A i \in 1 .. Len(d) : d[i].type # "RTM_DELLINK"
    BY <1>3
  <2> HIDE DEF x
  <2> QED BY <1>2, <1>3, <2>1, CourseExists
<1> DEFINE y == g[Len(d)]
<1>5. Coherent(y)
  BY <1>3, <1>4, CourseEnd
<1>6. /\ y.contexts = x.contexts
      /\ \A l \in y.interfaces : /\ l \in y.up <=> link[l] = "up"
                                 /\ l \in x.interfaces \/ \E i \in 1 .. Len(d) : l = d[i].link
      /\ \A i \in 1 .. Len(d) : d[i].link \in y.interfaces
  <2>1. \A l \in x.interfaces : l \in x.up <=> link[l] = "up"
    BY <1>2 DEF Current
  <2>2. \A i \in 1 .. Len(d) : /\ d[i].type = "RTM_NEWLINK" /\ ~d[i].wireless
                               /\ d[i].up = (link[d[i].link] = "up")
    BY <1>3
  <2> HIDE DEF x
  <2> QED BY <1>3, <1>4, <2>1, <2>2, AfterNewLinks
<1>7. PICK h : Course(h, m, q \o d) /\ h[Len(q \o d)] = y
  BY <1>1, <1>3, <1>4, CourseJoin
<1>8. q \o d \in Seq(P!Linux!Messages)
  BY <1>3, JoinFacts
<1>9. r = y
  BY Zenon, <1>7, <1>8, CourseIsReading
<1> HIDE DEF x, y, r
<1>10. Current(y, link, address, 1)
  <2>1. \A l \in y.interfaces : link[l] # "none" /\ (l \in y.up <=> link[l] = "up")
    BY <1>2, <1>3, <1>6 DEF Current
  <2>2. \A a \in y.contexts : address[a] \in {"usable", "deprecated"}
    BY <1>2, <1>6 DEF Current
  <2>3. \A l \in Links : link[l] # "none" => l \in y.interfaces
    BY <1>3, <1>6
  <2> QED BY <2>1, <2>2, <2>3 DEF Current
<1> DEFINE e == [n \in 0 .. 0 |-> y]
<1>11. Course(e, y, <<>>) /\ e[Len(<<>>)] = y
  BY <1>5, CourseOfNone
<1> HIDE DEF e
<1>12. UpToDate(y, <<>>, link, address, 1)
  BY <1>10, <1>11 DEF UpToDate
<1> QED BY <1>5, <1>9, <1>12 DEF Coherent, r, d

\* The addresses are asked for.
LEMMA QueryAddressesKeeps ==
  ASSUME NEW q \in Seq(P!Linux!Messages), NEW m, NEW link, NEW address,
         UpToDate(m, q, link, address, 1), Kernel(link, address)
  PROVE  LET d == AddressDumpOf(address)
         IN q \o d \in Seq(P!Linux!Messages) /\ UpToDate(m, q \o d, link, address, 2)
<1> DEFINE d == AddressDumpOf(address)
<1>1. PICK f : Course(f, m, q) /\ Current(f[Len(q)], link, address, 1)
  BY DEF UpToDate
<1> DEFINE x == f[Len(q)]
<1>2. Coherent(x) /\ Current(x, link, address, 1)
  BY <1>1, CourseEnd
<1>3. /\ d \in Seq(P!Linux!Messages)
      /\ \A i \in 1 .. Len(d) : d[i].type = "RTM_NEWADDR" /\ d[i].state = address[d[i].address]
      /\ \A a \in Addresses : address[a] # "none" => \E i \in 1 .. Len(d) : d[i].address = a
  BY AddressDumpFacts
<1> HIDE DEF d
<1>4. PICK g : Course(g, x, d)
  <2>1. \A i \in 1 .. Len(d) : d[i].type # "RTM_DELLINK"
    BY <1>3
  <2> HIDE DEF x
  <2> QED BY <1>2, <1>3, <2>1, CourseExists
<1> DEFINE y == g[Len(d)]
<1>6. /\ y.interfaces = x.interfaces /\ y.up = x.up /\ x.contexts \subseteq y.contexts
      /\ \A a \in y.contexts : a \in x.contexts \/ address[a] = "usable"
      /\ \A i \in 1 .. Len(d) :
            LET a == d[i].address
            IN address[a] = "usable" /\ a \notin Broken /\ LinkOf[a] \in x.interfaces \cap Valid
                  => a \in y.contexts
  <2> HIDE DEF x
  <2> QED BY <1>3, <1>4, AfterNewAddresses
<1> HIDE DEF x, y
<1>7. Current(y, link, address, 2)
  <2>1. \A a \in Addresses \ Broken :
            address[a] = "usable" /\ LinkOf[a] \in Valid => a \in y.contexts
    <3> SUFFICES ASSUME NEW a \in Addresses \ Broken, address[a] = "usable", LinkOf[a] \in Valid
                 PROVE  a \in y.contexts
      OBVIOUS
    <3>1. LinkOf[a] \in x.interfaces
      BY <1>2, PartsAssumption DEF Kernel, Current
    <3>2. PICK i \in 1 .. Len(d) : d[i].address = a
      BY <1>3
    <3> QED BY <3>1, <3>2, <1>6
  <2>2. \A a \in y.contexts : address[a] \in {"usable", "deprecated"}
    BY <1>2, <1>6 DEF Current
  <2> QED BY <2>1, <2>2, <1>2, <1>6 DEF Current
<1>8. UpToDate(m, q \o d, link, address, 2)
  <2>1. Course(g, f[Len(q)], d) /\ Current(g[Len(d)], link, address, 2)
    BY <1>4, <1>7 DEF x, y
  <2> QED BY <1>1, <1>3, <2>1, ReportKeeps
<1>9. q \o d \in Seq(P!Linux!Messages)
  BY <1>3, JoinFacts
<1> QED BY <1>8, <1>9 DEF d

\* While the manager lets go of its links: a context has a link, and what has no
\* context is not announced any more
Leaving(m) ==
    /\ m \in Knowledge
    /\ m.up \subseteq m.interfaces
    /\ \A a \in m.contexts : LinkOf[a] \in m.interfaces /\ m.told[a] <= 1
    /\ \A a \in Addresses \ m.contexts : m.told[a] <= 0

\* ... which network_device_free() keeps.
LEMMA FreeLeaves ==
  ASSUME NEW m, Leaving(m), NEW l \in Links
  PROVE  Leaving(P!Linux!Free(m, l)) /\ P!Linux!Free(m, l).interfaces = m.interfaces \ {l}
<1> DEFINE r == P!Linux!Free(m, l)
           Y == P!Linux!ContextsOf(m, l)
<1>1. m \in Knowledge /\ m.told \in [Addresses -> Int] /\ m.contexts \subseteq Addresses
  BY KnowledgeFields DEF Leaving
<1>2. /\ r \in Knowledge /\ r.interfaces = m.interfaces \ {l} /\ r.up = m.up \ {l}
      /\ r.contexts = m.contexts \ Y /\ r.told = P!Linux!Signal(m.told, Y, -1)
  BY <1>1, FreeFields
<1>3. \A a : a \in Y <=> a \in m.contexts /\ LinkOf[a] = l
  BY DEF P!Linux!ContextsOf
<1> HIDE DEF r, Y
<1>4. \A a \in Addresses : r.told[a] = IF a \in Y THEN m.told[a] + (-1) ELSE m.told[a]
  BY <1>2 DEF P!Linux!Signal
<1>5. \A a \in Addresses : m.told[a] \in Int
  BY <1>1
<1>6. \A a \in r.contexts : LinkOf[a] \in r.interfaces /\ r.told[a] <= 1
  BY <1>1, <1>2, <1>3, <1>4 DEF Leaving
<1>7. ASSUME NEW a \in Addresses \ r.contexts PROVE r.told[a] <= 0
  <2>1. CASE a \in Y
    <3>1. m.told[a] <= 1 /\ m.told[a] \in Int /\ r.told[a] = m.told[a] + (-1)
      BY <2>1, <1>3, <1>4, <1>5 DEF Leaving
    <3> QED BY <3>1
  <2>2. CASE a \notin Y
    BY <2>2, <1>2, <1>4 DEF Leaving
  <2> QED BY <2>1, <2>2
<1>8. r.up \subseteq r.interfaces
  BY <1>2 DEF Leaving
<1> QED BY <1>2, <1>6, <1>7, <1>8 DEF Leaving, r

\* When all the links are freed, nothing is announced.
LEMMA FreedFacts ==
  ASSUME NEW m, Coherent(m), NEW s \in Seq(Links), Members(s) = m.interfaces
  PROVE  LET r == P!Linux!Freed(m, s)
         IN /\ r \in Knowledge /\ r.interfaces = {} /\ r.up = {} /\ r.contexts = {}
            /\ \A a \in Addresses : r.told[a] <= 0
<1> DEFINE Q == Len(s)
           K == {x \in Knowledge : Leaving(x)}
           step == [p \in (1 .. Q) \X K |-> P!Linux!Free(p[2], s[p[1]])]
           after[n \in 0 .. Q] == IF n = 0 THEN m ELSE P!Linux!Free(after[n - 1], s[n])
<1>1. Q \in Nat /\ \A n \in 1 .. Q : s[n] \in Links
  OBVIOUS
<1>2. m \in K
  <2>1. m \in Knowledge /\ m.told = ToldOf(m) /\ m.up \subseteq m.interfaces
        /\ \A a \in m.contexts : LinkOf[a] \in m.interfaces
    BY DEF Coherent
  <2>2. \A a \in Addresses : m.told[a] = IF a \in m.contexts /\ LinkOf[a] \in m.up THEN 1 ELSE 0
    BY <2>1 DEF ToldOf
  <2>3. m.contexts \subseteq Addresses
    BY <2>1, KnowledgeFields
  <2>4. \A a \in m.contexts : m.told[a] <= 1
    BY <2>2, <2>3
  <2>5. \A a \in Addresses \ m.contexts : m.told[a] <= 0
    BY <2>2
  <2> QED BY <2>1, <2>4, <2>5 DEF Leaving
<1>3. ASSUME NEW n \in 1 .. Q, NEW x \in K PROVE P!Linux!Free(x, s[n]) \in K
  <2>1. Leaving(P!Linux!Free(x, s[n]))
    <3>1. Leaving(x) OBVIOUS
    <3> HIDE DEF K
    <3> QED BY <3>1, <1>1, FreeLeaves
  <2> QED BY <2>1 DEF Leaving
<1>4. step \in [(1 .. Q) \X K -> K]
  <2> HIDE DEF K, Q
  <2> QED BY <1>3
<1>5. PICK g : Repeats(g, K, m, Q, step)
  <2> HIDE DEF K, Q, step
  <2> QED BY Zenon, <1>1, <1>2, <1>4, Iteration
<1>6. g \in [0 .. Q -> K] /\ g[0] = m
  BY <1>5 DEF Repeats
<1>7. ASSUME NEW n \in 1 .. Q PROVE g[n - 1] \in K /\ g[n] = P!Linux!Free(g[n - 1], s[n])
  <2>1. g[n - 1] \in K
    <3> HIDE DEF K
    <3> QED BY <1>1, <1>6
  <2>2. g[n] = step[<<n, g[n - 1]>>]
    BY Zenon, <1>5 DEF Repeats
  <2> HIDE DEF K
  <2> QED BY <2>1, <2>2
<1>8. g = [n \in 0 .. Q |-> IF n = 0 THEN m ELSE P!Linux!Free(g[n - 1], s[n])]
  <2> HIDE DEF K
  <2> QED BY <1>6, <1>7
<1>9. after = [n \in 0 .. Q |-> IF n = 0 THEN m ELSE P!Linux!Free(after[n - 1], s[n])]
  BY Zenon, <1>8
<1>10. P!Linux!Freed(m, s) = after[Q]
  BY DEF P!Linux!Freed
<1> HIDE DEF after
<1>11. after[0] = m /\ \A n \in 1 .. Q : after[n] = P!Linux!Free(after[n - 1], s[n])
  BY <1>9
<1> DEFINE Same == {n \in 0 .. Q : /\ after[n] = g[n]
                                   /\ \A i \in 1 .. n : s[i] \notin g[n].interfaces
                                   /\ g[n].interfaces \subseteq m.interfaces}
<1>12. 0 \in Same
  BY <1>6, <1>11
<1>13. ASSUME NEW n \in 1 .. Q, n - 1 \in Same PROVE n \in Same
  <2>1. /\ after[n - 1] = g[n - 1]
        /\ \A i \in 1 .. n - 1 : s[i] \notin g[n - 1].interfaces
        /\ g[n - 1].interfaces \subseteq m.interfaces
    BY <1>13
  <2>2. after[n] = g[n]
    BY <2>1, <1>7, <1>11
  <2>3. g[n].interfaces = g[n - 1].interfaces \ {s[n]}
    <3>1. Leaving(g[n - 1])
      BY <1>7
    <3> QED BY <3>1, <1>1, <1>7, FreeLeaves
  <2>4. \A i \in 1 .. n : i \in 1 .. n - 1 \/ i = n
    OBVIOUS
  <2>5. /\ \A i \in 1 .. n : s[i] \notin g[n].interfaces
        /\ g[n].interfaces \subseteq m.interfaces
    BY <2>1, <2>3, <2>4
  <2> QED BY <2>2, <2>5
<1>14. Q \in Same
  <2>1. Q \in 0 .. Q BY <1>1
  <2> HIDE DEF Same, Q
  <2> QED BY Zenon, <1>1, <1>12, <1>13, <2>1, Induction
<1> DEFINE r == g[Q]
<1>15. P!Linux!Freed(m, s) = r /\ r.interfaces = {}
  <2>1. \A l \in m.interfaces : \E i \in 1 .. Q : s[i] = l
    BY DEF Members
  <2> QED BY <2>1, <1>10, <1>14
<1>16. Leaving(r)
  <2>1. g[Q] \in K
    <3>1. Q \in 0 .. Q BY <1>1
    <3> HIDE DEF K
    <3> QED BY <3>1, <1>6
  <2> QED BY <2>1
<1> HIDE DEF r
<1>17. r.contexts = {} /\ r.up = {}
  BY <1>15, <1>16 DEF Leaving
<1>18. \A a \in Addresses : r.told[a] <= 0
  BY <1>16, <1>17 DEF Leaving
<1> QED BY <1>15, <1>16, <1>17, <1>18 DEF Leaving

-----------------------------------------------------------------------------
\* The manager
Managers == [nl_seq : 0 .. 2, listening : BOOLEAN, interfaces : SUBSET Links,
             up : SUBSET Links, contexts : SUBSET Addresses]

\* The messages in the socket lead from what the manager knows to what the kernel has,
\* however many changes are still to be read.  Without that, nothing is known of a
\* manager that has only half caught up.
LinuxInv ==
    /\ os \in [link : [Links -> {"none", "down", "up"}], address : [Addresses -> P!Linux!AddressStates]]
    /\ Kernel(os.link, os.address)
    /\ manager \in Managers
    /\ manager.listening => manager.nl_seq = 2
    /\ disposed \in BOOLEAN
    /\ ~disposed => /\ queue \in Seq(P!Linux!Messages)
                    /\ UpToDate(P!Linux!Known, queue, os.link, os.address, manager.nl_seq)
    /\ disposed => /\ queue = <<>>
                   /\ manager.interfaces = {} /\ manager.up = {} /\ manager.contexts = {}
                   /\ told \in [Addresses -> Int] /\ \A a \in Addresses : told[a] <= 0

\* It says what the run checks.
LEMMA LinuxInvTells == LinuxInv => P!Linux!AnnouncedOnce /\ P!Linux!FollowsTheKernel
<1> SUFFICES ASSUME LinuxInv PROVE P!Linux!AnnouncedOnce /\ P!Linux!FollowsTheKernel
  OBVIOUS
<1> DEFINE m == P!Linux!Known
<1>1. /\ m.interfaces = manager.interfaces /\ m.up = manager.up
      /\ m.contexts = manager.contexts /\ m.told = told
  BY DEF P!Linux!Known
<1> HIDE DEF m
<1>2. CASE disposed
  BY <1>2 DEF LinuxInv, P!Linux!AnnouncedOnce, P!Linux!FollowsTheKernel
<1>3. CASE ~disposed
  <2>1. PICK f : Course(f, m, queue)
                 /\ Current(f[Len(queue)], os.link, os.address, manager.nl_seq)
    BY <1>3 DEF LinuxInv, UpToDate, m
  <2>2. queue \in Seq(P!Linux!Messages)
    BY <1>3 DEF LinuxInv
  <2>3. Coherent(m)
    <3>1. 0 \in 0 .. Len(queue) BY <2>2
    <3> QED BY <2>1, <3>1 DEF Course
  <2>4. \A a \in Addresses : told[a] = IF a \in m.contexts /\ LinkOf[a] \in m.up THEN 1 ELSE 0
    BY <1>1, <2>3 DEF Coherent, ToldOf
  <2>5. P!Linux!AnnouncedOnce
    BY <1>3, <2>4 DEF P!Linux!AnnouncedOnce
  <2>6. ASSUME manager.listening, queue = <<>>, NEW a \in Addresses \ Broken,
               os.address[a] # "deprecated"
        PROVE  told[a] = 1 <=> /\ os.address[a] = "usable"
                               /\ os.link[LinkOf[a]] = "up"
                               /\ LinkOf[a] \in Valid
    <3>1. f[Len(queue)] = m
      BY <2>1, <2>6 DEF Course
    <3>2. Current(m, os.link, os.address, 2)
      BY <2>1, <2>6, <3>1 DEF LinuxInv
    <3>3. told[a] = 1 <=> a \in m.contexts /\ LinkOf[a] \in m.up
      BY <2>4
    <3>4. ASSUME a \in m.contexts, LinkOf[a] \in m.up
          PROVE  os.address[a] = "usable" /\ os.link[LinkOf[a]] = "up" /\ LinkOf[a] \in Valid
      BY <2>3, <2>6, <3>2, <3>4 DEF Coherent, Current
    <3>5. ASSUME os.address[a] = "usable", os.link[LinkOf[a]] = "up", LinkOf[a] \in Valid
          PROVE  a \in m.contexts /\ LinkOf[a] \in m.up
      <4>1. LinkOf[a] \in Links
        BY PartsAssumption
      <4> QED BY <3>2, <3>5, <4>1 DEF Current
    <3> QED BY <3>3, <3>4, <3>5
  <2> QED BY <1>3, <2>5, <2>6 DEF P!Linux!FollowsTheKernel
<1> QED BY <1>2, <1>3

\* At the start nothing is known, and nothing is in the socket.
LEMMA InitLinux == P!Linux!Init => LinuxInv
<1> SUFFICES ASSUME P!Linux!Init PROVE LinuxInv
  OBVIOUS
<1> DEFINE m == P!Linux!Known
<1>1. /\ os \in [link : [Links -> {"none", "down", "up"}],
                 address : [Addresses -> P!Linux!AddressStates]]
      /\ Kernel(os.link, os.address)
  BY DEF P!Linux!Init, P!Linux!AddressStates, Kernel
<1>2. manager \in Managers /\ manager.nl_seq = 0 /\ ~manager.listening
  BY DEF P!Linux!Init, Managers
<1>3. m = [interfaces |-> {}, up |-> {}, contexts |-> {}, told |-> [a \in Addresses |-> 0]]
  BY DEF P!Linux!Known, P!Linux!Init
<1> HIDE DEF m
<1>4. Coherent(m)
  BY <1>3 DEF Coherent, Knowledge, ToldOf
<1> DEFINE e == [n \in 0 .. 0 |-> m]
<1>5. Course(e, m, <<>>) /\ e[Len(<<>>)] = m
  BY <1>4, CourseOfNone
<1>6. Current(m, os.link, os.address, 0)
  BY <1>3 DEF Current
<1> HIDE DEF e
<1>7. UpToDate(m, <<>>, os.link, os.address, 0)
  BY <1>5, <1>6 DEF UpToDate
<1>8. queue = <<>> /\ disposed = FALSE /\ queue \in Seq(P!Linux!Messages)
  BY DEF P!Linux!Init
<1>9. UpToDate(P!Linux!Known, queue, os.link, os.address, manager.nl_seq)
  BY <1>2, <1>7, <1>8 DEF m
<1> QED BY Zenon, <1>1, <1>2, <1>8, <1>9 DEF LinuxInv

\* A manager that has learned something
Learned(M, m) == [M EXCEPT !.interfaces = m.interfaces, !.up = m.up, !.contexts = m.contexts]
Asked(M, n) == [M EXCEPT !.nl_seq = n]

\* Only what was learned is new,
LEMMA LearnedFields ==
  ASSUME NEW M \in Managers, NEW m \in Knowledge
  PROVE  LET r == Learned(M, m)
         IN /\ r \in Managers /\ r.nl_seq = M.nl_seq /\ r.listening = M.listening
            /\ m = [interfaces |-> r.interfaces, up |-> r.up, contexts |-> r.contexts,
                    told |-> m.told]
BY Zenon DEF Managers, Knowledge, Learned

\* ... or only the request.
LEMMA AskedFields ==
  ASSUME NEW M \in Managers, NEW n \in 0 .. 2
  PROVE  LET r == Asked(M, n)
         IN /\ r \in Managers /\ r.nl_seq = n /\ r.listening = M.listening
            /\ r.interfaces = M.interfaces /\ r.up = M.up /\ r.contexts = M.contexts
BY DEF Managers, Asked

\* The parts of the invariant, while the manager lives
LEMMA LinuxInvParts ==
  ASSUME LinuxInv, ~disposed
  PROVE  /\ os.link \in [Links -> {"none", "down", "up"}] /\ Kernel(os.link, os.address)
         /\ manager \in Managers /\ manager.nl_seq \in 0 .. 2 /\ manager.listening \in BOOLEAN
         /\ queue \in Seq(P!Linux!Messages)
         /\ UpToDate(P!Linux!Known, queue, os.link, os.address, manager.nl_seq)
         /\ Coherent(P!Linux!Known)
<1>1. /\ os.link \in [Links -> {"none", "down", "up"}] /\ Kernel(os.link, os.address)
      /\ manager \in Managers /\ queue \in Seq(P!Linux!Messages)
      /\ UpToDate(P!Linux!Known, queue, os.link, os.address, manager.nl_seq)
  BY DEF LinuxInv, Kernel
<1>2. manager.nl_seq \in 0 .. 2 /\ manager.listening \in BOOLEAN
  BY <1>1 DEF Managers
<1>3. Coherent(P!Linux!Known)
  <2>1. PICK f : Course(f, P!Linux!Known, queue)
    BY <1>1 DEF UpToDate
  <2>2. 0 \in 0 .. Len(queue)
    BY <1>1
  <2> QED BY <2>1, <2>2 DEF Course
<1> QED BY <1>1, <1>2, <1>3

\* The invariant gives the variables their types.
LEMMA LinuxInvTypes == LinuxInv => P!Linux!TypeOK
<1> SUFFICES ASSUME LinuxInv PROVE P!Linux!TypeOK
  OBVIOUS
<1> DEFINE m == P!Linux!Known
<1>1. /\ m.interfaces = manager.interfaces /\ m.up = manager.up
      /\ m.contexts = manager.contexts /\ m.told = told
  BY DEF P!Linux!Known
<1> HIDE DEF m
<1>2. /\ manager.nl_seq \in 0 .. 2 /\ manager.listening \in BOOLEAN
      /\ manager.interfaces \subseteq Links /\ disposed \in BOOLEAN
      /\ os \in [link : [Links -> {"none", "down", "up"}],
                 address : [Addresses -> P!Linux!AddressStates]]
  BY DEF LinuxInv, Managers
<1>3. CASE disposed
  <2>1. /\ queue \in Seq(P!Linux!Messages) /\ told \in [Addresses -> Int]
        /\ manager.up = {} /\ manager.contexts = {}
    BY <1>3 DEF LinuxInv
  <2> QED BY <1>2, <2>1 DEF P!Linux!TypeOK
<1>4. CASE ~disposed
  <2>1. queue \in Seq(P!Linux!Messages) /\ Coherent(m)
    BY <1>4, LinuxInvParts DEF m
  <2>2. /\ m.contexts \subseteq {a \in Addresses : LinkOf[a] \in m.interfaces \cap Valid}
        /\ m.up \subseteq m.interfaces /\ m.told \in [Addresses -> Int]
    BY <2>1, KnowledgeFields DEF Coherent
  <2> QED BY <1>1, <1>2, <2>1, <2>2 DEF P!Linux!TypeOK
<1> QED BY <1>3, <1>4

\* query_all_network_interfaces()
LEMMA QueryLinksStep == LinuxInv /\ P!Linux!QueryLinks => LinuxInv'
<1> SUFFICES ASSUME LinuxInv, P!Linux!QueryLinks PROVE LinuxInv'
  OBVIOUS
<1> DEFINE m == P!Linux!Known
           d == LinkDumpOf(os.link)
           r == P!Linux!Reading(m, queue \o d)
<1>1. /\ ~disposed /\ manager.nl_seq = 0
      /\ manager' = Asked(Learned(manager, r), 1) /\ told' = r.told /\ queue' = <<>>
      /\ os' = os /\ disposed' = disposed
  BY Zenon DEF P!Linux!QueryLinks, P!Linux!LinkDump, LinkDumpOf, Learned,
         Asked, P!Linux!Knowing
<1>2. /\ Kernel(os.link, os.address) /\ manager \in Managers
      /\ queue \in Seq(P!Linux!Messages)
      /\ UpToDate(m, queue, os.link, os.address, 0)
  BY <1>1, LinuxInvParts
<1>3. r \in Knowledge /\ UpToDate(r, <<>>, os.link, os.address, 1)
  <2> HIDE DEF m
  <2> QED BY <1>2, QueryLinksKeeps
<1> HIDE DEF r
<1>4. /\ manager' \in Managers /\ manager'.nl_seq = 1 /\ manager'.listening = manager.listening
      /\ P!Linux!Known' = r
  <2> DEFINE M == Learned(manager, r)
  <2>0. /\ M \in Managers /\ M.listening = manager.listening
        /\ r = [interfaces |-> M.interfaces, up |-> M.up, contexts |-> M.contexts,
                told |-> r.told]
    BY <1>2, <1>3, LearnedFields
  <2>1. /\ manager' \in Managers /\ manager'.nl_seq = 1 /\ manager'.listening = manager.listening
        /\ r = [interfaces |-> manager'.interfaces, up |-> manager'.up,
                contexts |-> manager'.contexts, told |-> r.told]
    <3> HIDE DEF M
    <3>1. 1 \in 0 .. 2 /\ manager' = Asked(M, 1)
      BY <1>1 DEF M
    <3> QED BY <2>0, <3>1, AskedFields
  <2> QED BY <2>1, <1>1 DEF P!Linux!Known
<1>5. ~manager.listening
  BY <1>1 DEF LinuxInv
<1>6. UpToDate(P!Linux!Known', queue', os.link', os.address', manager'.nl_seq)
  BY <1>1, <1>3, <1>4
<1>7. queue' \in Seq(P!Linux!Messages)
  BY <1>1
<1> QED BY <1>1, <1>4, <1>5, <1>6, <1>7 DEF LinuxInv

\* query_all_addresses()
LEMMA QueryAddressesStep == LinuxInv /\ P!Linux!QueryAddresses => LinuxInv'
<1> SUFFICES ASSUME LinuxInv, P!Linux!QueryAddresses PROVE LinuxInv'
  OBVIOUS
<1> DEFINE m == P!Linux!Known
           d == AddressDumpOf(os.address)
<1>1. /\ ~disposed /\ manager.nl_seq = 1
      /\ manager' = [manager EXCEPT !.nl_seq = 2] /\ queue' = queue \o d
      /\ os' = os /\ told' = told /\ disposed' = disposed
  BY DEF P!Linux!QueryAddresses, P!Linux!AddressDump, AddressDumpOf
<1>2. /\ Kernel(os.link, os.address) /\ manager \in Managers
      /\ queue \in Seq(P!Linux!Messages)
      /\ UpToDate(m, queue, os.link, os.address, 1)
  BY <1>1, LinuxInvParts
<1>3. /\ queue \o d \in Seq(P!Linux!Messages)
      /\ UpToDate(m, queue \o d, os.link, os.address, 2)
  <2> HIDE DEF m
  <2> QED BY <1>2, QueryAddressesKeeps
<1>4. /\ manager' \in Managers /\ manager'.nl_seq = 2
      /\ P!Linux!Known' = m
  BY <1>1, <1>2 DEF Managers, P!Linux!Known
<1> HIDE DEF m, d
<1>6. UpToDate(P!Linux!Known', queue', os.link', os.address', manager'.nl_seq)
  BY <1>1, <1>3, <1>4
<1> QED BY <1>1, <1>3, <1>4, <1>6 DEF LinuxInv

\* on_bootstrap() attaches the source.
LEMMA ListenStep == LinuxInv /\ P!Linux!Listen => LinuxInv'
<1> SUFFICES ASSUME LinuxInv, P!Linux!Listen PROVE LinuxInv'
  OBVIOUS
<1>1. /\ ~disposed /\ manager.nl_seq = 2
      /\ manager' = [manager EXCEPT !.listening = TRUE] /\ queue' = queue
      /\ os' = os /\ told' = told /\ disposed' = disposed
  BY DEF P!Linux!Listen
<1>2. /\ Kernel(os.link, os.address) /\ manager \in Managers
      /\ queue \in Seq(P!Linux!Messages)
      /\ UpToDate(P!Linux!Known, queue, os.link, os.address, 2)
  BY <1>1, LinuxInvParts
<1>4. /\ manager' \in Managers /\ manager'.nl_seq = 2
      /\ P!Linux!Known' = P!Linux!Known
  BY Zenon, <1>1, <1>2 DEF Managers, P!Linux!Known
<1>6. UpToDate(P!Linux!Known', queue', os.link', os.address', manager'.nl_seq)
  BY <1>1, <1>2, <1>4
<1> QED BY <1>1, <1>2, <1>4, <1>6 DEF LinuxInv

\* on_netlink_message_available()
LEMMA MessageAvailableStep == LinuxInv /\ P!Linux!MessageAvailable => LinuxInv'
<1> SUFFICES ASSUME LinuxInv, P!Linux!MessageAvailable PROVE LinuxInv'
  OBVIOUS
<1> DEFINE m == P!Linux!Known
           r == P!Linux!Receive(m, Head(queue))
<1>1. /\ ~disposed /\ queue # <<>>
      /\ manager' = Learned(manager, r) /\ told' = r.told /\ queue' = Tail(queue)
      /\ os' = os /\ disposed' = disposed
  BY DEF P!Linux!MessageAvailable, P!Linux!Know, P!Linux!Knowing, Learned
<1>2. /\ Kernel(os.link, os.address) /\ manager \in Managers
      /\ queue \in Seq(P!Linux!Messages)
      /\ UpToDate(m, queue, os.link, os.address, manager.nl_seq)
  BY <1>1, LinuxInvParts
<1>3. r \in Knowledge /\ UpToDate(r, Tail(queue), os.link, os.address, manager.nl_seq)
  <2> HIDE DEF m
  <2> QED BY <1>1, <1>2, ReadKeeps
<1> HIDE DEF r
<1>4. /\ manager' \in Managers /\ manager'.nl_seq = manager.nl_seq
      /\ manager'.listening = manager.listening /\ P!Linux!Known' = r
  <2>1. /\ manager' \in Managers /\ manager'.nl_seq = manager.nl_seq
        /\ manager'.listening = manager.listening
        /\ r = [interfaces |-> manager'.interfaces, up |-> manager'.up,
                contexts |-> manager'.contexts, told |-> r.told]
    BY <1>1, <1>2, <1>3, LearnedFields
  <2> QED BY <2>1, <1>1 DEF P!Linux!Known
<1>6. UpToDate(P!Linux!Known', queue', os.link', os.address', manager'.nl_seq)
  BY <1>1, <1>3, <1>4
<1>7. queue' \in Seq(P!Linux!Messages)
  BY <1>1, <1>2
<1> QED BY <1>1, <1>4, <1>6, <1>7 DEF LinuxInv

\* gupnp_linux_context_manager_dispose()
LEMMA DisposeStep == LinuxInv /\ P!Linux!Dispose => LinuxInv'
<1> SUFFICES ASSUME LinuxInv, P!Linux!Dispose PROVE LinuxInv'
  OBVIOUS
<1> DEFINE m == P!Linux!Known
           s == P!Linux!SetToSeq(manager.interfaces)
           r == P!Linux!Freed(m, s)
<1>1. /\ ~disposed /\ disposed' = TRUE /\ queue' = <<>>
      /\ manager' = Learned(manager, r) /\ told' = r.told /\ os' = os
  BY DEF P!Linux!Dispose, P!Linux!Know, P!Linux!Knowing, Learned
<1>2. manager \in Managers /\ Coherent(m)
  BY <1>1, LinuxInvParts
<1>3. m.interfaces = manager.interfaces
  BY DEF P!Linux!Known
<1>4. s \in Seq(Links) /\ Members(s) = m.interfaces
  <2>1. manager.interfaces \subseteq Links
    BY <1>2 DEF Managers
  <2>2. IsFiniteSet(manager.interfaces)
    BY <2>1, PartsAssumption, FS_Subset
  <2>3. s \in Seq(manager.interfaces) /\ Members(s) = manager.interfaces
    BY <2>2, OrderFacts
  <2> HIDE DEF s
  <2> QED BY <1>3, <2>1, <2>3
<1>5. /\ r \in Knowledge /\ r.interfaces = {} /\ r.up = {} /\ r.contexts = {}
      /\ \A a \in Addresses : r.told[a] <= 0
  <2> HIDE DEF m, s
  <2> QED BY <1>2, <1>4, FreedFacts
<1> HIDE DEF r
<1>6. /\ manager' \in Managers /\ manager'.nl_seq = manager.nl_seq
      /\ manager'.listening = manager.listening
  BY <1>1, <1>2, <1>5, LearnedFields
<1>7. manager'.interfaces = {} /\ manager'.up = {} /\ manager'.contexts = {}
  <2>1. r = [interfaces |-> manager'.interfaces, up |-> manager'.up,
             contexts |-> manager'.contexts, told |-> r.told]
    BY <1>1, <1>2, <1>5, LearnedFields
  <2> QED BY <2>1, <1>5
<1>8. told' \in [Addresses -> Int]
  BY <1>1, <1>5, KnowledgeFields
<1>9. LinuxInv
  OBVIOUS
<1> QED BY <1>1, <1>5, <1>6, <1>7, <1>8, <1>9 DEF LinuxInv

\* The kernel reports something, and nothing else happens.
LEMMA ReportStep ==
  ASSUME LinuxInv, NEW msgs, P!Linux!Report(msgs), NEW link, NEW address,
         os' = [link |-> link, address |-> address],
         queue \o msgs \in Seq(P!Linux!Messages),
         UpToDate(P!Linux!Known, queue \o msgs, link, address, manager.nl_seq),
         Kernel(link, address)
  PROVE  LinuxInv'
<1>1. /\ ~disposed /\ disposed' = disposed /\ queue' = queue \o msgs
      /\ manager' = manager /\ told' = told
  BY DEF P!Linux!Report
<1>2. P!Linux!Known' = P!Linux!Known
  BY <1>1 DEF P!Linux!Known
<1>3. os'.link = link /\ os'.address = address
  OBVIOUS
<1>4. os' \in [link : [Links -> {"none", "down", "up"}],
               address : [Addresses -> P!Linux!AddressStates]]
  BY DEF Kernel, P!Linux!AddressStates
<1>5. UpToDate(P!Linux!Known', queue', os.link', os.address', manager'.nl_seq)
  BY <1>1, <1>2, <1>3
<1> QED BY <1>1, <1>3, <1>4, <1>5 DEF LinuxInv

\* Each step of the kernel
LEMMA KernelSteps ==
  ASSUME LinuxInv,
         \/ \E l \in Links : \/ P!Linux!WirelessStatus(l) \/ P!Linux!LinkDelete(l)
                             \/ \E phase \in {"down", "up"} : P!Linux!LinkChange(l, phase)
         \/ \E a \in Addresses :
               \/ P!Linux!AddressDelete(a)
               \/ \E phase \in P!Linux!AddressStates : P!Linux!AddressChange(a, phase)
  PROVE  LinuxInv'
<1>0. os = [link |-> os.link, address |-> os.address]
  BY DEF LinuxInv
<1> DEFINE m == P!Linux!Known
<1>1. ~disposed
  BY Zenon DEF P!Linux!WirelessStatus, P!Linux!LinkDelete, P!Linux!LinkChange, P!Linux!AddressDelete,
         P!Linux!AddressChange, P!Linux!Report
<1>2. /\ Kernel(os.link, os.address) /\ manager.nl_seq \in 0 .. 2
      /\ queue \in Seq(P!Linux!Messages)
      /\ UpToDate(m, queue, os.link, os.address, manager.nl_seq)
  BY <1>1, LinuxInvParts
<1> HIDE DEF m
<1>3. ASSUME NEW l \in Links, P!Linux!WirelessStatus(l) PROVE LinuxInv'
  <2> DEFINE msgs == <<P!Linux!LinkMessage(l, FALSE, TRUE)>>
  <2>1. P!Linux!Report(msgs) /\ os' = [link |-> os.link, address |-> os.address]
    BY <1>3, <1>0 DEF P!Linux!WirelessStatus
  <2>2. /\ queue \o msgs \in Seq(P!Linux!Messages)
        /\ UpToDate(m, queue \o msgs, os.link, os.address, manager.nl_seq)
    BY Zenon, <1>2, WirelessStatusKeeps
  <2> HIDE DEF msgs
  <2> QED BY <1>2, <2>1, <2>2, ReportStep DEF m
<1>4. ASSUME NEW l \in Links, P!Linux!LinkDelete(l) PROVE LinuxInv'
  <2> DEFINE msgs == Farewell(os.link, os.address, l)
             links == LinksWithout(os.link, l)
             addresses == AddressesWithout(os.address, l)
  <2>1. P!Linux!Report(msgs)
    BY Zenon, <1>4 DEF P!Linux!LinkDelete, Farewell, LostOf, DownOf, Withdrawals
  <2>2. os' = [link |-> links, address |-> addresses]
    <3> DEFINE lost == LostOf(os.address, l)
    <3>1. os' = [os EXCEPT !.link[l] = "none",
                           !.address = [a \in Addresses |-> IF a \in lost THEN "none" ELSE @[a]]]
      BY Zenon, <1>4 DEF P!Linux!LinkDelete, LostOf
    <3>2. addresses = [a \in Addresses |-> IF a \in lost THEN "none" ELSE os.address[a]]
      BY DEF AddressesWithout
    <3>3. links = [os.link EXCEPT ![l] = "none"]
      BY DEF LinksWithout
    <3> HIDE DEF lost, links, addresses
    <3> QED BY Zenon, <1>0, <3>1, <3>2, <3>3
  <2>3. /\ queue \o msgs \in Seq(P!Linux!Messages)
        /\ UpToDate(m, queue \o msgs, links, addresses, manager.nl_seq)
        /\ Kernel(links, addresses)
    BY <1>2, LinkDeleteKeeps
  <2> HIDE DEF msgs, links, addresses
  <2> QED BY <2>1, <2>2, <2>3, ReportStep DEF m
<1>5. ASSUME NEW l \in Links, NEW phase \in {"down", "up"}, P!Linux!LinkChange(l, phase)
      PROVE  LinuxInv'
  <2> DEFINE msgs == <<P!Linux!LinkMessage(l, phase = "up", FALSE)>>
             now == [os.link EXCEPT ![l] = phase]
  <2>1. P!Linux!Report(msgs) /\ os' = [link |-> now, address |-> os.address]
    BY <1>5, <1>0 DEF P!Linux!LinkChange
  <2>2. /\ queue \o msgs \in Seq(P!Linux!Messages)
        /\ UpToDate(m, queue \o msgs, now, os.address, manager.nl_seq)
        /\ Kernel(now, os.address)
    <3>1. <<os.link[l], phase>> \in {<<"none", "down">>, <<"down", "up">>, <<"up", "down">>}
      BY <1>5 DEF P!Linux!LinkChange
    <3> QED BY ZenonT(60), <1>2, <3>1, LinkChangeKeeps
  <2> HIDE DEF msgs, now
  <2> QED BY <2>1, <2>2, ReportStep DEF m
<1>6. ASSUME NEW a \in Addresses, P!Linux!AddressDelete(a) PROVE LinuxInv'
  <2> DEFINE msgs == <<[type |-> "RTM_DELADDR", address |-> a]>>
             now == [os.address EXCEPT ![a] = "none"]
  <2>1. P!Linux!Report(msgs) /\ os' = [link |-> os.link, address |-> now]
    BY <1>6, <1>0 DEF P!Linux!AddressDelete
  <2>2. /\ queue \o msgs \in Seq(P!Linux!Messages)
        /\ UpToDate(m, queue \o msgs, os.link, now, manager.nl_seq)
        /\ Kernel(os.link, now)
    BY Zenon, <1>2, AddressDeleteKeeps
  <2> HIDE DEF msgs, now
  <2> QED BY <2>1, <2>2, ReportStep DEF m
<1>7. ASSUME NEW a \in Addresses, NEW phase \in P!Linux!AddressStates,
             P!Linux!AddressChange(a, phase)
      PROVE  LinuxInv'
  <2> DEFINE msgs == <<[type |-> "RTM_NEWADDR", address |-> a, state |-> phase]>>
             now == [os.address EXCEPT ![a] = phase]
  <2>1. P!Linux!Report(msgs) /\ os' = [link |-> os.link, address |-> now]
    BY <1>7, <1>0 DEF P!Linux!AddressChange
  <2>2. /\ queue \o msgs \in Seq(P!Linux!Messages)
        /\ UpToDate(m, queue \o msgs, os.link, now, manager.nl_seq)
        /\ Kernel(os.link, now)
    <3>1. /\ os.link[LinkOf[a]] # "none"
          /\ <<os.address[a], phase>> \in
                {<<"none", "tentative">>, <<"none", "usable">>, <<"tentative", "usable">>,
                 <<"usable", "usable">>, <<"usable", "deprecated">>}
      BY <1>7 DEF P!Linux!AddressChange
    <3> QED BY Zenon, <1>2, <3>1, AddressChangeKeeps
  <2> HIDE DEF msgs, now
  <2> QED BY <2>1, <2>2, ReportStep DEF m
<1> QED BY <1>3, <1>4, <1>5, <1>6, <1>7

\* Every step keeps the invariant.
LEMMA NextKeepsLinux == LinuxInv /\ P!Linux!Next => LinuxInv'
BY QueryLinksStep, QueryAddressesStep, ListenStep, MessageAvailableStep, DisposeStep, KernelSteps
   DEF P!Linux!Next

-----------------------------------------------------------------------------
(* Unix and Windows.                                                       *)

\* The order is the same in each module that asks for one.
LEMMA SimpleOrder ==
  ASSUME NEW X, IsFiniteSet(X)
  PROVE  P!Simple!SetToSeq(X) \in Seq(X) /\ Members(P!Simple!SetToSeq(X)) = X
<1>1. P!Simple!SetToSeq(X) = P!Linux!SetToSeq(X)
  BY DEF P!Simple!SetToSeq, P!Linux!SetToSeq, P!Simple!IsInjective, P!Linux!IsInjective,
         P!Simple!Cardinality, P!Linux!Cardinality
<1> QED BY <1>1, OrderFacts

\* Announced are the interfaces of the contexts the manager has, and it has none when
\* it is gone.
SimpleInv ==
    /\ os \in [Interfaces -> SUBSET P!Simple!Flags]
    /\ manager \in [idle : BOOLEAN, contexts : Seq(Interfaces)]
    /\ told = [i \in Interfaces |-> IF i \in Members(manager.contexts) THEN 1 ELSE 0]
    /\ disposed \in BOOLEAN
    /\ disposed => manager.contexts = <<>>

\* It says what the run checks.
LEMMA SimpleInvTells == SimpleInv => P!Simple!TypeOK /\ P!Simple!WithdrawnAtTheEnd
<1> SUFFICES ASSUME SimpleInv PROVE P!Simple!TypeOK /\ P!Simple!WithdrawnAtTheEnd
  OBVIOUS
<1>1. told \in [Interfaces -> 0 .. 1]
  BY DEF SimpleInv
<1>2. manager.idle \in BOOLEAN /\ manager.contexts \in Seq(Interfaces)
  BY DEF SimpleInv
<1>3. ASSUME disposed, NEW i \in Interfaces PROVE told[i] = 0
  <2>1. Members(manager.contexts) = {}
    BY <1>3, EmptyMembers DEF SimpleInv
  <2> QED BY <2>1 DEF SimpleInv
<1> QED BY <1>1, <1>2, <1>3 DEF SimpleInv, P!Simple!TypeOK, P!Simple!WithdrawnAtTheEnd

\* It holds at first.
LEMMA InitSimple == P!Simple!Init => SimpleInv
<1> SUFFICES ASSUME P!Simple!Init PROVE SimpleInv
  OBVIOUS
<1>1. manager \in [idle : BOOLEAN, contexts : Seq(Interfaces)] /\ manager.contexts = <<>>
  BY DEF P!Simple!Init
<1>2. told = [i \in Interfaces |-> IF i \in Members(manager.contexts) THEN 1 ELSE 0]
  BY <1>1, EmptyMembers DEF P!Simple!Init
<1> QED BY <1>1, <1>2 DEF SimpleInv, P!Simple!Init

\* Every step keeps it.
LEMMA NextKeepsSimple == SimpleInv /\ P!Simple!Next => SimpleInv'
<1> SUFFICES ASSUME SimpleInv, P!Simple!Next PROVE SimpleInv'
  OBVIOUS
<1>1. CASE P!Simple!CreateContexts
  <2>1. PICK F \in SUBSET P!Simple!GetInterfaces :
           /\ manager' = [idle |-> FALSE, contexts |-> P!Simple!SetToSeq(F)]
           /\ told' = [i \in Interfaces |-> IF i \in F THEN 1 ELSE 0]
    BY <1>1 DEF P!Simple!CreateContexts
  <2>2. F \subseteq Interfaces /\ IsFiniteSet(F)
    BY PartsAssumption, FS_Subset DEF P!Simple!GetInterfaces
  <2>3. P!Simple!SetToSeq(F) \in Seq(Interfaces) /\ Members(P!Simple!SetToSeq(F)) = F
    BY <2>2, SimpleOrder
  <2> QED BY <1>1, <2>1, <2>3 DEF SimpleInv, P!Simple!CreateContexts
<1>2. CASE P!Simple!Dispose
  <2>1. /\ disposed' = TRUE /\ os' = os
        /\ manager' = [idle |-> FALSE, contexts |-> <<>>]
    BY <1>2 DEF P!Simple!Dispose
  <2>2. \A i \in Interfaces : i \in P!Simple!Range(manager.contexts) <=> i \in Members(manager.contexts)
    BY DEF SimpleInv, P!Simple!Range, Members
  <2>3. told' = [i \in Interfaces |-> 0]
    BY <1>2, <2>2 DEF P!Simple!Dispose, SimpleInv
  <2>4. manager'.contexts = <<>> /\ Members(manager'.contexts) = {}
    BY <2>1, EmptyMembers
  <2>5. told' = [i \in Interfaces |-> IF i \in Members(manager'.contexts) THEN 1 ELSE 0]
    BY <2>3, <2>4
  <2>6. manager' \in [idle : BOOLEAN, contexts : Seq(Interfaces)]
    BY <2>1
  <2> QED BY <2>1, <2>4, <2>5, <2>6 DEF SimpleInv
<1>3. ASSUME NEW i \in Interfaces, NEW flags \in SUBSET P!Simple!Flags,
             P!Simple!InterfaceChange(i, flags)
      PROVE  SimpleInv'
  BY <1>3 DEF SimpleInv, P!Simple!InterfaceChange
<1> QED BY <1>1, <1>2, <1>3 DEF P!Simple!Next

-----------------------------------------------------------------------------
(* ConnMan.                                                                *)

\* What is reported of a service that is there
Infos == [state : P!Connman!States, iface : Interfaces]
AllInfos == [state : P!Connman!States \cup {"none"}, iface : Interfaces]

\* The messages on the bus
ConnmanMessages ==
    [type : {"services"}, infos : [Services -> AllInfos]]
    \cup [type : {"added", "properties", "reply"}, service : Services, info : Infos]
    \cup [type : {"removed"}, service : Services, info : AllInfos]
    \cup [type : {"proxy"}, service : Services]

ServiceEntries == P!Connman!CMService \cup {P!Connman!Absent}

\* What the manager knows and has told
ConnmanKnowledge ==
    [services : [Services -> ServiceEntries], calls : SUBSET P!Connman!Calls,
     told : [Services \cup {"lo"} -> Int]]

\* A service that has a context is active, and the context has been announced.
Backed(x, n) == n >= 0 /\ (x # P!Connman!Absent /\ x.context => x.current = "active" /\ n >= 1)

\* ... for each; and a proxy is being made only for a service that is there.
Backing(m) ==
    /\ m \in ConnmanKnowledge
    /\ \A s \in Services : Backed(m.services[s], m.told[s])
    /\ \A s \in Services : [call |-> "proxy", service |-> s] \in m.calls
                               => m.services[s] # P!Connman!Absent

\* What is known, with another service s and its count
Put(m, s, x, n, calls) ==
    [services |-> [m.services EXCEPT ![s] = x], calls |-> calls,
     told |-> [m.told EXCEPT ![s] = n]]

\* The fields of a service that is there
LEMMA ServiceFields ==
  ASSUME NEW m \in ConnmanKnowledge, NEW s \in Services
  PROVE  /\ m.services \in [Services -> ServiceEntries] /\ m.calls \subseteq P!Connman!Calls
         /\ m.told \in [Services \cup {"lo"} -> Int] /\ m.told[s] \in Int
         /\ m.services[s] # P!Connman!Absent =>
               /\ m.services[s] \in P!Connman!CMService
               /\ m.services[s].current \in {"inactive", "active"}
               /\ m.services[s].iface \in Interfaces /\ m.services[s].proxy \in BOOLEAN
               /\ m.services[s].context \in BOOLEAN /\ m.services[s].timeout \in BOOLEAN
BY DEF ConnmanKnowledge, ServiceEntries, P!Connman!CMService, P!Connman!States

\* A service and the calls change.
WithCalls(m, s, x, calls) == [m EXCEPT !.services[s] = x, !.calls = calls]

LEMMA ServiceAndCalls ==
  ASSUME NEW m \in ConnmanKnowledge, NEW s \in Services, NEW x, NEW calls
  PROVE  WithCalls(m, s, x, calls) = Put(m, s, x, m.told[s], calls)
<1> DEFINE r == WithCalls(m, s, x, calls)
           a == [m EXCEPT !.services[s] = x]
<1>1. m.told \in [Services \cup {"lo"} -> Int]
  BY Zenon, ServiceFields
<1>2. [m.told EXCEPT ![s] = m.told[s]] = m.told
  BY <1>1
<1>3. a = [services |-> [m.services EXCEPT ![s] = x], calls |-> m.calls, told |-> m.told]
  BY DEF ConnmanKnowledge
<1>4. r = [a EXCEPT !.calls = calls]
  BY DEF WithCalls
<1> HIDE DEF a, r
<1> QED BY <1>2, <1>3, <1>4 DEF Put, r

\* A service that is there stays.
Stay(m, r) ==
    \A t \in Services : m.services[t] # P!Connman!Absent => r.services[t] # P!Connman!Absent

\* A CMService is none that is absent.
LEMMA ServiceIsThere ==
  ASSUME NEW x \in P!Connman!CMService
  PROVE  x # P!Connman!Absent /\ x \in ServiceEntries
BY DEF P!Connman!CMService, P!Connman!Absent, P!Connman!States, ServiceEntries

\* A change of one service keeps all backed if it keeps that one.
LEMMA PutKeeps ==
  ASSUME NEW m, Backing(m), NEW s \in Services, NEW x \in ServiceEntries, NEW n \in Int,
         NEW calls \in SUBSET P!Connman!Calls, Backed(x, n),
         \A t \in Services : [call |-> "proxy", service |-> t] \in calls =>
              IF t = s THEN x # P!Connman!Absent
              ELSE [call |-> "proxy", service |-> t] \in m.calls
  PROVE  /\ Backing(Put(m, s, x, n, calls))
         /\ Put(m, s, x, n, calls).services = [m.services EXCEPT ![s] = x]
<1> DEFINE r == Put(m, s, x, n, calls)
<1>1. /\ m \in ConnmanKnowledge /\ m.services \in [Services -> ServiceEntries]
      /\ m.told \in [Services \cup {"lo"} -> Int]
  BY Zenon, ServiceFields DEF Backing
<1>2. /\ r.services = [m.services EXCEPT ![s] = x] /\ r.calls = calls
      /\ r.told = [m.told EXCEPT ![s] = n]
  BY DEF Put
<1>3. r \in ConnmanKnowledge
  BY <1>1 DEF Put, ConnmanKnowledge
<1> HIDE DEF r
<1>4. ASSUME NEW t \in Services
      PROVE  /\ r.services[t] = IF t = s THEN x ELSE m.services[t]
             /\ r.told[t] = IF t = s THEN n ELSE m.told[t]
  BY <1>1, <1>2
<1>5. \A t \in Services : Backed(r.services[t], r.told[t])
  BY <1>4 DEF Backing
<1>6. \A t \in Services : [call |-> "proxy", service |-> t] \in r.calls
                              => r.services[t] # P!Connman!Absent
  BY <1>2, <1>4 DEF Backing
<1> QED BY <1>2, <1>3, <1>5, <1>6 DEF Backing, r

\* service_context_create()
LEMMA ContextCreateIs ==
  ASSUME NEW m \in ConnmanKnowledge, NEW s \in Services, m.services[s] # P!Connman!Absent,
         NEW ok \in BOOLEAN
  PROVE  /\ P!Connman!ContextCreate(m, s, ok)
              = Put(m, s, [m.services[s] EXCEPT !.context = ok],
                    m.told[s] + (IF ok THEN 1 ELSE 0), m.calls)
         /\ P!Connman!ContextCreateOrInactive(m, s, ok)
              = Put(m, s, [m.services[s] EXCEPT !.context = ok,
                                               !.current = IF ok THEN @ ELSE "inactive"],
                    m.told[s] + (IF ok THEN 1 ELSE 0), m.calls)
<1> DEFINE n == IF ok THEN 1 ELSE 0
           x == m.services[s]
           r == [m EXCEPT !.services[s].context = ok]
           c == P!Connman!ContextCreate(m, s, ok)
<1>1. /\ m.services \in [Services -> ServiceEntries] /\ m.told \in [Services \cup {"lo"} -> Int]
      /\ x \in P!Connman!CMService
  BY Zenon, ServiceFields
<1>2. r = [services |-> [m.services EXCEPT ![s] = [x EXCEPT !.context = ok]],
           calls |-> m.calls, told |-> m.told]
  BY <1>1 DEF ConnmanKnowledge
<1>3. c = [r EXCEPT !.told[s] = @ + n]
  BY DEF P!Connman!ContextCreate, P!Connman!Tell
<1> HIDE DEF r, c, n
<1>4. c = Put(m, s, [x EXCEPT !.context = ok], m.told[s] + n, m.calls)
  BY <1>2, <1>3 DEF Put
<1>5. P!Connman!ContextCreateOrInactive(m, s, ok)
        = IF ok THEN c ELSE [c EXCEPT !.services[s].current = "inactive"]
  BY DEF P!Connman!ContextCreateOrInactive, c
<1>6. ASSUME ~ok
      PROVE  [c EXCEPT !.services[s].current = "inactive"]
               = Put(m, s, [x EXCEPT !.context = ok, !.current = "inactive"], m.told[s] + n, m.calls)
  <2> DEFINE y == [x EXCEPT !.context = ok]
             f == [m.services EXCEPT ![s] = y]
  <2>1. /\ c = [services |-> f, calls |-> m.calls, told |-> [m.told EXCEPT ![s] = m.told[s] + n]]
        /\ f[s] = y
    BY <1>1, <1>4 DEF Put
  <2>2. [f EXCEPT ![s] = [y EXCEPT !.current = "inactive"]]
          = [m.services EXCEPT ![s] = [y EXCEPT !.current = "inactive"]]
    BY <1>1
  <2>3. [y EXCEPT !.current = "inactive"] = [x EXCEPT !.context = ok, !.current = "inactive"]
    BY <1>1 DEF P!Connman!CMService
  <2> HIDE DEF f, y
  <2> QED BY <2>1, <2>2, <2>3 DEF Put
<1>7. ASSUME ok
      PROVE  [x EXCEPT !.context = ok, !.current = x.current] = [x EXCEPT !.context = ok]
  BY Zenon, <1>1 DEF P!Connman!CMService
<1> QED BY Zenon, <1>4, <1>5, <1>6, <1>7 DEF c, n

\* Every change of a service that is there is one of these.
LEMMA PutThere ==
  ASSUME NEW m, Backing(m), NEW s \in Services, NEW x \in P!Connman!CMService, NEW n \in Int,
         m.services[s] # P!Connman!Absent, Backed(x, n)
  PROVE  LET r == Put(m, s, x, n, m.calls)
         IN /\ Backing(r) /\ Stay(m, r)
            /\ r \in ConnmanKnowledge /\ r.services[s] = x /\ r.told[s] = n
<1> DEFINE r == Put(m, s, x, n, m.calls)
<1>1. /\ x \in ServiceEntries /\ x # P!Connman!Absent
      /\ m \in ConnmanKnowledge /\ m.calls \subseteq P!Connman!Calls
      /\ m.services \in [Services -> ServiceEntries] /\ m.told \in [Services \cup {"lo"} -> Int]
  BY Zenon, ServiceIsThere, ServiceFields DEF Backing
<1>2. Backing(r) /\ r.services = [m.services EXCEPT ![s] = x]
  BY <1>1, PutKeeps
<1>3. r.told = [m.told EXCEPT ![s] = n]
  BY DEF Put
<1> HIDE DEF r
<1>4. r.services[s] = x /\ r.told[s] = n /\ \A t \in Services : t # s => r.services[t] = m.services[t]
  BY <1>1, <1>2, <1>3
<1> QED BY <1>1, <1>2, <1>4 DEF Stay, Backing, r

\* A context is created for an active service.
LEMMA CreateKeeps ==
  ASSUME NEW m, Backing(m), NEW s \in Services, m.services[s] # P!Connman!Absent,
         m.services[s].current = "active", NEW ok \in BOOLEAN
  PROVE  /\ Backing(P!Connman!ContextCreate(m, s, ok))
         /\ Stay(m, P!Connman!ContextCreate(m, s, ok))
         /\ Backing(P!Connman!ContextCreateOrInactive(m, s, ok))
         /\ Stay(m, P!Connman!ContextCreateOrInactive(m, s, ok))
<1> DEFINE x == m.services[s]
           n == m.told[s] + (IF ok THEN 1 ELSE 0)
           y == [x EXCEPT !.context = ok]
           z == [x EXCEPT !.context = ok, !.current = IF ok THEN @ ELSE "inactive"]
<1>1. m \in ConnmanKnowledge /\ x \in P!Connman!CMService /\ m.told[s] \in Int
  BY ServiceFields DEF Backing
<1>2. Backed(x, m.told[s])
  BY DEF Backing
<1>3. n \in Int /\ n >= 0 /\ (ok => n >= 1)
  BY <1>1, <1>2 DEF Backed
<1>4. y \in P!Connman!CMService /\ y.context = ok /\ y.current = "active"
  BY <1>1 DEF P!Connman!CMService
<1>5. z \in P!Connman!CMService /\ z.context = ok /\ (ok => z.current = "active")
  BY Zenon, <1>1 DEF P!Connman!CMService, P!Connman!States
<1>6. /\ P!Connman!ContextCreate(m, s, ok) = Put(m, s, y, n, m.calls)
      /\ P!Connman!ContextCreateOrInactive(m, s, ok) = Put(m, s, z, n, m.calls)
  BY Zenon, <1>1, ContextCreateIs
<1> HIDE DEF n, y, z
<1>7. Backed(y, n) /\ Backed(z, n)
  BY <1>3, <1>4, <1>5 DEF Backed
<1> QED BY <1>3, <1>4, <1>5, <1>6, <1>7, PutThere

\* The mark of a context
LEMMA ContextIs ==
  ASSUME NEW m \in ConnmanKnowledge, NEW s \in Services, m.services[s] # P!Connman!Absent,
         NEW has \in BOOLEAN
  PROVE  [m EXCEPT !.services[s].context = has]
           = [services |-> [m.services EXCEPT ![s] = [m.services[s] EXCEPT !.context = has]],
              calls |-> m.calls, told |-> m.told]
<1>1. /\ m.services \in [Services -> ServiceEntries]
      /\ m.services[s] \in P!Connman!CMService
  BY ServiceFields
<1> QED BY <1>1 DEF ConnmanKnowledge

\* service_context_delete()
LEMMA DeleteIs ==
  ASSUME NEW m \in ConnmanKnowledge, NEW s \in Services, m.services[s] # P!Connman!Absent
  PROVE  P!Connman!ContextDelete(m, s)
           = Put(m, s, [m.services[s] EXCEPT !.context = FALSE], m.told[s] + (-1), m.calls)
<1> DEFINE x == m.services[s]
           y == [x EXCEPT !.context = FALSE]
           r == [m EXCEPT !.services[s].context = FALSE]
           d == P!Connman!ContextDelete(m, s)
<1>1. /\ m.services \in [Services -> ServiceEntries] /\ m.told \in [Services \cup {"lo"} -> Int]
      /\ x \in P!Connman!CMService
  BY Zenon, ServiceFields
<1>2. r = [services |-> [m.services EXCEPT ![s] = y], calls |-> m.calls, told |-> m.told]
  BY Zenon, ContextIs
<1>3. d = [r EXCEPT !.told[s] = @ + (-1)]
  BY DEF P!Connman!ContextDelete, P!Connman!Tell
<1> HIDE DEF r, d, y
<1> QED BY Zenon, <1>2, <1>3 DEF Put, d, y

\* A context that is there is deleted.
LEMMA DeleteKeeps ==
  ASSUME NEW m, Backing(m), NEW s \in Services, m.services[s] # P!Connman!Absent,
         m.services[s].context
  PROVE  LET r == P!Connman!ContextDelete(m, s)
         IN /\ Backing(r) /\ Stay(m, r)
            /\ r.services[s] # P!Connman!Absent /\ r.services[s].current = m.services[s].current
            /\ ~r.services[s].context
<1> DEFINE x == m.services[s]
           y == [x EXCEPT !.context = FALSE]
           n == m.told[s] + (-1)
<1>1. /\ m \in ConnmanKnowledge /\ x \in P!Connman!CMService /\ m.told[s] \in Int
      /\ m.services \in [Services -> ServiceEntries] /\ m.told \in [Services \cup {"lo"} -> Int]
  BY Zenon, ServiceFields DEF Backing
<1>2. n \in Int /\ n >= 0
  <2>1. Backed(x, m.told[s])
    BY DEF Backing
  <2> QED BY <1>1, <2>1 DEF Backed
<1>3. /\ y \in P!Connman!CMService /\ y # P!Connman!Absent
      /\ ~y.context /\ y.current = x.current
  BY Zenon, <1>1, ServiceIsThere DEF P!Connman!CMService
<1>5. P!Connman!ContextDelete(m, s) = Put(m, s, y, n, m.calls)
  BY <1>1, DeleteIs
<1> HIDE DEF y, n
<1>6. Backed(y, n)
  BY <1>2, <1>3 DEF Backed
<1> QED BY <1>2, <1>3, <1>5, <1>6, PutThere

\* Another field is changed.
LEMMA FieldKeeps ==
  ASSUME NEW m, Backing(m), NEW s \in Services, m.services[s] # P!Connman!Absent,
         NEW y \in P!Connman!CMService, Backed(y, m.told[s])
  PROVE  LET r == [m EXCEPT !.services[s] = y]
         IN /\ Backing(r) /\ Stay(m, r)
            /\ r \in ConnmanKnowledge /\ r.services[s] = y /\ r.told[s] = m.told[s]
            /\ r.services[s] # P!Connman!Absent
<1>1. m \in ConnmanKnowledge /\ m.told[s] \in Int /\ m.told \in [Services \cup {"lo"} -> Int]
  BY Zenon, ServiceFields DEF Backing
<1>2. [m.told EXCEPT ![s] = m.told[s]] = m.told
  BY <1>1
<1>3. [m EXCEPT !.services[s] = y] = Put(m, s, y, m.told[s], m.calls)
  BY <1>1, <1>2 DEF ConnmanKnowledge, Put
<1> DEFINE r == [m EXCEPT !.services[s] = y]
<1> HIDE DEF r
<1>4. r = Put(m, s, y, m.told[s], m.calls)
  BY <1>3 DEF r
<1>5. /\ Backing(r) /\ Stay(m, r) /\ r \in ConnmanKnowledge
      /\ r.services[s] = y /\ r.told[s] = m.told[s]
  BY <1>1, <1>4, PutThere
<1>6. y # P!Connman!Absent
  BY ServiceIsThere
<1> QED BY <1>5, <1>6 DEF r

\* service_context_update()
LEMMA UpdateKeeps ==
  ASSUME NEW m, Backing(m), NEW s \in Services, m.services[s] # P!Connman!Absent,
         NEW new \in P!Connman!States
  PROVE  LET r == P!Connman!ContextUpdate(m, s, new)
         IN Backing(r) /\ Stay(m, r)
<1> DEFINE x == m.services[s]
           y == [x EXCEPT !.current = new, !.timeout = (new = "active")]
           now == [m EXCEPT !.services[s] = y]
           r == P!Connman!ContextUpdate(m, s, new)
<1>1. /\ m \in ConnmanKnowledge /\ x \in P!Connman!CMService
      /\ x.current \in {"inactive", "active"} /\ Backed(x, m.told[s]) /\ m.told[s] \in Int
      /\ m.services \in [Services -> ServiceEntries] /\ x.context \in BOOLEAN
  BY ServiceFields DEF Backing
<1>2. r = IF x.current = new THEN m
          ELSE IF new = "inactive" /\ x.context THEN P!Connman!ContextDelete(now, s) ELSE now
  <2>1. [m EXCEPT !.services[s].current = new, !.services[s].timeout = (new = "active")] = now
    <3> DEFINE a == [x EXCEPT !.current = new]
    <3>1. [[m.services EXCEPT ![s] = a] EXCEPT ![s] = [a EXCEPT !.timeout = (new = "active")]]
            = [m.services EXCEPT ![s] = y]
      BY <1>1
    <3>2. [m.services EXCEPT ![s] = a][s] = a
      BY <1>1
    <3> HIDE DEF a
    <3> QED BY Zenon, <1>1, <3>1, <3>2 DEF ConnmanKnowledge, a
  <2> QED BY <2>1 DEF P!Connman!ContextUpdate
<1>3. /\ y \in P!Connman!CMService /\ y.context = x.context /\ y.current = new
      /\ x # P!Connman!Absent /\ y # P!Connman!Absent
  BY Zenon, <1>1, ServiceIsThere DEF P!Connman!CMService
<1>4. x.current # new /\ ~(new = "inactive" /\ x.context) => Backed(y, m.told[s])
  BY <1>1, <1>3 DEF Backed, P!Connman!States
<1> HIDE DEF y, r
<1>5. CASE x.current = new
  BY <1>2, <1>5 DEF Stay, r
<1>6. CASE x.current # new /\ ~(new = "inactive" /\ x.context)
  <2>1. Backing(now) /\ Stay(m, now)
    BY <1>1, <1>3, <1>4, <1>6, FieldKeeps
  <2> QED BY <1>2, <1>6, <2>1 DEF r
<1>7. CASE x.current # new /\ new = "inactive" /\ x.context
  <2> DEFINE n == m.told[s] + (-1)
             z == [y EXCEPT !.context = FALSE]
             p == Put(m, s, y, m.told[s], m.calls)
  <2>1. now = p
    <3>1. [m.told EXCEPT ![s] = m.told[s]] = m.told
      BY <1>1, ServiceFields
    <3> QED BY <1>1, <3>1 DEF ConnmanKnowledge, Put
  <2>2. p \in ConnmanKnowledge /\ p.services[s] = y /\ p.told[s] = m.told[s] /\ p.calls = m.calls
    BY <1>1, <1>3, ServiceFields, ServiceIsThere DEF Put, ConnmanKnowledge
  <2>3. r = Put(p, s, z, n, m.calls)
    <3>1. p.services[s] # P!Connman!Absent
      BY <1>3, <2>2
    <3>2. P!Connman!ContextDelete(p, s) = Put(p, s, z, n, m.calls)
      <4> HIDE DEF p
      <4> QED BY <2>2, <3>1, DeleteIs
    <3> QED BY <1>2, <1>7, <2>1, <3>2
  <2>4. Put(p, s, z, n, m.calls) = Put(m, s, z, n, m.calls)
    <3>1. /\ [[m.services EXCEPT ![s] = y] EXCEPT ![s] = z] = [m.services EXCEPT ![s] = z]
          /\ [[m.told EXCEPT ![s] = m.told[s]] EXCEPT ![s] = n] = [m.told EXCEPT ![s] = n]
      BY <1>1, ServiceFields
    <3> QED BY Zenon, <3>1 DEF Put
  <2>5. z \in P!Connman!CMService /\ ~z.context
    BY Zenon, <1>3 DEF P!Connman!CMService
  <2>6. n \in Int /\ n >= 0
    BY <1>1, <1>7 DEF Backed
  <2> HIDE DEF z, n
  <2>7. Backed(z, n)
    BY <2>5, <2>6 DEF Backed
  <2>8. Backing(Put(m, s, z, n, m.calls)) /\ Stay(m, Put(m, s, z, n, m.calls))
    BY <2>5, <2>6, <2>7, PutThere
  <2> QED BY <2>3, <2>4, <2>8 DEF r
<1> QED BY <1>5, <1>6, <1>7 DEF r

\* The interface of a service changes.
LEMMA InterfaceKeeps ==
  ASSUME NEW m, Backing(m), NEW s \in Services, m.services[s] # P!Connman!Absent,
         NEW iface \in Interfaces, NEW ok \in BOOLEAN
  PROVE  LET r == P!Connman!InterfaceChange(m, s, iface, ok)
         IN Backing(r) /\ Stay(m, r)
<1> DEFINE x == m.services[s]
           y == [x EXCEPT !.iface = iface]
           now == [m EXCEPT !.services[s] = y]
           d == P!Connman!ContextDelete(now, s)
           r == P!Connman!InterfaceChange(m, s, iface, ok)
<1>1. /\ m \in ConnmanKnowledge /\ x \in P!Connman!CMService
      /\ x.context \in BOOLEAN /\ Backed(x, m.told[s])
  BY ServiceFields DEF Backing
<1>2. r = IF x.iface # iface /\ x.context THEN P!Connman!ContextCreate(d, s, ok) ELSE now
  BY DEF P!Connman!InterfaceChange
<1>3. /\ y \in P!Connman!CMService /\ y.context = x.context /\ y.current = x.current
      /\ x # P!Connman!Absent /\ y # P!Connman!Absent
  BY <1>1, ServiceIsThere DEF P!Connman!CMService
<1> HIDE DEF y, r
<1>4. Backed(y, m.told[s])
  BY <1>1, <1>3 DEF Backed
<1>5. /\ Backing(now) /\ Stay(m, now) /\ now.services[s] = y
  BY <1>1, <1>3, <1>4, FieldKeeps
<1>6. CASE ~(x.iface # iface /\ x.context)
  BY <1>2, <1>5, <1>6 DEF r
<1>7. CASE x.iface # iface /\ x.context
  <2> HIDE DEF now
  <2>1. now.services[s] # P!Connman!Absent /\ now.services[s].context
        /\ now.services[s].current = "active"
    BY Zenon, <1>1, <1>3, <1>5, <1>7 DEF Backed
  <2>2. /\ Backing(d) /\ Stay(now, d)
        /\ d.services[s] # P!Connman!Absent /\ d.services[s].current = "active"
    BY <1>5, <2>1, DeleteKeeps
  <2> HIDE DEF d
  <2>3. Backing(r) /\ Stay(d, r)
    BY <1>2, <1>7, <2>2, CreateKeeps
  <2> QED BY <1>5, <2>2, <2>3 DEF Stay, r
<1> QED BY <1>6, <1>7

\* cm_service_add()
LEMMA AddKeeps ==
  ASSUME NEW m, Backing(m), NEW s \in Services, m.services[s] = P!Connman!Absent,
         NEW info \in Infos
  PROVE  LET r == P!Connman!ServiceAdd(m, s, info)
         IN Backing(r) /\ Stay(m, r)
<1> DEFINE x == [current |-> info.state, iface |-> info.iface, proxy |-> FALSE,
                 context |-> FALSE, timeout |-> FALSE]
           calls == m.calls \cup {[call |-> "proxy", service |-> s]}
           r == P!Connman!ServiceAdd(m, s, info)
<1>1. /\ m \in ConnmanKnowledge /\ m.services \in [Services -> ServiceEntries]
      /\ m.calls \subseteq P!Connman!Calls /\ m.told \in [Services \cup {"lo"} -> Int]
      /\ m.told[s] \in Int /\ Backed(m.services[s], m.told[s])
  BY Zenon, ServiceFields DEF Backing
<1>2. x \in P!Connman!CMService /\ ~x.context
  BY DEF P!Connman!CMService, Infos
<1>3. x \in ServiceEntries /\ x # P!Connman!Absent
  BY Zenon, <1>2, ServiceIsThere
<1>4. calls \subseteq P!Connman!Calls
  BY <1>1 DEF P!Connman!Calls
<1>5. r = Put(m, s, x, m.told[s], calls)
  <2>1. [m.told EXCEPT ![s] = m.told[s]] = m.told
    BY <1>1
  <2> HIDE DEF x
  <2>2. r = [m EXCEPT !.services[s] = x, !.calls = calls]
    BY DEF P!Connman!ServiceAdd, x
  <2> HIDE DEF r, calls
  <2> QED BY Zenon, <1>1, <2>1, <2>2 DEF ConnmanKnowledge, Put
<1>6. Backed(x, m.told[s])
  BY <1>1, <1>2 DEF Backed
<1>7. \A t \in Services : [call |-> "proxy", service |-> t] \in calls =>
          t = s \/ [call |-> "proxy", service |-> t] \in m.calls
  OBVIOUS
<1> HIDE DEF x, calls, r
<1>8. Backing(r) /\ r.services = [m.services EXCEPT ![s] = x]
  BY <1>1, <1>3, <1>4, <1>5, <1>6, <1>7, PutKeeps
<1>9. Stay(m, r)
  BY <1>1, <1>3, <1>8 DEF Stay
<1> QED BY <1>8, <1>9 DEF r

\* services_array_add() for one service
LEMMA ServiceUpdateKeeps ==
  ASSUME NEW m, Backing(m), NEW s \in Services, NEW info \in Infos, NEW ok \in BOOLEAN
  PROVE  LET r == P!Connman!ServiceUpdate(m, s, info, ok)
         IN Backing(r) /\ Stay(m, r)
<1> DEFINE i == P!Connman!InterfaceChange(m, s, info.iface, ok)
           r == P!Connman!ServiceUpdate(m, s, info, ok)
<1>1. info.state \in P!Connman!States /\ info.iface \in Interfaces
  BY DEF Infos
<1>2. r = IF m.services[s] = P!Connman!Absent THEN P!Connman!ServiceAdd(m, s, info)
          ELSE P!Connman!ContextUpdate(i, s, info.state)
  BY DEF P!Connman!ServiceUpdate
<1> HIDE DEF r
<1>3. CASE m.services[s] = P!Connman!Absent
  BY <1>2, <1>3, AddKeeps DEF r
<1>4. CASE m.services[s] # P!Connman!Absent
  <2>1. Backing(i) /\ Stay(m, i)
    BY <1>1, <1>4, InterfaceKeeps
  <2> HIDE DEF i
  <2>2. i.services[s] # P!Connman!Absent
    BY <1>4, <2>1 DEF Stay
  <2>3. Backing(r) /\ Stay(i, r)
    BY <1>1, <1>2, <1>4, <2>1, <2>2, UpdateKeeps
  <2> QED BY <2>1, <2>3 DEF Stay, r
<1> QED BY <1>3, <1>4

\* cm_service_free()
LEMMA ServiceFreeKeeps ==
  ASSUME NEW m, Backing(m), NEW s \in Services
  PROVE  LET r == P!Connman!ServiceFree(m, s)
         IN /\ Backing(r)
            /\ \A t \in Services : t # s => r.services[t] = m.services[t]
<1> DEFINE x == m.services[s]
           calls == {c \in m.calls : c.call = "GetServices" \/ c.service # s}
           freed == [m EXCEPT !.services[s] = P!Connman!Absent, !.calls = calls]
           r == P!Connman!ServiceFree(m, s)
           n == IF x # P!Connman!Absent /\ x.context THEN m.told[s] + (-1) ELSE m.told[s]
<1>1. /\ m \in ConnmanKnowledge /\ m.services \in [Services -> ServiceEntries]
      /\ m.calls \subseteq P!Connman!Calls /\ m.told \in [Services \cup {"lo"} -> Int]
      /\ m.told[s] \in Int /\ Backed(x, m.told[s])
  BY Zenon, ServiceFields DEF Backing
<1>2. n \in Int /\ n >= 0
  BY <1>1 DEF Backed
<1>3. r = Put(m, s, P!Connman!Absent, n, calls)
  <2>1. r = IF x # P!Connman!Absent /\ x.context THEN P!Connman!Tell(freed, s, -1) ELSE freed
    BY DEF P!Connman!ServiceFree
  <2>2. freed = Put(m, s, P!Connman!Absent, m.told[s], calls)
    <3> HIDE DEF calls
    <3>1. freed = WithCalls(m, s, P!Connman!Absent, calls)
      BY DEF WithCalls
    <3> HIDE DEF freed
    <3> QED BY <1>1, <3>1, ServiceAndCalls
  <2>3. [m.told EXCEPT ![s] = m.told[s]] = m.told
    BY <1>1
  <2> HIDE DEF r, calls, freed
  <2> QED BY <1>1, <2>1, <2>2, <2>3 DEF Put, P!Connman!Tell
<1>4. calls \subseteq P!Connman!Calls
  BY <1>1
<1>5. \A t \in Services : [call |-> "proxy", service |-> t] \in calls =>
          t # s /\ [call |-> "proxy", service |-> t] \in m.calls
  OBVIOUS
<1>6. P!Connman!Absent \in ServiceEntries /\ Backed(P!Connman!Absent, n)
  BY <1>2 DEF ServiceEntries, Backed
<1> HIDE DEF r, calls, n
<1>7. Backing(r) /\ r.services = [m.services EXCEPT ![s] = P!Connman!Absent]
  BY <1>2, <1>3, <1>4, <1>5, <1>6, PutKeeps
<1> QED BY <1>1, <1>7 DEF r

\* service_proxy_new_cb() and cm_service_use()
LEMMA ServiceUseKeeps ==
  ASSUME NEW m, Backing(m), NEW s \in Services, m.services[s] # P!Connman!Absent,
         NEW ok \in BOOLEAN
  PROVE  LET r == P!Connman!ServiceUse(m, s, ok)
         IN Backing(r) /\ Stay(m, r)
<1> DEFINE x == m.services[s]
           y == [x EXCEPT !.proxy = TRUE]
           calls == m.calls \cup {[call |-> "GetProperties", service |-> s]}
           used == [m EXCEPT !.services[s] = y, !.calls = calls]
           r == P!Connman!ServiceUse(m, s, ok)
<1>1. /\ m \in ConnmanKnowledge /\ m.services \in [Services -> ServiceEntries]
      /\ m.calls \subseteq P!Connman!Calls /\ m.told \in [Services \cup {"lo"} -> Int]
      /\ m.told[s] \in Int /\ Backed(x, m.told[s]) /\ x \in P!Connman!CMService
  BY Zenon, ServiceFields DEF Backing
<1>2. r = IF x.current = "active" THEN P!Connman!ContextCreateOrInactive(used, s, ok) ELSE used
  BY DEF P!Connman!ServiceUse
<1>3. used = Put(m, s, y, m.told[s], calls)
  <2> HIDE DEF y, calls
  <2>1. used = WithCalls(m, s, y, calls)
    BY DEF WithCalls
  <2> HIDE DEF used
  <2> QED BY <1>1, <2>1, ServiceAndCalls
<1>4. calls \subseteq P!Connman!Calls
  BY <1>1 DEF P!Connman!Calls
<1>5. \A t \in Services : [call |-> "proxy", service |-> t] \in calls =>
          [call |-> "proxy", service |-> t] \in m.calls
  OBVIOUS
<1>6. /\ y \in P!Connman!CMService /\ y.context = x.context /\ y.current = x.current
      /\ y \in ServiceEntries /\ y # P!Connman!Absent
  <2>1. y \in P!Connman!CMService /\ y.context = x.context /\ y.current = x.current
    BY Zenon, <1>1 DEF P!Connman!CMService
  <2> QED BY Zenon, <2>1, ServiceIsThere
<1> HIDE DEF r, calls, y, used
<1>7. Backed(y, m.told[s])
  BY <1>1, <1>6 DEF Backed
<1>8. Backing(used) /\ used.services = [m.services EXCEPT ![s] = y]
  BY <1>1, <1>3, <1>4, <1>5, <1>6, <1>7, PutKeeps
<1>9. Stay(m, used) /\ used.services[s] = y
  BY <1>1, <1>6, <1>8 DEF Stay
<1>10. CASE x.current = "active"
  <2>1. Backing(r) /\ Stay(used, r)
    BY Zenon, <1>2, <1>6, <1>8, <1>9, <1>10, CreateKeeps
  <2> QED BY <1>9, <2>1 DEF Stay, r
<1>11. CASE x.current # "active"
  BY <1>2, <1>8, <1>9, <1>11 DEF r
<1> QED BY <1>10, <1>11

\* on_service_property_changed() and get_properties_cb()
LEMMA PropertiesKeep ==
  ASSUME NEW m, Backing(m), NEW msg, msg.service \in Services, msg.info \in Infos,
         NEW ok \in BOOLEAN
  PROVE  LET r == P!Connman!PropertiesChanged(m, msg, ok)
         IN Backing(r) /\ Stay(m, r)
<1> DEFINE s == msg.service
           i == P!Connman!InterfaceChange(m, s, msg.info.iface, ok)
           r == P!Connman!PropertiesChanged(m, msg, ok)
<1>1. s \in Services /\ msg.info.state \in P!Connman!States /\ msg.info.iface \in Interfaces
  BY DEF Infos
<1>2. r = IF m.services[s] = P!Connman!Absent \/ ~m.services[s].proxy THEN m
          ELSE P!Connman!ContextUpdate(i, s, msg.info.state)
  BY DEF P!Connman!PropertiesChanged
<1> HIDE DEF r
<1>3. CASE m.services[s] = P!Connman!Absent \/ ~m.services[s].proxy
  BY <1>2, <1>3 DEF r, Stay
<1>4. CASE ~(m.services[s] = P!Connman!Absent \/ ~m.services[s].proxy)
  <2> HIDE DEF s
  <2>1. Backing(i) /\ Stay(m, i)
    BY <1>1, <1>4, InterfaceKeeps
  <2> HIDE DEF i
  <2>2. i.services[s] # P!Connman!Absent
    BY <1>1, <1>4, <2>1 DEF Stay
  <2>3. Backing(r) /\ Stay(i, r)
    BY <1>1, <1>2, <1>4, <2>1, <2>2, UpdateKeeps
  <2> QED BY <2>1, <2>3 DEF Stay, r
<1> QED BY <1>3, <1>4

-----------------------------------------------------------------------------
\* services_array_add(): the whole array, one by one
LEMMA UpdatedKeeps ==
  ASSUME NEW m, Backing(m), NEW q \in Seq(Services), NEW infos, NEW ok \in BOOLEAN,
         \A n \in 1 .. Len(q) : infos[q[n]] \in Infos
  PROVE  LET r == P!Connman!Updated(m, infos, q, ok)
         IN Backing(r) /\ Stay(m, r)
<1> DEFINE Q == Len(q)
           K == {x \in ConnmanKnowledge : Backing(x) /\ Stay(m, x)}
           New(x, n) == P!Connman!ServiceUpdate(x, q[n], infos[q[n]], ok)
           step == [p \in (1 .. Q) \X K |-> New(p[2], p[1])]
           after[n \in 0 .. Q] == IF n = 0 THEN m ELSE New(after[n - 1], n)
<1>1. Q \in Nat /\ \A n \in 1 .. Q : q[n] \in Services
  OBVIOUS
<1>2. m \in K
  BY DEF Backing, Stay
<1>3. ASSUME NEW n \in 1 .. Q, NEW x \in K PROVE New(x, n) \in K
  <2>1. Backing(New(x, n)) /\ Stay(x, New(x, n))
    BY <1>1, ServiceUpdateKeeps
  <2> HIDE DEF New
  <2> QED BY <2>1 DEF Stay, Backing
<1> HIDE DEF New, K, Q
<1>4. step \in [(1 .. Q) \X K -> K]
  BY <1>3
<1>5. PICK g : Repeats(g, K, m, Q, step)
  <2> HIDE DEF step
  <2> QED BY Zenon, <1>1, <1>2, <1>4, Iteration
<1>6. g \in [0 .. Q -> K] /\ g[0] = m
  BY <1>5 DEF Repeats
<1>7. ASSUME NEW n \in 1 .. Q PROVE g[n - 1] \in K /\ g[n] = New(g[n - 1], n)
  <2>1. g[n - 1] \in K
    BY <1>1, <1>6
  <2>2. g[n] = step[<<n, g[n - 1]>>]
    BY Zenon, <1>5 DEF Repeats
  <2> QED BY <2>1, <2>2
<1>8. g = [n \in 0 .. Q |-> IF n = 0 THEN m ELSE New(g[n - 1], n)]
  BY <1>6, <1>7
<1>9. after = [n \in 0 .. Q |-> IF n = 0 THEN m ELSE New(after[n - 1], n)]
  BY Zenon, <1>8
<1>10. P!Connman!Updated(m, infos, q, ok) = after[Q]
  BY DEF P!Connman!Updated, New, Q
<1> HIDE DEF after
<1>11. after[0] = m /\ \A n \in 1 .. Q : after[n] = New(after[n - 1], n)
  BY <1>1, <1>9
<1> DEFINE T == {n \in 0 .. Q : after[n] \in K}
<1>12. 0 \in T
  BY <1>1, <1>2, <1>11
<1>13. ASSUME NEW n \in 1 .. Q, n - 1 \in T PROVE n \in T
  BY <1>3, <1>11, <1>13
<1>14. Q \in T
  <2>1. Q \in 0 .. Q BY <1>1
  <2> HIDE DEF T
  <2> QED BY Zenon, <1>1, <1>12, <1>13, <2>1, Induction
<1> QED BY <1>10, <1>14 DEF K

\* gupnp_connman_manager_dispose() frees all.
LEMMA AllFreed ==
  ASSUME NEW m, Backing(m), NEW q \in Seq(Services)
  PROVE  Backing(P!Connman!Freed(m, q))
<1> DEFINE Q == Len(q)
           K == {x \in ConnmanKnowledge : Backing(x)}
           New(x, n) == P!Connman!ServiceFree(x, q[n])
           step == [p \in (1 .. Q) \X K |-> New(p[2], p[1])]
           after[n \in 0 .. Q] == IF n = 0 THEN m ELSE New(after[n - 1], n)
<1>1. Q \in Nat /\ \A n \in 1 .. Q : q[n] \in Services
  OBVIOUS
<1>2. m \in K
  BY DEF Backing
<1>3. ASSUME NEW n \in 1 .. Q, NEW x \in K PROVE New(x, n) \in K
  <2>1. Backing(New(x, n))
    BY <1>1, ServiceFreeKeeps
  <2> HIDE DEF New
  <2> QED BY <2>1 DEF Backing
<1> HIDE DEF New, K, Q
<1>4. step \in [(1 .. Q) \X K -> K]
  BY <1>3
<1>5. PICK g : Repeats(g, K, m, Q, step)
  <2> HIDE DEF step
  <2> QED BY Zenon, <1>1, <1>2, <1>4, Iteration
<1>6. g \in [0 .. Q -> K] /\ g[0] = m
  BY <1>5 DEF Repeats
<1>7. ASSUME NEW n \in 1 .. Q PROVE g[n - 1] \in K /\ g[n] = New(g[n - 1], n)
  <2>1. g[n - 1] \in K
    BY <1>1, <1>6
  <2>2. g[n] = step[<<n, g[n - 1]>>]
    BY Zenon, <1>5 DEF Repeats
  <2> QED BY <2>1, <2>2
<1>8. g = [n \in 0 .. Q |-> IF n = 0 THEN m ELSE New(g[n - 1], n)]
  BY <1>6, <1>7
<1>9. after = [n \in 0 .. Q |-> IF n = 0 THEN m ELSE New(after[n - 1], n)]
  BY Zenon, <1>8
<1>10. P!Connman!Freed(m, q) = after[Q]
  BY DEF P!Connman!Freed, New, Q
<1> HIDE DEF after
<1>11. after[0] = m /\ \A n \in 1 .. Q : after[n] = New(after[n - 1], n)
  BY <1>1, <1>9
<1> DEFINE T == {n \in 0 .. Q : after[n] \in K}
<1>12. 0 \in T
  BY <1>1, <1>2, <1>11
<1>13. ASSUME NEW n \in 1 .. Q, n - 1 \in T PROVE n \in T
  BY <1>3, <1>11, <1>13
<1>14. Q \in T
  <2>1. Q \in 0 .. Q BY <1>1
  <2> HIDE DEF T
  <2> QED BY Zenon, <1>1, <1>12, <1>13, <2>1, Induction
<1> QED BY <1>10, <1>14 DEF K

\* The message that is read
LEMMA HandleKeeps ==
  ASSUME NEW m, Backing(m), NEW msg \in ConnmanMessages, NEW ok \in BOOLEAN,
         msg.type = "proxy" => m.services[msg.service] # P!Connman!Absent
  PROVE  LET r == P!Connman!Handle(m, msg, ok)
         IN /\ Backing(r)
            /\ msg.type # "removed" => Stay(m, r)
            /\ msg.type = "removed" =>
                  /\ msg.service \in Services
                  /\ \A t \in Services : t # msg.service => r.services[t] = m.services[t]
<1> DEFINE r == P!Connman!Handle(m, msg, ok)
<1>1. CASE msg.type = "services"
  <2> DEFINE X == {s \in Services : msg.infos[s].state # "none"}
             q == P!Connman!SetToSeq(X)
  <2>1. msg.infos \in [Services -> AllInfos]
    BY <1>1 DEF ConnmanMessages
  <2>2. q \in Seq(X)
    <3>1. IsFiniteSet(X)
      BY PartsAssumption, FS_Subset
    <3>2. q = P!Linux!SetToSeq(X)
      BY DEF P!Connman!SetToSeq, P!Linux!SetToSeq, P!Connman!IsInjective, P!Linux!IsInjective,
             P!Connman!Cardinality, P!Linux!Cardinality
    <3> HIDE DEF X, q
    <3> QED BY <3>1, <3>2, OrderFacts
  <2>3. \A n \in 1 .. Len(q) : q[n] \in X
    <3> HIDE DEF X, q
    <3> QED BY <2>2
  <2>4. \A s \in X : msg.infos[s] \in Infos
    BY <2>1 DEF AllInfos, Infos
  <2>5. r = P!Connman!Updated(m, msg.infos, q, ok)
    BY <1>1 DEF P!Connman!Handle
  <2>6. q \in Seq(Services)
    <3>1. X \subseteq Services OBVIOUS
    <3> HIDE DEF X, q
    <3> QED BY <2>2, <3>1
  <2> HIDE DEF X, q, r
  <2>7. Backing(r) /\ Stay(m, r)
    BY <2>3, <2>4, <2>5, <2>6, UpdatedKeeps
  <2> QED BY <1>1, <2>7 DEF r
<1>2. CASE msg.type = "added"
  <2>1. msg.service \in Services /\ msg.info \in Infos
    BY <1>2 DEF ConnmanMessages
  <2>2. r = P!Connman!ServiceUpdate(m, msg.service, msg.info, ok)
    BY <1>2 DEF P!Connman!Handle
  <2> HIDE DEF r
  <2> QED BY <1>2, <2>1, <2>2, ServiceUpdateKeeps DEF r
<1>3. CASE msg.type = "removed"
  <2>1. msg.service \in Services
    BY <1>3 DEF ConnmanMessages
  <2>2. r = P!Connman!ServiceFree(m, msg.service)
    BY <1>3 DEF P!Connman!Handle
  <2> HIDE DEF r
  <2> QED BY <1>3, <2>1, <2>2, ServiceFreeKeeps DEF r
<1>4. CASE msg.type = "proxy"
  <2>1. msg.service \in Services
    BY <1>4 DEF ConnmanMessages
  <2>2. r = P!Connman!ServiceUse(m, msg.service, ok)
    BY <1>4 DEF P!Connman!Handle
  <2> HIDE DEF r
  <2> QED BY <1>4, <2>1, <2>2, ServiceUseKeeps DEF r
<1>5. CASE msg.type \in {"reply", "properties"}
  <2>1. msg.service \in Services /\ msg.info \in Infos
    BY <1>5 DEF ConnmanMessages
  <2>2. r = P!Connman!PropertiesChanged(m, msg, ok)
    BY <1>5 DEF P!Connman!Handle
  <2> HIDE DEF r
  <2> QED BY <1>5, <2>1, <2>2, PropertiesKeep DEF r
<1>6. msg.type \in {"services", "added", "removed", "proxy", "reply", "properties"}
  BY DEF ConnmanMessages
<1> QED BY <1>1, <1>2, <1>3, <1>4, <1>5, <1>6

-----------------------------------------------------------------------------
\* A message that creates a proxy is for a service that is there.
Wanted(msg, services) ==
    msg.type = "proxy" => services[msg.service] # P!Connman!Absent

\* Each service that has a context is active and its context was announced, whatever
\* is still on the bus; calls and messages for services that were freed are gone.
ConnmanInv ==
    /\ os \in [Services -> AllInfos]
    /\ manager \in [services : [Services -> ServiceEntries], calls : SUBSET P!Connman!Calls,
                    idle : BOOLEAN]
    /\ Backing(P!Connman!Known)
    /\ disposed \in BOOLEAN
    /\ ~disposed => /\ queue \in Seq(ConnmanMessages)
                    /\ \A k \in 1 .. Len(queue) : Wanted(queue[k], manager.services)

\* It says what the run checks.
LEMMA ConnmanInvTells == ConnmanInv => P!Connman!TypeOK /\ P!Connman!HeldOnlyWhenActive
<1> SUFFICES ASSUME ConnmanInv PROVE P!Connman!TypeOK /\ P!Connman!HeldOnlyWhenActive
  OBVIOUS
<1> DEFINE m == P!Connman!Known
<1>1. m.services = manager.services /\ m.told = told /\ m.calls = manager.calls
  BY DEF P!Connman!Known
<1>2. Backing(m)
  BY DEF ConnmanInv
<1> HIDE DEF m
<1>3. told \in [Services \cup {"lo"} -> Int]
  BY <1>1, <1>2 DEF Backing, ConnmanKnowledge
<1>4. P!Connman!TypeOK
  BY <1>3 DEF ConnmanInv, P!Connman!TypeOK, ServiceEntries, AllInfos
<1>5. ASSUME NEW s \in Services PROVE Backed(manager.services[s], told[s])
  BY <1>1, <1>2 DEF Backing
<1>6. P!Connman!HeldOnlyWhenActive
  BY <1>5 DEF Backed, P!Connman!HeldOnlyWhenActive
<1> QED BY <1>4, <1>6

\* It holds at first.
LEMMA InitConnman == P!Connman!Init => ConnmanInv
<1> SUFFICES ASSUME P!Connman!Init PROVE ConnmanInv
  OBVIOUS
<1> DEFINE m == P!Connman!Known
           GetServices == [call |-> "GetServices"]
<1>1. /\ m = [services |-> [s \in Services |-> P!Connman!Absent], calls |-> {GetServices},
              told |-> [s \in Services \cup {"lo"} |-> 0]]
      /\ manager = [services |-> [s \in Services |-> P!Connman!Absent], calls |-> {GetServices},
                    idle |-> TRUE]
  BY DEF P!Connman!Init, P!Connman!Known
<1>2. {GetServices} \subseteq P!Connman!Calls
  BY DEF P!Connman!Calls
<1>3. \A s \in Services : [call |-> "proxy", service |-> s] \notin {GetServices}
  <2>1. \A s \in Services : [call |-> "proxy", service |-> s].call # GetServices.call
    OBVIOUS
  <2> QED BY <2>1
<1> HIDE DEF m, GetServices
<1>4. m \in ConnmanKnowledge
  BY <1>1, <1>2 DEF ConnmanKnowledge, ServiceEntries
<1>5. Backing(m)
  BY <1>1, <1>3, <1>4 DEF Backing, Backed
<1>6. os \in [Services -> AllInfos] /\ queue = <<>> /\ disposed = FALSE
  BY DEF P!Connman!Init, AllInfos
<1>7. manager \in [services : [Services -> ServiceEntries], calls : SUBSET P!Connman!Calls,
                    idle : BOOLEAN]
  BY <1>1, <1>2 DEF ServiceEntries
<1>8. queue \in Seq(ConnmanMessages) /\ \A k \in 1 .. Len(queue) : Wanted(queue[k], manager.services)
  <2>1. <<>> \in Seq(ConnmanMessages) /\ Len(<<>>) = 0
    OBVIOUS
  <2> QED BY <1>6, <2>1
<1> QED BY Zenon, <1>5, <1>6, <1>7, <1>8 DEF ConnmanInv, m

\* What is left on the bus when the calls of a service are cancelled
LEMMA CancelledFacts ==
  ASSUME NEW q \in Seq(ConnmanMessages), NEW s
  PROVE  LET r == P!Connman!Cancelled(q, s)
         IN /\ r \in Seq(ConnmanMessages)
            /\ \A k \in 1 .. Len(r) :
                  /\ \E j \in 1 .. Len(q) : r[k] = q[j]
                  /\ r[k].type = "proxy" => r[k].service # s
<1> DEFINE Q == Len(q)
           M == ConnmanMessages
           K == Seq(M)
           Gone(n) == q[n].type \in {"proxy", "reply"} /\ q[n].service = s
           New(x, n) == IF Gone(n) THEN x ELSE Append(x, q[n])
           step == [p \in (1 .. Q) \X K |-> New(p[2], p[1])]
           after[n \in 0 .. Q] == IF n = 0 THEN <<>> ELSE New(after[n - 1], n)
<1>1. Q \in Nat /\ \A n \in 1 .. Q : q[n] \in M
  OBVIOUS
<1>2. <<>> \in K
  OBVIOUS
<1>3. ASSUME NEW n \in 1 .. Q, NEW x \in K PROVE New(x, n) \in K
  <2>1. q[n] \in M BY <1>1
  <2> HIDE DEF M, Gone
  <2> QED BY <2>1
<1> HIDE DEF Gone, Q
<1>4. step \in [(1 .. Q) \X K -> K]
  <2> HIDE DEF New, K
  <2> QED BY <1>3
<1>5. PICK g : Repeats(g, K, <<>>, Q, step)
  <2> HIDE DEF step, K
  <2> QED BY Zenon, <1>1, <1>2, <1>4, Iteration
<1>6. g \in [0 .. Q -> K] /\ g[0] = <<>>
  <2> HIDE DEF step, K
  <2> QED BY <1>5 DEF Repeats
<1>7. ASSUME NEW n \in 1 .. Q PROVE g[n - 1] \in K /\ g[n] = New(g[n - 1], n)
  <2>1. g[n - 1] \in K
    <3> HIDE DEF K
    <3> QED BY <1>1, <1>6
  <2>2. g[n] = step[<<n, g[n - 1]>>]
    BY Zenon, <1>5 DEF Repeats
  <2> HIDE DEF K, New
  <2> QED BY <2>1, <2>2
<1> HIDE DEF New
<1>8. g = [n \in 0 .. Q |-> IF n = 0 THEN <<>> ELSE New(g[n - 1], n)]
  <2> HIDE DEF K
  <2> QED BY <1>6, <1>7
<1>9. after = [n \in 0 .. Q |-> IF n = 0 THEN <<>> ELSE New(after[n - 1], n)]
  BY Zenon, <1>8
<1>10. P!Connman!Cancelled(q, s) = after[Q]
  BY DEF P!Connman!Cancelled, New, Gone, Q
<1> HIDE DEF after
<1>11. after[0] = <<>> /\ \A n \in 1 .. Q : after[n] = New(after[n - 1], n)
  BY <1>1, <1>9
<1> DEFINE Good(x) == \A k \in 1 .. Len(x) : /\ \E j \in 1 .. Q : x[k] = q[j]
                                             /\ x[k].type = "proxy" => x[k].service # s
           T == {n \in 0 .. Q : after[n] \in K /\ Good(after[n])}
<1>12. 0 \in T
  <2>1. <<>> \in K /\ Good(<<>>) /\ 0 \in 0 .. Q
    BY <1>1
  <2> HIDE DEF K, Good
  <2> QED BY <2>1, <1>11
<1>13. ASSUME NEW n \in 1 .. Q, n - 1 \in T PROVE n \in T
  <2> DEFINE x == after[n - 1]
             y == after[n]
             e == q[n]
  <2>1. x \in K /\ Good(x) /\ y = New(x, n) /\ n \in 0 .. Q /\ e \in M
    BY <1>1, <1>11, <1>13
  <2>2. CASE Gone(n)
    <3>1. y = x BY <2>1, <2>2 DEF New
    <3> HIDE DEF x, y
    <3> QED BY <2>1, <3>1 DEF y
  <2>3. CASE ~Gone(n)
    <3>1. y = Append(x, e) BY <2>1, <2>3 DEF New
    <3>2. e.type = "proxy" => e.service # s
      BY <2>3 DEF Gone
    <3> HIDE DEF x, y, M, e
    <3>3. y \in Seq(M) /\ Len(x) \in Nat /\ Len(y) = Len(x) + 1
          /\ y[Len(x) + 1] = e /\ \A k \in 1 .. Len(x) : y[k] = x[k]
      BY <2>1, <3>1
    <3>4. ASSUME NEW k \in 1 .. Len(y)
          PROVE  (\E j \in 1 .. Q : y[k] = q[j]) /\ (y[k].type = "proxy" => y[k].service # s)
      <4>1. k \in 1 .. Len(x) \/ k = Len(x) + 1 BY <3>3
      <4>2. CASE k \in 1 .. Len(x)
        BY Zenon, <2>1, <3>3, <4>2
      <4>3. CASE k = Len(x) + 1
        BY <2>1, <3>2, <3>3, <4>3 DEF e
      <4> QED BY <4>1, <4>2, <4>3
    <3> QED BY Zenon, <2>1, <3>3, <3>4 DEF y
  <2> QED BY <2>2, <2>3
<1>14. Q \in T
  <2>1. Q \in 0 .. Q BY <1>1
  <2> HIDE DEF T
  <2> QED BY Zenon, <1>1, <1>12, <1>13, <2>1, Induction
<1> HIDE DEF K, Good
<1>15. after[Q] \in K /\ Good(after[Q])
  BY <1>14
<1> QED BY <1>10, <1>15 DEF K, Good, Q

\* What it consists of
LEMMA ConnmanInvParts ==
  ASSUME ConnmanInv
  PROVE  /\ os \in [Services -> AllInfos] /\ disposed \in BOOLEAN
         /\ manager.services \in [Services -> ServiceEntries]
         /\ manager.calls \subseteq P!Connman!Calls /\ manager.idle \in BOOLEAN
         /\ manager = [services |-> manager.services, calls |-> manager.calls,
                       idle |-> manager.idle]
         /\ Backing(P!Connman!Known)
         /\ P!Connman!Known.services = manager.services
         /\ P!Connman!Known.calls = manager.calls /\ P!Connman!Known.told = told
         /\ ~disposed => /\ queue \in Seq(ConnmanMessages)
                         /\ \A k \in 1 .. Len(queue) : Wanted(queue[k], manager.services)
BY DEF ConnmanInv, P!Connman!Known

\* What a step makes known is what the manager then knows.
LEMMA ConnmanLearns ==
  ASSUME ConnmanInv, NEW r, Backing(r), P!Connman!Know(r)
  PROVE  /\ manager' \in [services : [Services -> ServiceEntries], calls : SUBSET P!Connman!Calls,
                          idle : BOOLEAN]
         /\ manager'.services = r.services
         /\ Backing(P!Connman!Known')
<1>1. /\ manager' = [manager EXCEPT !.services = r.services, !.calls = r.calls] /\ told' = r.told
  BY DEF P!Connman!Know
<1>2. manager' = [services |-> r.services, calls |-> r.calls, idle |-> manager.idle]
  BY Zenon, <1>1, ConnmanInvParts
<1>3. P!Connman!Known' = [services |-> r.services, calls |-> r.calls, told |-> r.told]
  BY <1>1, <1>2 DEF P!Connman!Known
<1>4. r = [services |-> r.services, calls |-> r.calls, told |-> r.told]
      /\ r.services \in [Services -> ServiceEntries] /\ r.calls \subseteq P!Connman!Calls
  BY DEF Backing, ConnmanKnowledge
<1> QED BY <1>2, <1>3, <1>4, ConnmanInvParts

\* A message that nothing is changed for, with the manager that waits for it
LEMMA ConnmanSends ==
  ASSUME ConnmanInv, NEW msg \in ConnmanMessages, P!Connman!Send(msg),
         manager'.services = manager.services, manager'.idle = manager.idle,
         manager' = [services |-> manager'.services, calls |-> manager'.calls,
                     idle |-> manager'.idle],
         manager'.calls \subseteq manager.calls, Wanted(msg, manager.services),
         os' \in [Services -> AllInfos]
  PROVE  ConnmanInv'
<1> DEFINE m == P!Connman!Known
           M == ConnmanMessages
<1>1. /\ ~disposed /\ queue' = Append(queue, msg) /\ told' = told /\ disposed' = disposed
  BY DEF P!Connman!Send
<1>2. /\ queue \in Seq(M) /\ \A k \in 1 .. Len(queue) : Wanted(queue[k], manager.services)
      /\ manager.calls \subseteq P!Connman!Calls
  BY <1>1, ConnmanInvParts
<1>3. /\ m' = [services |-> manager.services, calls |-> manager'.calls, told |-> told]
      /\ m = [services |-> manager.services, calls |-> manager.calls, told |-> told]
      /\ Backing(m)
  BY <1>1, ConnmanInvParts DEF P!Connman!Known
<1> HIDE DEF m
<1>4. Backing(m')
  BY <1>3, <1>2 DEF Backing, ConnmanKnowledge
<1> HIDE DEF M
<1>5. queue' \in Seq(M) /\ \A k \in 1 .. Len(queue') : Wanted(queue'[k], manager'.services)
  <2>1. /\ queue' \in Seq(M) /\ Len(queue) \in Nat /\ Len(queue') = Len(queue) + 1
        /\ queue'[Len(queue) + 1] = msg /\ \A i \in 1 .. Len(queue) : queue'[i] = queue[i]
    BY <1>1, <1>2, AppendFacts DEF M
  <2>2. ASSUME NEW k \in 1 .. Len(queue') PROVE Wanted(queue'[k], manager.services)
    <3>1. k \in 1 .. Len(queue) \/ k = Len(queue) + 1
      BY <2>1
    <3> QED BY <1>2, <2>1, <3>1
  <2> QED BY <2>1, <2>2
<1>6. manager' \in [services : [Services -> ServiceEntries], calls : SUBSET P!Connman!Calls,
                    idle : BOOLEAN]
  <2>1. /\ manager'.services \in [Services -> ServiceEntries] /\ manager'.idle \in BOOLEAN
        /\ manager'.calls \subseteq P!Connman!Calls
    BY <1>2, ConnmanInvParts
  <2> QED BY <2>1
<1>7. disposed' \in BOOLEAN
  BY <1>1, ConnmanInvParts
<1> QED BY <1>4, <1>5, <1>6, <1>7 DEF ConnmanInv, m, M

\* The message that comes next is read.
LEMMA ConnmanDispatchStep == ConnmanInv /\ P!Connman!Dispatch => ConnmanInv'
<1> SUFFICES ASSUME ConnmanInv, P!Connman!Dispatch PROVE ConnmanInv'
  OBVIOUS
<1> DEFINE m == P!Connman!Known
           M == ConnmanMessages
           msg == Head(queue)
           q == Tail(queue)
<1>1. /\ ~disposed /\ queue # <<>> /\ os' = os /\ disposed' = disposed
      /\ queue' = IF msg.type = "removed" THEN P!Connman!Cancelled(q, msg.service) ELSE q
  BY DEF P!Connman!Dispatch
<1>2. PICK ok \in BOOLEAN : P!Connman!Know(P!Connman!Handle(m, msg, ok))
  BY DEF P!Connman!Dispatch
<1>3. /\ Backing(m) /\ m.services = manager.services /\ queue \in Seq(M)
      /\ \A k \in 1 .. Len(queue) : Wanted(queue[k], manager.services)
  BY <1>1, ConnmanInvParts
<1> DEFINE r == P!Connman!Handle(m, msg, ok)
<1> HIDE DEF m, M
<1>4. /\ msg \in M /\ Wanted(msg, manager.services)
      /\ q \in Seq(M) /\ \A k \in 1 .. Len(q) : q[k] \in M /\ Wanted(q[k], manager.services)
  <2>1. msg = queue[1] /\ 1 \in 1 .. Len(queue)
    BY <1>1, <1>3
  <2>2. q \in Seq(M) /\ \A k \in 1 .. Len(q) : k + 1 \in 1 .. Len(queue) /\ q[k] = queue[k + 1]
    BY <1>1, <1>3
  <2> HIDE DEF msg, q
  <2>3. \A k \in 1 .. Len(q) : q[k] \in M /\ Wanted(q[k], manager.services)
    BY <1>3, <2>2
  <2> QED BY <1>3, <2>1, <2>2, <2>3
<1> HIDE DEF msg, q, r
<1>5. /\ Backing(r)
      /\ msg.type # "removed" => Stay(m, r)
      /\ msg.type = "removed" =>
            /\ msg.service \in Services
            /\ \A t \in Services : t # msg.service => r.services[t] = m.services[t]
  <2>1. msg.type = "proxy" => m.services[msg.service] # P!Connman!Absent
    BY <1>3, <1>4 DEF Wanted
  <2> QED BY <1>3, <1>4, <2>1, HandleKeeps DEF r, M
<1>6. /\ manager' \in [services : [Services -> ServiceEntries], calls : SUBSET P!Connman!Calls,
                       idle : BOOLEAN]
      /\ manager'.services = r.services
      /\ Backing(P!Connman!Known')
  BY <1>2, <1>5, ConnmanLearns DEF r
<1>7. \A e \in M : e.type = "proxy" => e.service \in Services
  BY DEF M, ConnmanMessages
<1>8. queue' \in Seq(M) /\ \A k \in 1 .. Len(queue') : Wanted(queue'[k], r.services)
  <2>1. CASE msg.type = "removed"
    <3>1. /\ queue' \in Seq(M)
          /\ \A k \in 1 .. Len(queue') :
                /\ \E j \in 1 .. Len(q) : queue'[k] = q[j]
                /\ queue'[k].type = "proxy" => queue'[k].service # msg.service
      BY <1>1, <1>4, <2>1, CancelledFacts DEF M
    <3>2. ASSUME NEW k \in 1 .. Len(queue'), queue'[k].type = "proxy"
          PROVE  r.services[queue'[k].service] # P!Connman!Absent
      <4>1. PICK j \in 1 .. Len(q) : queue'[k] = q[j]
        BY <3>1
      <4> DEFINE e == queue'[k]
      <4>2. e.service # msg.service
        BY <3>1, <3>2
      <4>3. e \in M /\ Wanted(e, m.services)
        BY <1>3, <1>4, <4>1
      <4>4. e.type = "proxy"
        BY <3>2
      <4> HIDE DEF e
      <4>5. e.service \in Services /\ m.services[e.service] # P!Connman!Absent
        BY <1>7, <4>3, <4>4 DEF Wanted
      <4>6. r.services[e.service] # P!Connman!Absent
        BY <1>5, <2>1, <4>2, <4>5
      <4> QED BY <4>6 DEF e
    <3> QED BY <3>1, <3>2 DEF Wanted
  <2>2. CASE msg.type # "removed"
    <3>1. queue' = q /\ Stay(m, r)
      BY <1>1, <1>5, <2>2
    <3>2. ASSUME NEW k \in 1 .. Len(q) PROVE Wanted(q[k], r.services)
      <4> DEFINE e == q[k]
      <4>1. e \in M /\ Wanted(e, m.services)
        BY <1>3, <1>4
      <4> HIDE DEF e
      <4>2. Wanted(e, r.services)
        BY <1>7, <3>1, <4>1 DEF Wanted, Stay
      <4> QED BY <4>2 DEF e
    <3> QED BY <1>4, <3>1, <3>2
  <2> QED BY <2>1, <2>2
<1> QED BY <1>1, <1>6, <1>8, ConnmanInvParts DEF ConnmanInv, M

\* The second attempt to create a context
LEMMA CreateTimeoutStep ==
  ASSUME NEW s \in Services
  PROVE  ConnmanInv /\ P!Connman!CreateTimeout(s) => ConnmanInv'
<1> SUFFICES ASSUME ConnmanInv, P!Connman!CreateTimeout(s) PROVE ConnmanInv'
  OBVIOUS
<1> DEFINE m == P!Connman!Known
           x == m.services[s]
           y == [x EXCEPT !.timeout = FALSE]
           fired == [m EXCEPT !.services[s] = y]
<1>1. /\ ~disposed /\ x # P!Connman!Absent
      /\ os' = os /\ queue' = queue /\ disposed' = disposed
  BY ConnmanInvParts DEF P!Connman!CreateTimeout
<1>2. PICK ok \in BOOLEAN :
         P!Connman!Know(IF x.current = "active" THEN P!Connman!ContextCreateOrInactive(fired, s, ok)
                        ELSE fired)
  BY ConnmanInvParts DEF P!Connman!CreateTimeout
<1>3. Backing(m) /\ m.services = manager.services
  BY ConnmanInvParts
<1> DEFINE r == IF x.current = "active" THEN P!Connman!ContextCreateOrInactive(fired, s, ok)
                ELSE fired
<1> HIDE DEF m
<1>4. m \in ConnmanKnowledge /\ x \in P!Connman!CMService /\ Backed(x, m.told[s])
  BY <1>1, <1>3, ServiceFields DEF Backing
<1>5. y \in P!Connman!CMService /\ y.context = x.context /\ y.current = x.current
      /\ y # P!Connman!Absent
  <2>1. y \in P!Connman!CMService /\ y.context = x.context /\ y.current = x.current
    BY Zenon, <1>4 DEF P!Connman!CMService
  <2> QED BY Zenon, <2>1, ServiceIsThere
<1> HIDE DEF y
<1>6. Backed(y, m.told[s])
  BY <1>1, <1>4, <1>5 DEF Backed
<1>7. Backing(fired) /\ Stay(m, fired) /\ fired.services[s] = y
  BY <1>1, <1>3, <1>5, <1>6, FieldKeeps
<1> HIDE DEF fired
<1>8. Backing(r) /\ Stay(m, r)
  <2>1. CASE x.current = "active"
    <3>1. Backing(r) /\ Stay(fired, r)
      BY <1>5, <1>7, <2>1, CreateKeeps
    <3> QED BY <1>7, <3>1 DEF Stay
  <2>2. CASE x.current # "active"
    BY <1>7, <2>2
  <2> QED BY <2>1, <2>2
<1> HIDE DEF r
<1>9. /\ manager' \in [services : [Services -> ServiceEntries], calls : SUBSET P!Connman!Calls,
                       idle : BOOLEAN]
      /\ manager'.services = r.services
      /\ Backing(P!Connman!Known')
  BY <1>2, <1>8, ConnmanLearns DEF r
<1>10. queue \in Seq(ConnmanMessages) /\ \A k \in 1 .. Len(queue) : Wanted(queue[k], r.services)
  <2>1. queue \in Seq(ConnmanMessages)
        /\ \A k \in 1 .. Len(queue) : Wanted(queue[k], m.services)
    BY <1>1, <1>3, ConnmanInvParts
  <2>2. ASSUME NEW k \in 1 .. Len(queue) PROVE Wanted(queue[k], r.services)
    <3> DEFINE e == queue[k]
    <3>1. e \in ConnmanMessages /\ Wanted(e, m.services)
      BY <2>1
    <3>2. e.type = "proxy" => e.service \in Services
      BY <3>1 DEF ConnmanMessages
    <3> HIDE DEF e
    <3>3. Wanted(e, r.services)
      BY <1>8, <3>1, <3>2 DEF Wanted, Stay
    <3> QED BY <3>3 DEF e
  <2> QED BY <2>1, <2>2
<1> QED BY <1>1, <1>9, <1>10, ConnmanInvParts DEF ConnmanInv

\* The context of the loopback interface
LEMMA LoopbackStep == ConnmanInv /\ P!Connman!Loopback => ConnmanInv'
<1> SUFFICES ASSUME ConnmanInv, P!Connman!Loopback PROVE ConnmanInv'
  OBVIOUS
<1> DEFINE m == P!Connman!Known
<1>1. /\ os' = os /\ queue' = queue /\ disposed' = disposed
      /\ manager' = [manager EXCEPT !.idle = FALSE]
  BY DEF P!Connman!Loopback
<1>2. PICK n \in 0 .. 1 : told' = [told EXCEPT !["lo"] = n]
  BY Zenon DEF P!Connman!Loopback
<1>3. manager' = [services |-> manager.services, calls |-> manager.calls, idle |-> FALSE]
  BY Zenon, <1>1, ConnmanInvParts
<1>4. /\ m' = [services |-> manager.services, calls |-> manager.calls, told |-> told']
      /\ m = [services |-> manager.services, calls |-> manager.calls, told |-> told]
      /\ Backing(m)
  BY <1>3, ConnmanInvParts DEF P!Connman!Known
<1> HIDE DEF m
<1>5. told \in [Services \cup {"lo"} -> Int] /\ \A s \in Services : s # "lo"
  BY <1>4, PartsAssumption DEF Backing, ConnmanKnowledge
<1>6. told' \in [Services \cup {"lo"} -> Int] /\ \A s \in Services : told'[s] = told[s]
  BY <1>2, <1>5
<1>7. m' \in ConnmanKnowledge
  BY <1>4, <1>6 DEF Backing, ConnmanKnowledge
<1>8. m'.services = m.services /\ m'.calls = m.calls /\ \A s \in Services : m'.told[s] = m.told[s]
  BY <1>4, <1>6
<1>9. Backing(m')
  BY <1>4, <1>7, <1>8 DEF Backing
<1> QED BY Zenon, <1>1, <1>3, <1>9, ConnmanInvParts DEF ConnmanInv, m

\* All is freed.
LEMMA ConnmanDisposeStep == ConnmanInv /\ P!Connman!Dispose => ConnmanInv'
<1> SUFFICES ASSUME ConnmanInv, P!Connman!Dispose PROVE ConnmanInv'
  OBVIOUS
<1> DEFINE m == P!Connman!Known
           n == [m EXCEPT !.calls = {}]
           q == P!Connman!SetToSeq(Services)
           r == P!Connman!Freed(n, q)
<1>1. os' = os /\ disposed' = TRUE /\ P!Connman!Know(r)
  BY DEF P!Connman!Dispose
<1>2. q \in Seq(Services)
  <2>1. q = P!Linux!SetToSeq(Services)
    BY DEF P!Connman!SetToSeq, P!Linux!SetToSeq, P!Connman!IsInjective, P!Linux!IsInjective,
           P!Connman!Cardinality, P!Linux!Cardinality
  <2> HIDE DEF q
  <2> QED BY <2>1, OrderFacts, PartsAssumption
<1>3. Backing(m)
  BY ConnmanInvParts
<1> HIDE DEF m, q
<1>4. n = [services |-> m.services, calls |-> {}, told |-> m.told]
  BY <1>3 DEF Backing, ConnmanKnowledge
<1> HIDE DEF n
<1>5. Backing(n)
  BY <1>3, <1>4 DEF Backing, ConnmanKnowledge
<1>6. Backing(r)
  BY <1>2, <1>5, AllFreed
<1> HIDE DEF r
<1> QED BY <1>1, <1>6, ConnmanLearns, ConnmanInvParts DEF ConnmanInv

\* A call is answered.
LEMMA ConnmanAnswerStep ==
  ASSUME ConnmanInv, NEW call \in manager.calls, P!Connman!Answer(call)
  PROVE  ConnmanInv'
<1> DEFINE msg == CASE call.call = "GetServices" -> [type |-> "services", infos |-> os]
                    [] call.call = "proxy" -> [type |-> "proxy", service |-> call.service]
                    [] call.call = "GetProperties" ->
                          [type |-> "reply", service |-> call.service, info |-> os[call.service]]
<1>1. /\ P!Connman!Send(msg) /\ os' = os
      /\ call.call = "GetProperties" => os[call.service].state # "none"
      /\ manager' = [manager EXCEPT !.calls = @ \ {call}]
  BY Zenon DEF P!Connman!Answer
<1>2. call \in P!Connman!Calls
  BY ConnmanInvParts
<1>3. msg \in ConnmanMessages /\ Wanted(msg, manager.services)
  <2>1. CASE call.call = "GetServices"
    <3>1. msg = [type |-> "services", infos |-> os] BY <2>1
    <3> HIDE DEF msg
    <3> QED BY <3>1, ConnmanInvParts DEF ConnmanMessages, Wanted
  <2>2. CASE call.call = "proxy"
    <3>1. msg = [type |-> "proxy", service |-> call.service] BY <2>2
    <3> HIDE DEF msg
    <3>2. call.service \in Services /\ call = [call |-> "proxy", service |-> call.service]
      BY <1>2, <2>2 DEF P!Connman!Calls
    <3>3. manager.services[call.service] # P!Connman!Absent
      BY <3>2, ConnmanInvParts DEF Backing
    <3> QED BY <3>1, <3>2, <3>3 DEF ConnmanMessages, Wanted
  <2>3. CASE call.call = "GetProperties"
    <3>1. msg = [type |-> "reply", service |-> call.service, info |-> os[call.service]] BY <2>3
    <3> HIDE DEF msg
    <3>2. call.service \in Services
      BY <1>2, <2>3 DEF P!Connman!Calls
    <3>3. os[call.service] \in Infos
      <4>1. os[call.service] \in AllInfos
        BY <3>2, ConnmanInvParts
      <4> QED BY <4>1, <1>1, <2>3 DEF AllInfos, Infos
    <3> QED BY <3>1, <3>2, <3>3 DEF ConnmanMessages, Wanted
  <2> QED BY <2>1, <2>2, <2>3, <1>2 DEF P!Connman!Calls
<1> HIDE DEF msg
<1>4. manager' = [services |-> manager.services, calls |-> manager.calls \ {call},
                  idle |-> manager.idle]
  BY Zenon, <1>1, ConnmanInvParts
<1>5. os' \in [Services -> AllInfos]
  BY <1>1, ConnmanInvParts
<1>6. /\ manager'.services = manager.services /\ manager'.idle = manager.idle
      /\ manager'.calls \subseteq manager.calls
      /\ manager' = [services |-> manager'.services, calls |-> manager'.calls,
                     idle |-> manager'.idle]
  BY <1>4
<1> QED BY <1>1, <1>3, <1>5, <1>6, ConnmanSends

\* A service comes, goes or changes.
LEMMA ServiceChangeStep ==
  ASSUME ConnmanInv, NEW s \in Services, NEW to \in P!Connman!States \cup {"none"},
         NEW iface \in Interfaces, P!Connman!ServiceChange(s, to, iface)
  PROVE  ConnmanInv'
<1>1. /\ os' = [os EXCEPT ![s] = [state |-> to, iface |-> iface]] /\ manager' = manager
  BY DEF P!Connman!ServiceChange
<1>2. os' \in [Services -> AllInfos] /\ os'[s] = [state |-> to, iface |-> iface]
  BY <1>1, ConnmanInvParts DEF AllInfos
<1>3. PICK type \in {"removed", "added", "properties"} :
         /\ type # "removed" => to # "none"
         /\ P!Connman!Send([type |-> type, service |-> s, info |-> os'[s]])
  BY DEF P!Connman!ServiceChange
<1> DEFINE msg == [type |-> type, service |-> s, info |-> os'[s]]
<1>4. msg \in ConnmanMessages
  <2>1. CASE type = "removed"
    BY <1>2, <2>1 DEF ConnmanMessages, AllInfos
  <2>2. CASE type # "removed"
    <3>1. os'[s] \in Infos BY <1>2, <1>3, <2>2 DEF Infos
    <3> QED BY <1>3, <2>2, <3>1 DEF ConnmanMessages
  <2> QED BY <2>1, <2>2
<1>5. Wanted(msg, manager.services)
  BY <1>3 DEF Wanted
<1>6. P!Connman!Send(msg)
  BY <1>3
<1> HIDE DEF msg
<1>7. /\ manager'.services = manager.services /\ manager'.idle = manager.idle
      /\ manager'.calls \subseteq manager.calls
      /\ manager' = [services |-> manager'.services, calls |-> manager'.calls,
                     idle |-> manager'.idle]
  BY <1>1, ConnmanInvParts
<1> QED BY <1>2, <1>4, <1>5, <1>6, <1>7, ConnmanSends

\* Every step keeps it.
LEMMA NextKeepsConnman == ConnmanInv /\ P!Connman!Next => ConnmanInv'
<1> SUFFICES ASSUME ConnmanInv, P!Connman!Next PROVE ConnmanInv'
  OBVIOUS
<1> QED BY ConnmanDispatchStep, LoopbackStep, ConnmanDisposeStep, CreateTimeoutStep,
           ConnmanAnswerStep, ServiceChangeStep
        DEF P!Connman!Next

-----------------------------------------------------------------------------
(* The platforms in the whole.                                             *)

\* Each invariant is about the variables of the platforms only.
LEMMA PlatformsIdle ==
  ASSUME UNCHANGED <<os, queue, manager, told, disposed>>
  PROVE  /\ LinuxInv => LinuxInv'
         /\ NMInv => NMInv'
         /\ ConnmanInv => ConnmanInv'
         /\ SimpleInv => SimpleInv'
<1>1. P!Linux!Known' = P!Linux!Known
  BY DEF P!Linux!Known
<1>2. P!NM!Known' = P!NM!Known
  BY DEF P!NM!Known
<1>3. P!Connman!Known' = P!Connman!Known
  BY DEF P!Connman!Known
<1>4. ASSUME LinuxInv PROVE LinuxInv'
  BY <1>1, <1>4 DEF LinuxInv
<1>5. ASSUME NMInv PROVE NMInv'
  BY <1>2, <1>5 DEF NMInv
<1>6. ASSUME ConnmanInv PROVE ConnmanInv'
  BY <1>3, <1>6 DEF ConnmanInv
<1>7. ASSUME SimpleInv PROVE SimpleInv'
  BY <1>7 DEF SimpleInv
<1> QED BY <1>4, <1>5, <1>6, <1>7

\* The invariant of the implementation that was chosen, in the run of all parts
InPlatforms ==
    part = "platforms" =>
        \/ impl = "Linux"          /\ LinuxInv
        \/ impl = "NetworkManager" /\ NMInv
        \/ impl = "ConnMan"        /\ ConnmanInv
        \/ impl = "simple"         /\ SimpleInv

\* It is inductive.
LEMMA PlatformsInvIsInductive == Spec => []InPlatforms
<1>1. Init => InPlatforms
  <2> SUFFICES ASSUME Init, part = "platforms" PROVE InPlatforms
    BY DEF InPlatforms
  <2>1. P!Init
    BY DEF Init
  <2> QED BY <2>1, InitLinux, InitNM, InitConnman, InitSimple DEF P!Init, InPlatforms
<1>2. InPlatforms /\ [Next]_vars => InPlatforms'
  <2> SUFFICES ASSUME InPlatforms, [Next]_vars, part' = "platforms" PROVE InPlatforms'
    BY DEF InPlatforms
  <2>1. CASE PStep
    <3>1. part = "platforms" /\ P!Next
      BY <2>1 DEF PStep
    <3>2. /\ impl' = impl
          /\ \/ impl = "Linux"          /\ P!Linux!Next
             \/ impl = "NetworkManager" /\ P!NM!Next
             \/ impl = "ConnMan"        /\ P!Connman!Next
             \/ impl = "simple"         /\ P!Simple!Next
      BY <3>1 DEF P!Next
    <3> QED BY <3>1, <3>2, NextKeepsLinux, NextKeepsNM, NextKeepsConnman, NextKeepsSimple
            DEF InPlatforms
  <2>2. CASE UNCHANGED vars
    <3>1. part' = part /\ impl' = impl /\ UNCHANGED <<os, queue, manager, told, disposed>>
      BY <2>2 DEF vars, pvars
    <3> QED BY <3>1, PlatformsIdle DEF InPlatforms
  <2>3. CASE NStep \/ IStep \/ WStep \/ DStep \/ SStep \/ HStep \/ CStep
    BY Zenon, <2>3 DEF NStep, IStep, WStep, DStep, SStep, HStep, CStep
  <2> QED BY Zenon, <2>1, <2>2, <2>3 DEF Next
<1> QED BY <1>1, <1>2, PTL DEF Spec

\* The variables have the types of the implementation that was chosen.
LEMMA PlatformsTypes == InPlatforms /\ part = "platforms" => P!TypeOK
<1> SUFFICES ASSUME InPlatforms, part = "platforms" PROVE P!TypeOK
  OBVIOUS
<1>1. CASE impl = "Linux"
  BY <1>1, LinuxInvTypes DEF InPlatforms, P!TypeOK
<1>2. CASE impl = "NetworkManager"
  BY <1>2, NMInvTells DEF InPlatforms, P!TypeOK
<1>3. CASE impl = "ConnMan"
  BY <1>3, ConnmanInvTells DEF InPlatforms, P!TypeOK
<1>4. CASE impl = "simple"
  BY <1>4, SimpleInvTells DEF InPlatforms, P!TypeOK
<1> QED BY <1>1, <1>2, <1>3, <1>4 DEF InPlatforms

\* FollowsTheKernel: whatever order links and addresses change in, during bootstrap and
\* after it, the application has exactly the usable addresses of links that are up once
\* the socket is empty; a context is announced once, and none is left at the end.
THEOREM ContextsFollowTheKernel == Spec => []FollowsTheKernel
<1>1. InPlatforms => FollowsTheKernel
  BY LinuxInvTells DEF InPlatforms, FollowsTheKernel, P!FollowsTheKernel
<1> QED BY <1>1, PlatformsInvIsInductive, PTL

\* ToldIsHeld: on the other platforms, whatever answers fail or come late, a context the
\* application was told of is still held by what will withdraw it: with NetworkManager
\* by NMDevices, with ConnMan by an active service, elsewhere by the manager until it
\* goes.
THEOREM ContextsAreHeld == Spec => []ToldIsHeld
<1>1. InPlatforms => ToldIsHeld
  <2> SUFFICES ASSUME InPlatforms, part = "platforms" PROVE P!ToldIsHeld
    BY DEF ToldIsHeld
  <2>1. CASE impl = "Linux"
    BY <2>1 DEF P!ToldIsHeld
  <2>2. CASE impl = "NetworkManager"
    BY <2>2, NMInvTells DEF InPlatforms, P!ToldIsHeld
  <2>3. CASE impl = "ConnMan"
    BY <2>3, ConnmanInvTells DEF InPlatforms, P!ToldIsHeld
  <2>4. CASE impl = "simple"
    BY <2>4, SimpleInvTells DEF InPlatforms, P!ToldIsHeld
  <2> QED BY <2>1, <2>2, <2>3, <2>4 DEF InPlatforms
<1> QED BY <1>1, PlatformsInvIsInductive, PTL

\* FollowsTheSystem: on every platform the application knows the contexts the system has,
\* or what it knows is still held by what will withdraw it.
THEOREM ContextsFollowTheSystem == Spec => []FollowsTheSystem
<1>1. FollowsTheKernel /\ ToldIsHeld => FollowsTheSystem
  BY DEF FollowsTheSystem
<1> QED BY <1>1, ContextsFollowTheKernel, ContextsAreHeld, PTL
=============================================================================
