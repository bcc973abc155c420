------------------------ MODULE LinuxContextManager ------------------------
(***************************************************************************)
(* src/libgupnp/gupnp-linux-context-manager.c: contexts from the links and *)
(* addresses that the kernel reports over a netlink socket.                *)
(*                                                                         *)
(* os is what the kernel knows, queue the messages in the socket, manager  *)
(* the table of interfaces with their contexts; a context is named by its  *)
(* address.  told counts context-available less context-unavailable.       *)
(* Broken are the addresses a GUPnPContext cannot be created for.          *)
(***************************************************************************)
EXTENDS Integers, Sequences, FiniteSets, Lists

CONSTANTS
    Links,      \* interface indices
    Addresses,
    LinkOf,     \* the link an address belongs to
    Valid,      \* links that satisfy INTERFACE_IS_VALID
    Broken,
    MaxQueue    \* bound: messages in the socket

VARIABLES os, queue, manager, told, disposed

vars == <<os, queue, manager, told, disposed>>

AddressStates == {"none", "tentative", "usable", "deprecated"}

Messages ==
    [type : {"RTM_NEWLINK"}, link : Links, up : BOOLEAN, wireless : BOOLEAN]
    \cup [type : {"RTM_DELLINK"}, link : Links]
    \cup [type : {"RTM_NEWADDR"}, address : Addresses, state : AddressStates \ {"none"}]
    \cup [type : {"RTM_DELADDR"}, address : Addresses]

TypeOK ==
    /\ os \in [link : [Links -> {"none", "down", "up"}], address : [Addresses -> AddressStates]]
    /\ queue \in Seq(Messages)
    /\ manager.nl_seq \in 0 .. 2
    /\ manager.listening \in BOOLEAN
    /\ manager.up \subseteq manager.interfaces
    /\ manager.interfaces \subseteq Links
    /\ manager.contexts \subseteq {a \in Addresses : LinkOf[a] \in manager.interfaces \cap Valid}
    /\ told \in [Addresses -> Int]
    /\ disposed \in BOOLEAN

Init ==
    /\ os \in [link : [Links -> {"none", "down", "up"}], address : [Addresses -> {"none", "usable"}]]
    /\ \A a \in Addresses : os.link[LinkOf[a]] = "none" => os.address[a] = "none"
    /\ queue = <<>>
    /\ manager = [nl_seq |-> 0, listening |-> FALSE,
                  interfaces |-> {}, up |-> {}, contexts |-> {}]
    /\ told = [a \in Addresses |-> 0]
    /\ disposed = FALSE

-----------------------------------------------------------------------------
(* Netlink messages.  A handler maps what the manager knows and has told,  *)
(* m, to what it knows and has told afterwards.                            *)

ContextsOf(m, l) == {a \in m.contexts : LinkOf[a] = l}

\* context-available, or -unavailable, for the contexts C
Signal(t, C, n) == [a \in Addresses |-> IF a \in C THEN t[a] + n ELSE t[a]]

\* network_device_new() for a link not in the table, network_device_up() and
\* network_device_down() for one that is there
NewLink(m, msg) ==
    LET l == msg.link
        up == IF msg.up THEN m.up \cup {l} ELSE m.up \ {l}
        n  == IF l \in up \ m.up THEN 1 ELSE IF l \in m.up \ up THEN -1 ELSE 0
    IN
    [m EXCEPT !.interfaces = @ \cup {l}, !.up = up, !.told = Signal(@, ContextsOf(m, l), n)]

\* network_device_free(): the contexts are withdrawn, announced or not.
Free(m, l) ==
    [m EXCEPT !.interfaces = @ \ {l}, !.up = @ \ {l}, !.contexts = @ \ ContextsOf(m, l),
              !.told = Signal(@, ContextsOf(m, l), -1)]

\* network_device_create_context() where create_context() gets that far
NewAddress(m, msg) ==
    LET a == msg.address IN
    IF \/ msg.state \in {"tentative", "deprecated"}
       \/ LinkOf[a] \notin m.interfaces \cap Valid
       \/ a \in m.contexts \cup Broken
    THEN m
    ELSE [m EXCEPT !.contexts = @ \cup {a},
                   !.told = Signal(@, {a} , IF LinkOf[a] \in m.up THEN 1 ELSE 0)]

\* remove_context()
DelAddress(m, msg) ==
    LET gone == {msg.address} \cap m.contexts IN
    [m EXCEPT !.contexts = @ \ gone,
              !.told = Signal(@, gone, IF LinkOf[msg.address] \in m.up THEN -1 ELSE 0)]

\* receive_netlink_message(), for each message of a packet
Receive(m, msg) ==
    CASE msg.type = "RTM_NEWADDR" -> NewAddress(m, msg)
      [] msg.type = "RTM_DELADDR" -> DelAddress(m, msg)
      [] msg.type = "RTM_NEWLINK" -> IF msg.wireless THEN m ELSE NewLink(m, msg)
      [] msg.type = "RTM_DELLINK" -> IF msg.link \in m.interfaces THEN Free(m, msg.link) ELSE m

\* What the manager knows when it has read the messages, and when it has let go
\* of the links
Reading(m, msgs) ==
    LET after[n \in 0 .. Len(msgs)] ==
            IF n = 0 THEN m ELSE Receive(after[n - 1], msgs[n])
    IN  after[Len(msgs)]
Freed(m, links) ==
    LET after[n \in 0 .. Len(links)] ==
            IF n = 0 THEN m ELSE Free(after[n - 1], links[n])
    IN  after[Len(links)]

Known == [interfaces |-> manager.interfaces, up |-> manager.up,
          contexts |-> manager.contexts, told |-> told]

Knowing(m) ==
    [manager EXCEPT !.interfaces = m.interfaces, !.up = m.up, !.contexts = m.contexts]

Know(m) == manager' = Knowing(m) /\ told' = m.told

-----------------------------------------------------------------------------
(* Steps of the manager.                                                   *)

\* What the kernel answers to NLM_F_DUMP
LinkDump ==
    LET links == SetToSeq({l \in Links : os.link[l] # "none"}) IN
    [i \in DOMAIN links |-> [type |-> "RTM_NEWLINK", link |-> links[i],
                             up |-> os.link[links[i]] = "up", wireless |-> FALSE]]

AddressDump ==
    LET present == SetToSeq({a \in Addresses : os.address[a] # "none"}) IN
    [i \in DOMAIN present |-> [type |-> "RTM_NEWADDR", address |-> present[i],
                               state |-> os.address[present[i]]]]

\* on_bootstrap() -> query_all_network_interfaces(), which reads the socket
\* until nothing is left
QueryLinks ==
    /\ manager.nl_seq = 0 /\ ~disposed
    /\ LET m == Reading(Known, queue \o LinkDump) IN
       /\ manager' = [Knowing(m) EXCEPT !.nl_seq = 1]
       /\ told' = m.told
    /\ queue' = <<>>
    /\ UNCHANGED <<os, disposed>>

\* faulty: the addresses are not asked for
QueryNothing ==
    /\ manager.nl_seq = 1 /\ ~disposed
    /\ manager' = [manager EXCEPT !.nl_seq = 2]
    /\ UNCHANGED <<os, queue, told, disposed>>

\* on_bootstrap() -> query_all_addresses()
QueryAddresses ==
    /\ manager.nl_seq = 1 /\ ~disposed
    /\ manager' = [manager EXCEPT !.nl_seq = 2]
    /\ queue' = queue \o AddressDump
    /\ UNCHANGED <<os, told, disposed>>

\* on_bootstrap() attaches the source for the socket.
Listen ==
    /\ manager.nl_seq = 2 /\ ~manager.listening /\ ~disposed
    /\ manager' = [manager EXCEPT !.listening = TRUE]
    /\ UNCHANGED <<os, queue, told, disposed>>

\* on_netlink_message_available()
MessageAvailable ==
    /\ manager.listening /\ queue # <<>> /\ ~disposed
    /\ Know(Receive(Known, Head(queue)))
    /\ queue' = Tail(queue)
    /\ UNCHANGED <<os, disposed>>

\* gupnp_linux_context_manager_dispose() frees the table.
Dispose ==
    /\ ~disposed
    /\ disposed' = TRUE
    /\ queue' = <<>>
    /\ Know(Freed(Known, SetToSeq(manager.interfaces)))
    /\ UNCHANGED os

-----------------------------------------------------------------------------
(* The kernel: it reports each change.  A link that is deleted goes down   *)
(* and loses its addresses first.                                          *)

Report(msgs) ==
    /\ ~disposed
    /\ Len(queue) + Len(msgs) <= MaxQueue
    /\ queue' = queue \o msgs
    /\ UNCHANGED <<manager, told, disposed>>

LinkMessage(l, up, wireless) ==
    [type |-> "RTM_NEWLINK", link |-> l, up |-> up, wireless |-> wireless]

LinkChange(l, state) ==
    /\ <<os.link[l], state>> \in {<<"none", "down">>, <<"down", "up">>, <<"up", "down">>}
    /\ os' = [os EXCEPT !.link[l] = state]
    /\ Report(<<LinkMessage(l, state = "up", FALSE)>>)

\* The flags of a status message are not those of the link.
WirelessStatus(l) ==
    /\ os.link[l] # "none"
    /\ Report(<<LinkMessage(l, FALSE, TRUE)>>)
    /\ UNCHANGED os

LinkDelete(l) ==
    LET lost == {a \in Addresses : LinkOf[a] = l /\ os.address[a] # "none"}
        down == IF os.link[l] = "up" THEN <<LinkMessage(l, FALSE, FALSE)>> ELSE <<>>
    IN
    /\ os.link[l] # "none"
    /\ os' = [os EXCEPT !.link[l] = "none",
                        !.address = [a \in Addresses |-> IF a \in lost THEN "none" ELSE @[a]]]
    /\ Report(down \o SetToSeq({[type |-> "RTM_DELADDR", address |-> a] : a \in lost})
                   \o <<[type |-> "RTM_DELLINK", link |-> l]>>)

AddressChange(a, state) ==
    /\ os.link[LinkOf[a]] # "none"
    /\ <<os.address[a], state>> \in
          {<<"none", "tentative">>, <<"none", "usable">>, <<"tentative", "usable">>,
           <<"usable", "usable">>, <<"usable", "deprecated">>}
    /\ os' = [os EXCEPT !.address[a] = state]
    /\ Report(<<[type |-> "RTM_NEWADDR", address |-> a, state |-> state]>>)

AddressDelete(a) ==
    /\ os.address[a] # "none"
    /\ os' = [os EXCEPT !.address[a] = "none"]
    /\ Report(<<[type |-> "RTM_DELADDR", address |-> a]>>)

Next ==
    \/ QueryLinks \/ QueryAddresses \/ Listen \/ MessageAvailable \/ Dispose
    \/ \E l \in Links : \/ WirelessStatus(l) \/ LinkDelete(l)
                        \/ \E state \in {"down", "up"} : LinkChange(l, state)
    \/ \E a \in Addresses : \/ AddressDelete(a)
                            \/ \E state \in AddressStates : AddressChange(a, state)

Spec == Init /\ [][Next]_vars

-----------------------------------------------------------------------------
(* Correctness.                                                            *)

\* While the manager lives a context is announced at most once, and when it is
\* gone no context is left.  (network_device_free() withdraws also what was not
\* announced, so the count may end below zero.)
AnnouncedOnce ==
    \A a \in Addresses : IF disposed THEN told[a] <= 0 ELSE told[a] \in {0, 1}

\* Once the manager has read all the kernel told it, the application has exactly
\* the usable addresses of links that are up, through whatever changes during
\* bootstrap.  (A deprecated address is kept, but not taken up.)
FollowsTheKernel ==
    manager.listening /\ queue = <<>> /\ ~disposed =>
        \A a \in Addresses \ Broken :
            os.address[a] # "deprecated" =>
                (told[a] = 1 <=> /\ os.address[a] = "usable"
                                 /\ os.link[LinkOf[a]] = "up"
                                 /\ LinkOf[a] \in Valid)
=============================================================================
