---------------------------- MODULE HostAddresses ----------------------------
(***************************************************************************)
(* The network of a Linux interface (generate_mask() of                    *)
(* gupnp-linux-context-manager.c), the URIs a context uses and the Host    *)
(* header it accepts (gupnp-context.c).                                    *)
(***************************************************************************)
EXTENDS Integers, Sequences

CONSTANTS
    Bytes,        \* bytes of addresses
    Length,       \* bytes in an address
    Hosts,        \* hosts of URIs: see Family and IsLinkLocal
    Ports

VARIABLES answer  \* the last call and what it returned

NoAnswer == [call |-> "none"]

Init == answer = NoAnswer

-----------------------------------------------------------------------------
(* generate_mask()                                                         *)

\* The first k of the four low bits of a byte: byte & bits_a[k].
LowBits(byte, k) == (byte % 16) - (byte % (2 ^ (4 - k)))
HighNibble(byte) == byte - (byte % 16)

\* A faulty variant: a whole last byte loses its high bits.
LastByteLow(byte, bits) == LowBits(byte, IF bits >= 4 THEN bits - 4 ELSE bits)

\* The byte in which the prefix ends; fewer than four bits are looked for in the
\* low half.
LastByte(byte, bits) ==
    IF bits >= 4 THEN HighNibble(byte) + LowBits(byte, bits - 4)
                 ELSE LowBits(byte, bits)

\* Bytes are taken whole while more than eight bits are left.
Network(address, prefix) ==
    LET whole == IF prefix = 0 THEN 0 ELSE (prefix - 1) \div 8
    IN [i \in 1 .. Length |->
           CASE i <= whole -> address[i]
             [] i = whole + 1 -> LastByte(address[i], prefix - 8 * whole)
             [] OTHER -> 0]

\* How many bits of the i-th byte are inside a prefix
Inside(i, prefix) ==
    IF prefix >= 8 * i THEN 8
    ELSE IF prefix <= 8 * (i - 1) THEN 0 ELSE prefix - (8 * (i - 1))

\* GLib refuses a mask whose address has bits behind the prefix.
BitsBehind(network, prefix) ==
    \E i \in 1 .. Length : network[i] % (2 ^ (8 - Inside(i, prefix))) # 0

AskMask(address, prefix) ==
    /\ answer = NoAnswer
    /\ LET network == Network(address, prefix)
       IN answer' = [call |-> "mask", address |-> address, prefix |-> prefix,
                     mask |-> IF BitsBehind(network, prefix) THEN <<>> ELSE network]

-----------------------------------------------------------------------------
(* gupnp_context_rewrite_uri_to_uri()                                      *)

Family(host) ==
    CASE host = "v4" -> "v4"
      [] host \in {"v6", "link-local v6"} -> "v6"
      [] OTHER -> "no address"

\* <<>> for NULL; a name is left as it is.
RewriteUri(family, host) ==
    CASE host = "invalid" -> <<>>
      [] host # "invalid" /\ Family(host) = "no address" ->
             <<[host |-> host, zone |-> FALSE]>>
      [] Family(host) # "no address" /\ Family(host) # family -> <<>>
      [] OTHER -> <<[host |-> host, zone |-> host = "link-local v6"]>>

AskRewrite(family, host) ==
    /\ answer = NoAnswer
    /\ answer' = [call |-> "rewrite", family |-> family, host |-> host,
                  uri |-> RewriteUri(family, host)]

-----------------------------------------------------------------------------
(* validate_host_header(): port -1 is a header without a port              *)

ValidateHostHeader(header, own, own_port) ==
    LET port == IF header.port = -1 THEN 80 ELSE header.port
    IN /\ header.host # "invalid" /\ Family(header.host) # "no address"
       /\ header.host = own /\ port = own_port

AskHost(header, own, own_port) ==
    /\ answer = NoAnswer /\ Family(own) # "no address"
    /\ answer' = [call |-> "host", header |-> header, own |-> own, own_port |-> own_port,
                  ok |-> ValidateHostHeader(header, own, own_port)]

Next ==
    \/ \E address \in [1 .. Length -> Bytes], prefix \in 0 .. 8 * Length :
           AskMask(address, prefix)
    \/ \E family \in {"v4", "v6"}, host \in Hosts : AskRewrite(family, host)
    \/ \E header \in [host : Hosts, port : Ports \cup {-1}], own \in Hosts,
          own_port \in Ports : AskHost(header, own, own_port)

-----------------------------------------------------------------------------
(* Correctness                                                             *)

TypeOK == answer.call \in {"none", "mask", "rewrite", "host"}

\* The bits of the i-th byte of an address that are inside a prefix, as a number
FirstBits(address, prefix, i) == address[i] \div (2 ^ (8 - Inside(i, prefix)))

\* The mask of an interface has the first bits of its address, for every prefix
\* length that does not end within the first three bits of a byte.
MaskIsNetwork ==
    (answer.call = "mask" /\ answer.prefix % 8 \notin 1 .. 3) =>
        /\ answer.mask # <<>>
        /\ \A i \in 1 .. Length :
              FirstBits(answer.mask, answer.prefix, i)
                  = FirstBits(answer.address, answer.prefix, i)

\* A URI a context uses can be reached from it: the family is its own, and an
\* address that needs a zone has one.
RewrittenIsUsable ==
    (answer.call = "rewrite" /\ answer.uri # <<>>) =>
        /\ Family(answer.uri[1].host) \in {"no address", answer.family}
        /\ answer.uri[1].zone <=> answer.host = "link-local v6"

\* "-1 means there was no :port; according to UDA this is allowed and defaults to
\* 80": a header is accepted only if it names the address and port of the context.
HostIsOurs ==
    (answer.call = "host" /\ answer.ok) =>
        /\ answer.header.host = answer.own
        /\ answer.header.port = answer.own_port \/ answer.own_port = 80
=============================================================================
