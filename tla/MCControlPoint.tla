--------------------------- MODULE MCControlPoint ---------------------------
(* Instances of ControlPoint for TLC: a root device, announced under two    *)
(* USNs, and a service of it.                                               *)
EXTENDS ControlPoint

CONSTANTS device, service, root_usn, uuid_usn, service_usn, loc1, loc2

MCKeys == {device, service}
MCUSNs == {root_usn, uuid_usn, service_usn}
MCKeyOf == [u \in MCUSNs |-> IF u = service_usn THEN service ELSE device]

\* The description is served at two addresses, of which one lists the device only.
MCProvides == [u \in Locations |-> IF u = loc1 THEN MCKeys ELSE {device}]
=============================================================================
