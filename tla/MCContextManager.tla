-------------------------- MODULE MCContextManager --------------------------
(* One context, and a filter that is left alone or has an entry for it.    *)
EXTENDS ContextManager

CONSTANTS c1, iface

MCNames == [c \in Contexts |-> {iface}]
=============================================================================
