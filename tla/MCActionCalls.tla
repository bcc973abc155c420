--------------------------- MODULE MCActionCalls ---------------------------
(* Strangers send what the proxy does not: a request for another host, and *)
(* a query of state variables.                                             *)
EXTENDS ActionCalls

Proper == [from |-> "stranger", call |-> 0, method |-> "POST", host |-> TRUE,
           soapaction |-> TRUE, body |-> "action", authenticated |-> FALSE,
           at |-> "network", allowed |-> FALSE, status |-> 0, content |-> "none"]

MCStrangers ==
    {[Proper EXCEPT !.host = FALSE], [Proper EXCEPT !.body = "query"]}
=============================================================================
