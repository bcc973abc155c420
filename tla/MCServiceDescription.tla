------------------------ MODULE MCServiceDescription ------------------------
(* A service that has an action and no state variable.                     *)
EXTENDS ServiceDescription

MCDocuments == {[actions |-> <<[name |-> "Get", args |-> <<>>]>>, variables |-> <<>>]}
MCBits == [t \in Signed \cup Unsigned |-> 4]
MCNumbers == {<<0>>, <<1>>}
MCWords == {<<"word", "true">>}
MCSymbols == {[form |-> "on", name |-> <<"", "Get">>]}
=============================================================================
