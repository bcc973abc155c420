---------------------------- MODULE EventedValue ----------------------------
(***************************************************************************)
(* What eventing promises of one state variable.  The device changes it;   *)
(* every subscriber holds some value the variable has had, and is only     *)
(* ever told of the same value again or of a later one.  Nothing is        *)
(* promised of when, or of every value being told.                         *)
(***************************************************************************)
EXTENDS Integers

CONSTANTS
    Subscribers,
    MaxValue       \* bound: changes of the state variable

VARIABLES
    value,  \* number of changes so far: the value
    view    \* the value each subscriber holds, or Unknown

Unknown == -1

Init ==
    /\ value = 0
    /\ view = [s \in Subscribers |-> Unknown]

Change ==
    /\ value < MaxValue
    /\ value' = value + 1
    /\ UNCHANGED view

Tell(s) ==
    /\ \E v \in 0 .. value :
          /\ v >= view[s]
          /\ view' = [view EXCEPT ![s] = v]
    /\ UNCHANGED value

Next == Change \/ \E s \in Subscribers : Tell(s)

Spec == Init /\ [][Next]_<<value, view>>
=============================================================================
