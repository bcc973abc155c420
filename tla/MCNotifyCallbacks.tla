------------------------- MODULE MCNotifyCallbacks -------------------------
(* One variable, two callbacks of one type.                                *)
EXTENDS NotifyCallbacks, TLC

MCGType == [c \in Callbacks |-> "int"]
=============================================================================
