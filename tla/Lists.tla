------------------------------- MODULE Lists -------------------------------
(***************************************************************************)
(* The operators on lists that the parts of libgupnp use.  They have the   *)
(* names and meanings of those of SequencesExt, but are few, for an        *)
(* INSTANCE puts every definition it reaches into every proof about it,    *)
(* and recursive ones are functions, about which there are proofs.         *)
(***************************************************************************)
EXTENDS Integers, Sequences, FiniteSets, Functions

Last(s) == s[Len(s)]
Front(s) == SubSeq(s, 1, Len(s) - 1)
RemoveAt(s, i) == SubSeq(s, 1, i - 1) \o SubSeq(s, i + 1, Len(s))
Reverse(s) == [i \in 1 .. Len(s) |-> s[Len(s) + 1 - i]]

IsPrefix(s, t) == Len(s) <= Len(t) /\ \A i \in DOMAIN s : s[i] = t[i]

\* The entries of a list that are in a set, in their order
Among(s, T) ==
    LET upto[n \in 0 .. Len(s)] ==
            IF n = 0 THEN <<>>
            ELSE IF s[n] \in T THEN Append(upto[n - 1], s[n]) ELSE upto[n - 1]
    IN upto[Len(s)]

\* The position of the first entry that is in a set; 0 if there is none
Position(s, T) ==
    IF \E i \in DOMAIN s : s[i] \in T
    THEN CHOOSE i \in DOMAIN s : s[i] \in T /\ \A j \in 1 .. i - 1 : s[j] \notin T
    ELSE 0

\* Lists one after the other
FlattenSeq(lists) ==
    LET upto[n \in 0 .. Len(lists)] ==
            IF n = 0 THEN <<>> ELSE upto[n - 1] \o lists[n]
    IN upto[Len(lists)]

\* A set in some order, and in every order
SetToSeq(S) == CHOOSE order \in [1 .. Cardinality(S) -> S] : IsInjective(order)
SetToSeqs(S) == Injection(1 .. Cardinality(S), S)
=============================================================================
