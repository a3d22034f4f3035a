------------------------------- MODULE Texts -------------------------------
(***************************************************************************)
(* Texts and their parts.  A text is a sequence of one-character strings;  *)
(* its parts are defined by where they start and stop, not by a scan.      *)
(***************************************************************************)
EXTENDS Integers, FiniteSets, Sequences, SequencesExt

Nul == "nul"

\* The text up to the first character of ends.
Before(s, ends) == SubSeq(s, 1, Min({i \in DOMAIN s : s[i] \in ends} \cup {Len(s) + 1}) - 1)

\* The k-th smallest of a set of numbers.
Nth(set, k) == CHOOSE i \in {j \in set : Cardinality({l \in set : l <= j}) = k} : TRUE

\* The pieces of s between the occurrences of c, which may be empty.
Cuts(s, c) == {0, Len(s) + 1} \cup {i \in DOMAIN s : s[i] = c}
SplitAt(s, c) ==
    [k \in 1..Cardinality(Cuts(s, c)) - 1 |->
        SubSeq(s, Nth(Cuts(s, c), k) + 1, Nth(Cuts(s, c), k + 1) - 1)]

\* The longest stretches of s without a character of separators, from left to
\* right: the k-th one goes from the k-th place where one starts to the k-th
\* where one stops.
InToken(s, separators, i) == i \in DOMAIN s /\ s[i] \notin separators
TokenStarts(s, separators) ==
    {i \in DOMAIN s : InToken(s, separators, i) /\ ~InToken(s, separators, i - 1)}
TokenStops(s, separators) ==
    {i \in DOMAIN s : InToken(s, separators, i) /\ ~InToken(s, separators, i + 1)}
Tokens(s, separators) ==
    LET starts == TokenStarts(s, separators)
        stops == TokenStops(s, separators)
    IN [k \in 1..Cardinality(starts) |-> SubSeq(s, Nth(starts, k), Nth(stops, k))]
=============================================================================
