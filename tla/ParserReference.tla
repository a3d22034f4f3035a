-------------------------- MODULE ParserReference --------------------------
(***************************************************************************)
(* What the texts of Parsers mean, defined without scanning them.          *)
(***************************************************************************)
EXTENDS Parsers

\* The texts that consist of characters of set alone.
All(s, set) == Range(s) \subseteq set

\* The number a text of digits denotes: Weight[n] is the weight of a digit with n
\* digits behind it.
NumberOf(s) ==
    LET Weight[n \in 0..Len(s)] == IF n = 0 THEN 1 ELSE 10 * Weight[n - 1]
    IN SumFunction([i \in DOMAIN s |-> DigitValue[s[i]] * Weight[Len(s) - i]])

\* The words of a text.
Words(s) == Tokens(s, Separators)

\* The place a path leads to from the top directory, with .. above it kept.
Enter(at, name) ==
    IF name \in {<<>>, <<".">>} THEN at
    ELSE IF name = <<".", ".">> /\ at # <<>> /\ Last(at) # name THEN Front(at)
    ELSE Append(at, name)
Place(path) == FoldLeft(Enter, <<>>, SplitAt(path, "/"))
=============================================================================
