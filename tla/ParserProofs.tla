---------------------------- MODULE ParserProofs ----------------------------
(***************************************************************************)
(* What the parsers return, for every text: parse_cmd, the path test of    *)
(* the package installer, and the control line, REST and PORT of the FTP   *)
(* server.                                                                 *)
(***************************************************************************)
EXTENDS ParserChecks, SequenceLemmas

\* A line is a text of Chars.
Typed == line \in Seq(Chars)

\* Typing keeps the line a text.
LEMMA LineTyped == LineSpec => []Typed
<1>1. LineInit => Typed
  BY DEF LineInit, Typed
<1>2. Typed /\ [TypeChar]_line => Typed'
  <2> SUFFICES ASSUME Typed, [TypeChar]_line PROVE Typed'
      OBVIOUS
  <2>1. CASE TypeChar
    <3>1. PICK c \in Chars : line' = Append(line, c)
      BY <2>1 DEF TypeChar
    <3> QED
      BY <3>1, AppendProperties DEF Typed
  <2>2. CASE UNCHANGED line
    BY <2>2 DEF Typed
  <2> QED
    BY <2>1, <2>2
<1> QED
  BY <1>1, <1>2, PTL DEF LineSpec

\* parse_cmd (parser.c) gives the words of the first line, or refuses the line
\* when it has more words than arg_list holds, for every line and every ARG_MAX.
THEOREM CommandWordsFound == LineSpec => []CommandIsWords
<1>1. Typed => CommandIsWords
  <2> SUFFICES ASSUME line \in Seq(Chars) PROVE CommandIsWords
      BY DEF Typed
  <2> DEFINE words == Tokens(Before(line, Terminals), Separators)
             parsed == parse_cmd(line, ARG_MAX)
  <2>1. /\ parsed.too_many \in BOOLEAN
        /\ parsed.too_many <=> Len(words) > ARG_MAX
        /\ ~parsed.too_many => parsed.args = words
    BY CheckAssumption, ParseCommand
  <2> QED
    BY <2>1 DEF CommandIsWords, Words
<1> QED
  BY <1>1, LineTyped, PTL

-----------------------------------------------------------------------------
(* Cursors in a text. *)

\* What a cursor reads: the characters, then the NUL.
LEMMA AtIs ==
    ASSUME NEW S, NEW s \in Seq(S)
    PROVE  /\ Len(s) \in Nat /\ DOMAIN s = 1..Len(s)
           /\ \A i \in 1..Len(s) : At(s, i) = s[i]
           /\ At(s, Len(s) + 1) = Nul
<1>1. Len(s) \in Nat /\ DOMAIN s = 1..Len(s)
  BY LenProperties
<1>2. Len(s) + 1 \notin DOMAIN s
  BY <1>1
<1> QED
  BY <1>1, <1>2 DEF At

\* A cursor that advances over the characters of set stops at the first other one.
StopsAt(s, i, j, set) ==
    j \in i..Len(s) + 1 /\ At(s, j) \notin set /\ \A k \in i..j - 1 : s[k] \in set

\* Span stops at the first character, at or behind i, that is not of set.
LEMMA SpanStops ==
    ASSUME NEW S, NEW s \in Seq(S), NEW i \in 1..Len(s) + 1, NEW set, Nul \notin set
    PROVE  /\ StopsAt(s, i, SpanEnd(s, i, set), set)
           /\ \A j : StopsAt(s, i, j, set) => j = SpanEnd(s, i, set)
<1> DEFINE L == Len(s)
           Stop(j) == At(s, j) \notin set /\ \A k \in i..j - 1 : s[k] \in set
           M == {j \in i..L + 1 : At(s, j) \notin set}
<1>1. L \in Nat /\ (\A k \in 1..L : At(s, k) = s[k]) /\ At(s, L + 1) = Nul
  BY AtIs
<1>2. L + 1 \in M /\ M \subseteq Nat
  BY <1>1
<1>3. PICK m \in M : \A j \in M : m <= j
  <2> HIDE DEF M
  <2> QED
    BY <1>2, LeastElement
<1>4. m \in i..L + 1 /\ At(s, m) \notin set
  BY <1>3
<1>5. ASSUME NEW k \in i..m - 1 PROVE s[k] \in set
  <2>1. k \in i..L + 1 /\ k \in 1..L /\ ~(m <= k)
    BY <1>1, <1>4
  <2>2. k \notin M
    BY <1>3, <2>1
  <2>3. At(s, k) \in set
    BY <2>1, <2>2
  <2> QED
    BY <1>1, <2>1, <2>3
<1>6. Stop(m)
  BY <1>4, <1>5
<1>7. ASSUME NEW j \in i..L + 1, Stop(j) PROVE j = m
  <2>1. j \in M
    BY <1>7
  <2>2. m <= j
    BY <1>3, <2>1
  <2>3. CASE m < j
    <3>1. m \in i..j - 1 /\ m \in 1..L
      BY <1>1, <1>4, <2>3
    <3>2. s[m] \in set
      BY <1>7, <3>1
    <3> QED
      BY <1>1, <1>4, <3>1, <3>2
  <2> QED
    BY <1>1, <1>4, <2>2, <2>3
<1>8. SpanEnd(s, i, set) = m
  <2>1. SpanEnd(s, i, set) = CHOOSE j \in i..L + 1 : Stop(j)
    BY DEF SpanEnd
  <2> HIDE DEF Stop
  <2> QED
    BY <1>4, <1>6, <1>7, <2>1
<1> QED
  BY <1>4, <1>6, <1>7, <1>8 DEF StopsAt

\* A cursor that looks for a character of set stops there or at the end.
FindsAt(s, i, j, set) ==
    /\ j \in i..Len(s) + 1 /\ At(s, j) \in set \cup {Nul}
    /\ \A k \in i..j - 1 : s[k] \notin set \cup {Nul}

\* Until stops at the first character of set at or behind i.
LEMMA UntilStops ==
    ASSUME NEW S, NEW s \in Seq(S), NEW i \in 1..Len(s) + 1, NEW set
    PROVE  /\ FindsAt(s, i, UntilEnd(s, i, set), set)
           /\ \A j : FindsAt(s, i, j, set) => j = UntilEnd(s, i, set)
<1> DEFINE L == Len(s)
           E == set \cup {Nul}
           Stop(j) == At(s, j) \in E /\ \A k \in i..j - 1 : s[k] \notin E
           M == {j \in i..L + 1 : At(s, j) \in E}
<1>1. L \in Nat /\ (\A k \in 1..L : At(s, k) = s[k]) /\ At(s, L + 1) = Nul
  BY AtIs
<1>2. L + 1 \in M /\ M \subseteq Nat
  BY <1>1
<1> HIDE DEF E
<1>3. PICK m \in M : \A j \in M : m <= j
  <2> HIDE DEF M
  <2> QED
    BY <1>2, LeastElement
<1>4. m \in i..L + 1 /\ At(s, m) \in E
  BY <1>3
<1>5. ASSUME NEW k \in i..m - 1 PROVE s[k] \notin E
  <2>1. k \in i..L + 1 /\ k \in 1..L /\ ~(m <= k)
    BY <1>1, <1>4
  <2>2. k \notin M
    BY <1>3, <2>1
  <2>3. At(s, k) \notin E
    BY <2>1, <2>2
  <2> QED
    BY <1>1, <2>1, <2>3
<1>6. Stop(m)
  BY <1>4, <1>5
<1>7. ASSUME NEW j \in i..L + 1, Stop(j) PROVE j = m
  <2>1. j \in M
    BY <1>7
  <2>2. m <= j
    BY <1>3, <2>1
  <2>3. CASE m < j
    <3>1. m \in i..j - 1 /\ m \in 1..L
      BY <1>1, <1>4, <2>3
    <3>2. s[m] \notin E
      BY <1>7, <3>1
    <3> QED
      BY <1>1, <1>4, <3>1, <3>2
  <2> QED
    BY <1>1, <1>4, <2>2, <2>3
<1>8. UntilEnd(s, i, set) = m
  <2>1. UntilEnd(s, i, set) = CHOOSE j \in i..L + 1 : Stop(j)
    BY DEF UntilEnd, E
  <2> HIDE DEF Stop
  <2> QED
    BY <1>4, <1>6, <1>7, <2>1
<1> QED
  BY <1>4, <1>6, <1>7, <1>8 DEF FindsAt, E

-----------------------------------------------------------------------------
(* Paths in an archive. *)

\* Entering a component gives a place again.
LEMMA EnterType ==
    ASSUME NEW S, NEW at \in Seq(Seq(S)), NEW name \in Seq(S)
    PROVE  Enter(at, name) \in Seq(Seq(S))
<1>1. Append(at, name) \in Seq(Seq(S))
  BY AppendProperties
<1>2. at # <<>> => Front(at) \in Seq(Seq(S))
  <2>1. Len(at) \in Nat /\ \A i \in 1..Len(at) : at[i] \in Seq(S)
    BY LenProperties, ElementOfSeq
  <2>2. \A i \in 1..Len(at) - 1 : at[i] \in Seq(S)
    BY <2>1
  <2>3. 1 \in Int /\ Len(at) - 1 \in Int
    BY <2>1
  <2>4. SubSeq(at, 1, Len(at) - 1) \in Seq(Seq(S))
    BY <2>2, <2>3, SubSeqProperties
  <2> QED
    BY <2>4 DEF Front
<1> QED
  BY <1>1, <1>2 DEF Enter

\* Place enters one component after the other.
LEMMA PlaceSteps ==
    ASSUME NEW S, NEW q \in Seq(Seq(S))
    PROVE  \E h \in [0..Len(q) -> Seq(Seq(S))] :
             /\ h[0] = <<>>
             /\ \A n \in 0..Len(q) - 1 : h[n + 1] = Enter(h[n], q[n + 1])
             /\ FoldLeft(Enter, <<>>, q) = h[Len(q)]
<1> DEFINE V == Seq(Seq(S))
           D == SUBSET (1..Len(q))
           step == [p \in V \X Seq(S) |-> Enter(p[1], p[2])]
           Is(g) == g = [A \in SUBSET DOMAIN q |->
                           IF A = {} THEN <<>> ELSE Enter(g[A \ {Max(A)}], q[Max(A)])]
           iter == CHOOSE g : Is(g)
<1>1. Len(q) \in Nat /\ DOMAIN q = 1..Len(q) /\ \A i \in 1..Len(q) : q[i] \in Seq(S)
  BY LenProperties, ElementOfSeq
<1>2. step \in [V \X Seq(S) -> V]
  <2> SUFFICES ASSUME NEW p \in V \X Seq(S) PROVE Enter(p[1], p[2]) \in V
      OBVIOUS
  <2>1. p[1] \in V /\ p[2] \in Seq(S)
    OBVIOUS
  <2> QED
    BY <2>1, EnterType
<1>3. PICK g \in [D -> V] :
        /\ g[{}] = <<>>
        /\ \A A \in D : A # {} => Max(A) \in A /\ g[A] = step[<<g[A \ {Max(A)}], q[Max(A)]>>]
  <2>1. <<>> \in V
    OBVIOUS
  <2> HIDE DEF step, V
  <2>2. PICK g : IsFold(g, V, <<>>, q, step)
    BY <1>2, <2>1, FoldExists
  <2> QED
    BY <2>2 DEF IsFold
<1>4. ASSUME NEW A \in D PROVE g[A] = IF A = {} THEN <<>> ELSE Enter(g[A \ {Max(A)}], q[Max(A)])
  <2>1. CASE A = {}
    BY <1>3, <2>1
  <2>2. CASE A # {}
    <3> DEFINE v == g[A \ {Max(A)}]
               e == q[Max(A)]
    <3>1. v \in V /\ e \in Seq(S)
      <4>1. A \ {Max(A)} \in D /\ Max(A) \in 1..Len(q)
        BY <1>3, <2>2
      <4> QED
        BY <1>1, <1>3, <4>1
    <3>2. g[A] = step[<<v, e>>]
      BY <1>3, <2>2
    <3> HIDE DEF v, e
    <3>3. <<v, e>> \in V \X Seq(S) /\ <<v, e>>[1] = v /\ <<v, e>>[2] = e
      BY <3>1
    <3>4. step[<<v, e>>] = Enter(v, e)
      BY <3>3
    <3> HIDE DEF step
    <3> QED
      BY <2>2, <3>2, <3>4 DEF v, e
  <2> QED
    BY <2>1, <2>2
<1>5. Is(g)
  <2> DEFINE f(A) == IF A = {} THEN <<>> ELSE Enter(g[A \ {Max(A)}], q[Max(A)])
  <2>1. \A A \in D : g[A] = f(A)
    BY <1>4
  <2> HIDE DEF f
  <2>2. g = [A \in D |-> f(A)]
    BY <1>3, <2>1
  <2> QED
    BY <1>1, <2>2 DEF f
<1>6. Is(iter)
  BY <1>5
<1>7. FoldLeft(Enter, <<>>, q) = iter[DOMAIN q]
  BY DEF FoldLeft, MapThenFoldSet
<1> HIDE DEF iter
<1>8. ASSUME NEW A \in D
      PROVE iter[A] = IF A = {} THEN <<>> ELSE Enter(iter[A \ {Max(A)}], q[Max(A)])
  <2> DEFINE f(A_1) == IF A_1 = {} THEN <<>> ELSE Enter(iter[A_1 \ {Max(A_1)}], q[Max(A_1)])
  <2>1. iter = [A_1 \in D |-> f(A_1)]
    BY <1>1, <1>6
  <2> HIDE DEF f
  <2>2. iter[A] = f(A)
    BY <2>1
  <2> QED
    BY <2>2 DEF f
<1> DEFINE h == [n \in 0..Len(q) |-> iter[1..n]]
<1>9. h[0] = <<>>
  <2>1. 1..0 = {} /\ 0 \in 0..Len(q) /\ {} \in D
    BY <1>1
  <2> QED
    BY <1>8, <2>1
<1>10. ASSUME NEW n \in 0..Len(q) - 1 PROVE h[n + 1] = Enter(h[n], q[n + 1])
  <2>1. n \in Nat /\ n \in 0..Len(q) /\ n + 1 \in 0..Len(q) /\ 1..n + 1 \in D
    BY <1>1
  <2>2. 1..n + 1 # {} /\ Max(1..n + 1) = n + 1 /\ (1..n + 1) \ {n + 1} = 1..n
    BY <2>1, FirstNumbers
  <2>3. iter[1..n + 1] = Enter(iter[1..n], q[n + 1])
    BY <1>8, <2>1, <2>2
  <2>4. h[n + 1] = iter[1..n + 1] /\ h[n] = iter[1..n]
    BY <2>1
  <2> QED
    BY <2>3, <2>4
<1>11. h \in [0..Len(q) -> V]
  <2> DEFINE X == {n \in Nat : n <= Len(q) => h[n] \in V}
  <2>1. 0 \in X
    <3>1. <<>> \in V
      OBVIOUS
    <3> HIDE DEF h, V
    <3> QED
      BY <1>9, <3>1
  <2>2. ASSUME NEW n \in Nat, n \in X PROVE n + 1 \in X
    <3> SUFFICES ASSUME n + 1 <= Len(q) PROVE h[n + 1] \in V
        OBVIOUS
    <3>1. n <= Len(q) /\ n \in 0..Len(q) - 1 /\ n + 1 \in 1..Len(q)
      BY <1>1
    <3>2. h[n] \in V
      BY <2>2, <3>1
    <3>3. q[n + 1] \in Seq(S)
      BY <1>1, <3>1
    <3>4. Enter(h[n], q[n + 1]) \in V
      <4> HIDE DEF h
      <4> QED
        BY <3>2, <3>3, EnterType
    <3> HIDE DEF h
    <3> QED
      BY <1>10, <3>1, <3>4
  <2>3. Nat \subseteq X
    <3> HIDE DEF X
    <3> QED
      BY <2>1, <2>2, SetInduction
  <2>4. \A n \in 0..Len(q) : h[n] \in V
    <3> HIDE DEF h
    <3> QED
      BY <1>1, <2>3
  <2>5. h = [n \in 0..Len(q) |-> h[n]]
    OBVIOUS
  <2> HIDE DEF h
  <2> QED
    BY <2>4, <2>5
<1>12. FoldLeft(Enter, <<>>, q) = h[Len(q)]
  BY <1>1, <1>7
<1> HIDE DEF h
<1> QED
  BY <1>9, <1>10, <1>11, <1>12

\* The components that lead nowhere: an empty one and the directory itself.
Nowhere == {<<>>, <<".">>}

\* The components of a place that only leads down are the place; a place has no
\* component that leads nowhere.
LEMMA PlaceOfNames ==
    ASSUME NEW S, NEW q \in Seq(Seq(S)), q # <<>>
    PROVE  LET place == FoldLeft(Enter, <<>>, q)
           IN (place # <<>> /\ place = q /\ <<".", ".">> \notin Range(place))
                <=> \A k \in 1..Len(q) : q[k] \notin NoName
<1> DEFINE place == FoldLeft(Enter, <<>>, q)
           N == Len(q)
<1>1. N \in Nat /\ \A i \in 1..N : q[i] \in Seq(S)
  BY LenProperties, ElementOfSeq
<1>2. PICK h \in [0..N -> Seq(Seq(S))] :
        h[0] = <<>> /\ (\A n \in 0..N - 1 : h[n + 1] = Enter(h[n], q[n + 1])) /\ place = h[N]
  BY PlaceSteps
<1> HIDE DEF place
<1>3. ASSUME \A k \in 1..N : q[k] \notin NoName
      PROVE  place = q
  <2> DEFINE X == {n \in Nat : n <= N => h[n] = SubSeq(q, 1, n)}
  <2>1. 0 \in X
    BY <1>2, SubSeqEmpty
  <2>2. ASSUME NEW n \in Nat, n \in X PROVE n + 1 \in X
    <3> SUFFICES ASSUME n + 1 <= N PROVE h[n + 1] = SubSeq(q, 1, n + 1)
        OBVIOUS
    <3>1. n <= N /\ n \in 0..N - 1 /\ n + 1 \in 1..N /\ (n + 1) - 1 = n
      BY <1>1
    <3>2. h[n] = SubSeq(q, 1, n) /\ h[n] \in Seq(Seq(S))
      <4>1. n \in 0..N
        BY <1>1, <3>1
      <4>2. h[n] \in Seq(Seq(S))
        BY <4>1
      <4>3. h[n] = SubSeq(q, 1, n)
        BY <2>2, <3>1
      <4> QED
        BY <4>2, <4>3
    <3>3. Enter(h[n], q[n + 1]) = Append(h[n], q[n + 1])
      <4>1. q[n + 1] \notin NoName
        BY <1>3, <3>1
      <4>2. q[n + 1] \notin {<<>>, <<".">>} /\ q[n + 1] # <<".", ".">>
        BY <4>1 DEF NoName
      <4> QED
        BY <4>2 DEF Enter
    <3>4. SubSeq(q, 1, n + 1) = SubSeq(q, 1, (n + 1) - 1) \o <<q[n + 1]>>
      <4>1. 1 \in 1..Len(q) /\ n + 1 \in 1..Len(q)
        BY <1>1, <3>1
      <4> QED
        BY <4>1, SubSeqRecursiveSecond
    <3>5. Append(h[n], q[n + 1]) = h[n] \o <<q[n + 1]>>
      BY <1>1, <3>1, <3>2, AppendIsConcat
    <3>6. h[n + 1] = Enter(h[n], q[n + 1])
      BY <1>2, <3>1
    <3> QED
      BY <3>1, <3>2, <3>3, <3>4, <3>5, <3>6
  <2>3. N \in X
    <3> HIDE DEF X
    <3> QED
      BY <1>1, <2>1, <2>2, SetInduction
  <2>4. h[N] = SubSeq(q, 1, N)
    BY <1>1, <2>3
  <2> QED
    BY <1>2, <2>4, SubSeqFull
<1>4. \A k \in 1..Len(place) : place[k] \notin Nowhere
  <2> DEFINE Down(p) == \A k \in 1..Len(p) : p[k] \notin Nowhere
             X == {n \in Nat : n <= N => Down(h[n])}
  <2>1. 0 \in X
    <3>1. Len(<<>>) = 0
      OBVIOUS
    <3> QED
      BY <1>2, <3>1
  <2>2. ASSUME NEW n \in Nat, n \in X PROVE n + 1 \in X
    <3> SUFFICES ASSUME n + 1 <= N PROVE Down(h[n + 1])
      <4> HIDE DEF Down
      <4> QED
        OBVIOUS
    <3> DEFINE p == h[n]
               c == q[n + 1]
    <3>1. n <= N /\ n \in 0..N - 1 /\ n \in 0..N /\ n + 1 \in 1..N
      BY <1>1
    <3>2. p \in Seq(Seq(S)) /\ c \in Seq(S) /\ h[n + 1] = Enter(p, c)
      BY <1>1, <1>2, <3>1
    <3>3. Down(p)
      <4> HIDE DEF Down
      <4> QED
        BY <2>2, <3>1
    <3> HIDE DEF p, c
    <3>4. Len(p) \in Nat
      BY <3>2, LenProperties
    <3>5. CASE c \in Nowhere
      <4>1. Enter(p, c) = p
        BY <3>5 DEF Enter, Nowhere
      <4> QED
        BY <3>2, <3>3, <4>1
    <3>6. CASE Enter(p, c) = Front(p)
      <4>1. \A i \in 1..Len(p) - 1 : p[i] \in Seq(S)
        BY <3>2, <3>4, ElementOfSeq
      <4>2. /\ Len(SubSeq(p, 1, Len(p) - 1)) = IF 1 <= Len(p) - 1 THEN (Len(p) - 1) - 1 + 1 ELSE 0
            /\ \A i \in 1..(Len(p) - 1) - 1 + 1 : SubSeq(p, 1, Len(p) - 1)[i] = p[1 + i - 1]
        BY <3>4, <4>1, SubSeqProperties
      <4>3. \A i \in 1..Len(Front(p)) : Front(p)[i] = p[i] /\ i \in 1..Len(p)
        BY <3>4, <4>2 DEF Front
      <4> QED
        BY <3>2, <3>3, <3>6, <4>3
    <3>7. CASE c \notin Nowhere /\ Enter(p, c) = Append(p, c)
      <4>1. /\ Len(Append(p, c)) = Len(p) + 1 /\ Append(p, c)[Len(p) + 1] = c
            /\ \A i \in 1..Len(p) : Append(p, c)[i] = p[i]
        BY <3>2, AppendProperties
      <4>2. ASSUME NEW i \in 1..Len(Append(p, c)) PROVE Append(p, c)[i] \notin Nowhere
        <5>1. CASE i = Len(p) + 1
          BY <3>7, <4>1, <5>1
        <5>2. CASE i # Len(p) + 1
          <6>1. i \in 1..Len(p)
            BY <3>4, <4>1, <5>2
          <6> QED
            BY <3>3, <4>1, <6>1
        <5> QED
          BY <5>1, <5>2
      <4> QED
        BY <3>2, <3>7, <4>2
    <3>8. c \in Nowhere \/ Enter(p, c) = Front(p) \/ (c \notin Nowhere /\ Enter(p, c) = Append(p, c))
      BY DEF Enter, Nowhere
    <3> QED
      BY <3>5, <3>6, <3>7, <3>8
  <2>3. N \in X
    <3> HIDE DEF X
    <3> QED
      BY <1>1, <2>1, <2>2, SetInduction
  <2>4. Down(h[N])
    <3> HIDE DEF Down
    <3> QED
      BY <1>1, <2>3
  <2> QED
    BY <1>2, <2>4
<1>5. ASSUME place = q, <<".", ".">> \notin Range(place), NEW k \in 1..N PROVE q[k] \notin NoName
  <2>1. q[k] \notin Nowhere
    BY <1>4, <1>5
  <2>2. DOMAIN q = 1..N
    BY LenProperties
  <2>3. q[k] # <<".", ".">>
    BY <1>5, <2>2 DEF Range
  <2> QED
    BY <2>1, <2>3 DEF NoName, Nowhere
<1>6. ASSUME \A k \in 1..N : q[k] \notin NoName
      PROVE  <<".", ".">> \notin Range(q)
  <2>1. DOMAIN q = 1..N
    BY LenProperties
  <2> QED
    BY <1>6, <2>1 DEF Range, NoName
<1> QED
  BY <1>3, <1>5, <1>6 DEF place

\* A last component without a name changes no place.
LEMMA PlaceWithSlash ==
    ASSUME NEW S, NEW q \in Seq(Seq(S))
    PROVE  FoldLeft(Enter, <<>>, Append(q, <<>>)) = FoldLeft(Enter, <<>>, q)
<1> DEFINE N == Len(q)
           r == Append(q, <<>>)
<1>1. /\ N \in Nat /\ r \in Seq(Seq(S)) /\ Len(r) = N + 1 /\ r[N + 1] = <<>>
      /\ \A i \in 1..N : r[i] = q[i]
  <2>1. <<>> \in Seq(S)
    OBVIOUS
  <2> QED
    BY <2>1, AppendProperties, LenProperties
<1> HIDE DEF r
<1>2. PICK h \in [0..N -> Seq(Seq(S))] :
        /\ h[0] = <<>> /\ (\A n \in 0..N - 1 : h[n + 1] = Enter(h[n], q[n + 1]))
        /\ FoldLeft(Enter, <<>>, q) = h[N]
  BY PlaceSteps
<1>3. PICK f \in [0..N + 1 -> Seq(Seq(S))] :
        /\ f[0] = <<>> /\ (\A n \in 0..N : f[n + 1] = Enter(f[n], r[n + 1]))
        /\ FoldLeft(Enter, <<>>, r) = f[N + 1]
  <2>1. PICK f \in [0..Len(r) -> Seq(Seq(S))] :
          /\ f[0] = <<>> /\ (\A n \in 0..Len(r) - 1 : f[n + 1] = Enter(f[n], r[n + 1]))
          /\ FoldLeft(Enter, <<>>, r) = f[Len(r)]
    BY <1>1, PlaceSteps
  <2>2. Len(r) - 1 = N
    BY <1>1
  <2> QED
    BY <1>1, <2>1, <2>2
<1> DEFINE X == {n \in Nat : n <= N => f[n] = h[n]}
<1>4. 0 \in X
  BY <1>2, <1>3
<1>5. ASSUME NEW n \in Nat, n \in X PROVE n + 1 \in X
  <2> SUFFICES ASSUME n + 1 <= N PROVE f[n + 1] = h[n + 1]
      OBVIOUS
  <2>1. n <= N /\ n \in 0..N - 1 /\ n \in 0..N /\ n + 1 \in 1..N
    BY <1>1
  <2> QED
    BY <1>1, <1>2, <1>3, <1>5, <2>1
<1>6. N \in X
  <2> HIDE DEF X
  <2> QED
    BY <1>1, <1>4, <1>5, SetInduction
<1>7. f[N + 1] = Enter(f[N], <<>>)
  <2>1. N \in 0..N
    BY <1>1
  <2> QED
    BY <1>1, <1>3, <2>1
<1>8. Enter(f[N], <<>>) = f[N]
  BY DEF Enter
<1>9. f[N] = h[N]
  BY <1>1, <1>6
<1> QED
  BY <1>2, <1>3, <1>7, <1>8, <1>9 DEF r

\* The path without the slash it may end in.
Plain(path) == IF path # <<>> /\ Last(path) = "/" THEN Front(path) ELSE path

\* The path without its last slash, as a first part of the path.
LEMMA PlainIs ==
    ASSUME NEW S, NEW path \in Seq(S)
    PROVE  LET L == Len(path)
               B == Len(Plain(path))
           IN /\ L \in Nat /\ B \in Nat /\ Plain(path) \in Seq(S)
              /\ \A i \in 1..B : Plain(path)[i] = path[i]
              /\ \/ B = L /\ Plain(path) = path /\ (L # 0 => path[L] # "/")
                 \/ B = L - 1 /\ L # 0 /\ path[L] = "/" /\ path = Append(Plain(path), "/")
<1> DEFINE L == Len(path)
<1>1. L \in Nat /\ (path # <<>> <=> L # 0)
  BY LenProperties, EmptySeq
<1>2. CASE path # <<>> /\ Last(path) = "/"
  <2> DEFINE f == SubSeq(path, 1, L - 1)
  <2>1. Plain(path) = f
    BY <1>2 DEF Plain, Front
  <2>2. 1 \in 1..L + 1 /\ L - 1 \in 0..L /\ 1 \in 1..L /\ L \in 1..L
    BY <1>1, <1>2
  <2>3. f \in Seq(S) /\ Len(f) = L - 1 /\ \A i \in 1..L - 1 : f[i] = path[i]
    BY <2>2, FirstPart
  <2>4. SubSeq(path, 1, L) = f \o <<path[L]>>
    BY <2>2, SubSeqRecursiveSecond
  <2> HIDE DEF f
  <2>6. path[L] = "/" /\ path[L] \in S
    BY <1>2, <2>2, ElementOfSeq DEF Last
  <2>7. path = Append(f, "/")
    BY <2>3, <2>4, <2>6, SubSeqFull, AppendIsConcat
  <2> QED
    BY <1>1, <1>2, <2>1, <2>2, <2>3, <2>6, <2>7
<1>3. CASE ~(path # <<>> /\ Last(path) = "/")
  <2>1. Plain(path) = path
    BY <1>3 DEF Plain
  <2>2. L # 0 => path[L] # "/"
    BY <1>1, <1>3 DEF Last
  <2> QED
    BY <1>1, <2>1, <2>2
<1> QED
  BY <1>2, <1>3

\* The components the loop comes by are the pieces of the path between its slashes.
LEMMA ComponentsArePieces ==
    ASSUME NEW S, NEW path \in Seq(S), \A i \in 1..Len(path) : path[i] # Nul
    PROVE  LET pieces == SplitAt(Plain(path), "/")
           IN (\A i \in ComponentStarts(path) :
                 SubSeq(path, i, UntilEnd(path, i, {"/"}) - 1) \notin NoName)
                <=> \A k \in 1..Len(pieces) : pieces[k] \notin NoName
<1> DEFINE L == Len(path)
           plain == Plain(path)
           B == Len(plain)
           q == SplitAt(plain, "/")
           n == Len(q)
           cut(k) == Nth(Cuts(plain, "/"), k)
           Part(i) == SubSeq(path, i, UntilEnd(path, i, {"/"}) - 1)
<1>1. /\ L \in Nat /\ B \in Nat /\ plain \in Seq(S)
      /\ \A i \in 1..B : plain[i] = path[i]
      /\ \/ B = L /\ (L # 0 => path[L] # "/")
         \/ B = L - 1 /\ L # 0 /\ path[L] = "/"
  BY PlainIs
<1>2. q \in Seq(Seq(S)) /\ n \in Nat \ {0} /\ Pieces(plain, "/", n)
  BY <1>1, SplitPieces
<1>3. /\ cut(1) = 0 /\ cut(n + 1) = B + 1
      /\ \A k \in 1..n :
            /\ cut(k) \in 0..B /\ cut(k + 1) \in 1..B + 1 /\ cut(k) < cut(k + 1)
            /\ q[k] = SubSeq(plain, cut(k) + 1, cut(k + 1) - 1)
            /\ \A i \in cut(k) + 1..cut(k + 1) - 1 : plain[i] # "/"
            /\ cut(k) # 0 => plain[cut(k)] = "/"
      /\ \A i \in 1..B : plain[i] = "/" => \E k \in 1..n : cut(k) = i
  BY <1>2 DEF Pieces
<1>4. (\A i \in 1..L : At(path, i) = path[i]) /\ At(path, L + 1) = Nul
  BY AtIs
<1> HIDE DEF plain, q, n, cut
<1>5. ASSUME NEW k \in 1..n
      PROVE  cut(k) + 1 \in ComponentStarts(path) /\ q[k] = Part(cut(k) + 1)
  <2> DEFINE a == cut(k)
             b == cut(k + 1)
  <2>1. /\ a \in 0..B /\ b \in 1..B + 1 /\ a < b
        /\ q[k] = SubSeq(plain, a + 1, b - 1)
        /\ \A i \in a + 1..b - 1 : plain[i] # "/"
        /\ a # 0 => plain[a] = "/"
    BY <1>3
  <2>2. b = B + 1 \/ (b \in 1..B /\ plain[b] = "/")
    <3>1. CASE k = n
      BY <1>3, <3>1
    <3>2. CASE k # n
      <4>1. k + 1 \in 1..n
        BY <1>2, <3>2
      <4>2. b \in 0..B /\ (b # 0 => plain[b] = "/")
        BY <1>3, <4>1
      <4> QED
        BY <1>1, <2>1, <4>2
    <3> QED
      BY <3>1, <3>2
  <2> HIDE DEF a, b
  <2>3. a + 1 \in ComponentStarts(path)
    <3>1. CASE a = 0
      BY <3>1 DEF ComponentStarts
    <3>2. CASE a # 0
      <4>1. a \in 1..B /\ path[a] = "/"
        BY <1>1, <2>1, <3>2
      <4>2. a \in 1..L - 1
        BY <1>1, <4>1
      <4> QED
        BY <4>1, <4>2 DEF ComponentStarts
    <3> QED
      BY <3>1, <3>2
  <2>4. a + 1 \in 1..L + 1 /\ b \in a + 1..L + 1 /\ b - 1 <= L /\ b - 1 <= B /\ b - 1 \in Nat
        /\ a + 1 \in Nat \ {0}
    BY <1>1, <2>1
  <2>5. At(path, b) \in {"/"} \cup {Nul}
    <3>1. CASE b \in 1..B /\ plain[b] = "/"
      <4>1. b \in 1..L /\ path[b] = "/"
        BY <1>1, <3>1
      <4> QED
        BY <1>4, <4>1
    <3>2. CASE b = B + 1
      <4>1. B = L \/ (B = L - 1 /\ L \in 1..L /\ path[L] = "/")
        BY <1>1
      <4>2. CASE B = L
        BY <1>4, <3>2, <4>2
      <4>3. CASE B = L - 1 /\ L \in 1..L /\ path[L] = "/"
        <5>1. b = L
          BY <1>1, <3>2, <4>3
        <5> QED
          BY <1>4, <4>3, <5>1
      <4> QED
        BY <4>1, <4>2, <4>3
    <3> QED
      BY <2>2, <3>1, <3>2
  <2>6. ASSUME NEW i \in a + 1..b - 1 PROVE path[i] \notin {"/"} \cup {Nul}
    <3>1. i \in 1..B /\ i \in 1..L
      BY <1>1, <2>1
    <3> QED
      BY <1>1, <2>1, <3>1
  <2>7. FindsAt(path, a + 1, b, {"/"})
    BY <2>4, <2>5, <2>6 DEF FindsAt
  <2>8. b = UntilEnd(path, a + 1, {"/"})
    BY <2>4, <2>7, UntilStops
  <2>9. SubSeq(plain, a + 1, b - 1) = SubSeq(path, a + 1, b - 1)
    <3>1. \A i \in a + 1..b - 1 : plain[i] = path[i]
      BY <1>1, <2>1
    <3> QED
      BY <1>1, <2>4, <3>1, SameSlice
  <2> QED
    BY <2>1, <2>3, <2>8, <2>9 DEF a, b
<1>6. ASSUME NEW i \in ComponentStarts(path) PROVE \E k \in 1..n : cut(k) + 1 = i
  <2>1. CASE i = 1
    <3>1. 1 \in 1..n
      BY <1>2
    <3> QED
      BY <1>3, <2>1, <3>1
  <2>2. CASE i # 1
    <3>1. PICK j \in 1..L - 1 : path[j] = "/" /\ i = j + 1
      BY <2>2 DEF ComponentStarts
    <3>2. j \in 1..B
      BY <1>1, <3>1
    <3>3. plain[j] = "/"
      BY <1>1, <3>1, <3>2
    <3>4. PICK k \in 1..n : cut(k) = j
      BY <1>3, <3>2, <3>3
    <3> QED
      BY <3>1, <3>4
  <2> QED
    BY <2>1, <2>2
<1> HIDE DEF Part
<1>7. (\A i \in ComponentStarts(path) : Part(i) \notin NoName) <=> \A k \in 1..n : q[k] \notin NoName
  <2>1. ASSUME \A i \in ComponentStarts(path) : Part(i) \notin NoName, NEW k \in 1..n
        PROVE  q[k] \notin NoName
    BY <1>5, <2>1
  <2>2. ASSUME \A k \in 1..n : q[k] \notin NoName, NEW i \in ComponentStarts(path)
        PROVE  Part(i) \notin NoName
    <3>1. PICK k \in 1..n : cut(k) + 1 = i
      BY <1>6
    <3> QED
      BY <1>5, <2>2, <3>1
  <2> QED
    BY <2>1, <2>2
<1> QED
  BY <1>7 DEF Part, q, n, plain

\* is_safe_archive_path accepts the plain spellings of places below the stage.
LEMMA SafePathIs ==
    ASSUME NEW S, NEW path \in Seq(S), \A i \in 1..Len(path) : path[i] # Nul
    PROVE  is_safe_archive_path(path) <=>
             /\ Range(path) \cap {":", "\\"} = {}
             /\ Place(path) # <<>> /\ Place(path) = SplitAt(Plain(path), "/")
             /\ <<".", ".">> \notin Range(Place(path))
<1> DEFINE L == Len(path)
           q == SplitAt(Plain(path), "/")
           Parts == \A i \in ComponentStarts(path) :
                      SubSeq(path, i, UntilEnd(path, i, {"/"}) - 1) \notin NoName
           Named == \A k \in 1..Len(q) : q[k] \notin NoName
<1>1. /\ L \in Nat /\ Plain(path) \in Seq(S)
      /\ Plain(path) = path \/ (L # 0 /\ path[L] = "/" /\ path = Append(Plain(path), "/"))
  BY PlainIs
<1>2. q \in Seq(Seq(S)) /\ Len(q) \in Nat \ {0} /\ q # <<>>
  <2>1. q \in Seq(Seq(S)) /\ Len(q) \in Nat \ {0}
    BY <1>1, SplitPieces
  <2>2. Len(<<>>) = 0
    OBVIOUS
  <2> QED
    BY <2>1, <2>2
<1>3. Place(path) = FoldLeft(Enter, <<>>, q)
  <2>1. CASE Plain(path) = path
    BY <2>1 DEF Place
  <2>2. CASE L # 0 /\ path[L] = "/" /\ path = Append(Plain(path), "/")
    <3>1. "/" \in S
      <4>1. L \in 1..L
        BY <1>1, <2>2
      <4> QED
        BY <2>2, <4>1, ElementOfSeq
    <3>2. SplitAt(path, "/") = Append(q, <<>>)
      BY <1>1, <2>2, <3>1, SplitAtEnd
    <3>3. FoldLeft(Enter, <<>>, Append(q, <<>>)) = FoldLeft(Enter, <<>>, q)
      BY <1>2, PlaceWithSlash
    <3> QED
      BY <3>2, <3>3 DEF Place
  <2> QED
    BY <1>1, <2>1, <2>2
<1>4. (Place(path) # <<>> /\ Place(path) = q /\ <<".", ".">> \notin Range(Place(path))) <=> Named
  <2>1. LET place == FoldLeft(Enter, <<>>, q)
        IN (place # <<>> /\ place = q /\ <<".", ".">> \notin Range(place))
             <=> \A k \in 1..Len(q) : q[k] \notin NoName
    <3> HIDE DEF q
    <3> QED
      BY <1>2, PlaceOfNames
  <2> QED
    BY <1>3, <2>1
<1>5. Parts <=> Named
  BY ComponentsArePieces
<1>6. ASSUME Parts PROVE path # <<>> /\ path[1] # "/"
  <2>1. 1 \in ComponentStarts(path)
    BY DEF ComponentStarts
  <2>2. SubSeq(path, 1, UntilEnd(path, 1, {"/"}) - 1) \notin NoName
    BY <1>6, <2>1
  <2>3. 1 \in 1..L + 1
    BY <1>1
  <2>4. ASSUME At(path, 1) \in {"/"} \cup {Nul} PROVE FALSE
    <3>1. FindsAt(path, 1, 1, {"/"})
      BY <1>1, <2>4 DEF FindsAt
    <3>2. UntilEnd(path, 1, {"/"}) = 1
      BY <2>3, <3>1, UntilStops
    <3>3. SubSeq(path, 1, 1 - 1) = <<>>
      BY SubSeqEmpty
    <3> QED
      BY <2>2, <3>2, <3>3 DEF NoName
  <2>5. (\A i \in 1..L : At(path, i) = path[i]) /\ At(path, L + 1) = Nul
    BY AtIs
  <2>6. L # 0
    BY <2>4, <2>5
  <2>7. 1 \in 1..L
    BY <1>1, <2>6
  <2>8. path[1] # "/"
    BY <2>4, <2>5, <2>7
  <2>9. Len(<<>>) = 0
    OBVIOUS
  <2> QED
    BY <2>6, <2>8, <2>9
<1>7. is_safe_archive_path(path) <=> Range(path) \cap {":", "\\"} = {} /\ Parts
  BY <1>6 DEF is_safe_archive_path
<1> QED
  BY <1>4, <1>5, <1>7

\* is_safe_archive_path (package_installer.c) accepts an entry path exactly when it
\* has no device or backslash and is the plain spelling of a place below the staging
\* directory, for every text.
THEOREM PathStaysInside == LineSpec => []SafePathStaysInside
<1>1. Typed => SafePathStaysInside
  <2> SUFFICES ASSUME line \in Seq(Chars) PROVE SafePathStaysInside
      BY DEF Typed
  <2> DEFINE path == Before(line, {Nul})
  <2>1. PICK m \in 1..Len(line) + 1 :
          /\ path = SubSeq(line, 1, m - 1) /\ \A i \in 1..m - 1 : line[i] \notin {Nul}
    BY BeforeStops
  <2>2. Len(line) \in Nat
    BY LenProperties
  <2>3. 1 \in 1..Len(line) + 1 /\ m - 1 \in 0..Len(line)
    BY <2>2
  <2> HIDE DEF path
  <2>4. path \in Seq(Chars) /\ Len(path) = m - 1 /\ \A i \in 1..m - 1 : path[i] = line[i]
    BY <2>1, <2>3, FirstPart
  <2>5. \A i \in 1..Len(path) : path[i] # Nul
    <3> SUFFICES ASSUME NEW i \in 1..Len(path) PROVE path[i] # Nul
        OBVIOUS
    <3>1. i \in 1..m - 1
      BY <2>4
    <3> QED
      BY <2>1, <2>4, <3>1
  <2>6. is_safe_archive_path(path) <=>
             /\ Range(path) \cap {":", "\\"} = {}
             /\ Place(path) # <<>> /\ Place(path) = SplitAt(Plain(path), "/")
             /\ <<".", ".">> \notin Range(Place(path))
    BY <2>4, <2>5, SafePathIs
  <2> QED
    BY <2>6 DEF SafePathStaysInside, Plain, path
<1> QED
  BY <1>1, LineTyped, PTL

-----------------------------------------------------------------------------
(* Decimal numbers. *)

\* The weights of the digits of a number.
IsWeight(g, N) ==
    g \in [0..N -> Nat] /\ g[0] = 1 /\ \A n \in 0..N - 1 : g[n + 1] = 10 * g[n]

\* Weights exist for every number of digits.
LEMMA WeightsExist == \A N \in Nat : \E g : IsWeight(g, N)
<1> DEFINE X == {N \in Nat : \E g : IsWeight(g, N)}
<1>1. 0 \in X
  <2> DEFINE g == [n \in 0..0 |-> 1]
  <2>1. IsWeight(g, 0)
    BY DEF IsWeight
  <2> QED
    BY <2>1
<1>2. ASSUME NEW N \in Nat, N \in X PROVE N + 1 \in X
  <2>1. PICK g : IsWeight(g, N)
    BY <1>2
  <2> DEFINE h == [n \in 0..N + 1 |-> IF n = N + 1 THEN 10 * g[N] ELSE g[n]]
  <2>2. g[N] \in Nat /\ \A n \in 0..N : g[n] \in Nat
    BY <2>1 DEF IsWeight
  <2>3. h \in [0..N + 1 -> Nat]
    BY <2>2
  <2>4. h[N + 1] = 10 * g[N] /\ \A n \in 0..N : h[n] = g[n]
    OBVIOUS
  <2> HIDE DEF h
  <2>5. h[0] = 1
    BY <2>1, <2>4 DEF IsWeight
  <2>6. ASSUME NEW n \in 0..(N + 1) - 1 PROVE h[n + 1] = 10 * h[n]
    <3>1. n \in 0..N
      OBVIOUS
    <3>2. CASE n = N
      BY <2>4, <3>1, <3>2
    <3>3. CASE n # N
      <4>1. n \in 0..N - 1 /\ n + 1 \in 0..N
        BY <3>1, <3>3
      <4> QED
        BY <2>1, <2>4, <3>1, <4>1 DEF IsWeight
    <3> QED
      BY <3>2, <3>3
  <2>7. IsWeight(h, N + 1)
    BY <2>3, <2>5, <2>6 DEF IsWeight
  <2> QED
    BY <2>7
<1>3. Nat \subseteq X
  <2> HIDE DEF X
  <2> QED
    BY <1>1, <1>2, SetInduction
<1> QED
  BY <1>3

\* They are the same for numbers of different length.
LEMMA WeightsAgree ==
    ASSUME NEW M \in Nat, NEW N \in Nat, NEW g, NEW h, IsWeight(g, M), IsWeight(h, N),
           NEW k \in Nat, k <= M, k <= N
    PROVE  g[k] = h[k]
<1> DEFINE X == {n \in Nat : n <= M /\ n <= N => g[n] = h[n]}
<1>1. 0 \in X
  BY DEF IsWeight
<1>2. ASSUME NEW n \in Nat, n \in X PROVE n + 1 \in X
  <2> SUFFICES ASSUME n + 1 <= M, n + 1 <= N PROVE g[n + 1] = h[n + 1]
      OBVIOUS
  <2>1. n \in 0..M - 1 /\ n \in 0..N - 1 /\ g[n] = h[n]
    BY <1>2
  <2> QED
    BY <2>1 DEF IsWeight
<1>3. k \in X
  <2> HIDE DEF X
  <2> QED
    BY <1>1, <1>2, SetInduction
<1> QED
  BY <1>3

\* A digit stands for a number below ten.
LEMMA DigitRange == \A c \in Digits : DigitValue[c] \in 0..9
<1> SUFFICES ASSUME NEW c \in Digits PROVE DigitValue[c] \in 0..9
    OBVIOUS
<1>1. DOMAIN Numerals = 1..10
  BY DEF Numerals
<1>2. PICK j \in 1..10 : c = Numerals[j]
  BY <1>1 DEF Digits, Range
<1>3. j - 1 \in 0..9 /\ Numerals[(j - 1) + 1] = c
  <2>1. (j - 1) + 1 = j /\ j - 1 \in 0..9
    OBVIOUS
  <2> QED
    BY <1>2, <2>1
<1> HIDE DEF Numerals
<1>4. (CHOOSE n \in 0..9 : Numerals[n + 1] = c) \in 0..9
  BY <1>3
<1>5. DigitValue[c] = CHOOSE n \in 0..9 : Numerals[n + 1] = c
  BY DEF DigitValue
<1> QED
  BY <1>4, <1>5

\* The number of a text, for any function that gives the weights.
LEMMA NumberIs ==
    ASSUME NEW s \in Seq(Digits), NEW g, IsWeight(g, Len(s))
    PROVE  NumberOf(s) = SumFunction([i \in 1..Len(s) |-> DigitValue[s[i]] * g[Len(s) - i]])
<1> DEFINE N == Len(s)
           Is(w) == w = [n \in 0..N |-> IF n = 0 THEN 1 ELSE 10 * w[n - 1]]
           w == CHOOSE v : Is(v)
<1>1. N \in Nat /\ DOMAIN s = 1..N
  BY LenProperties
<1>2. Is(g)
  <2> DEFINE f(n) == IF n = 0 THEN 1 ELSE 10 * g[n - 1]
  <2>1. ASSUME NEW n \in 0..N PROVE g[n] = f(n)
    <3>1. CASE n = 0
      BY <3>1 DEF IsWeight
    <3>2. CASE n # 0
      <4>1. n - 1 \in 0..N - 1 /\ (n - 1) + 1 = n
        BY <1>1, <3>2
      <4> QED
        BY <3>2, <4>1 DEF IsWeight
    <3> QED
      BY <3>1, <3>2
  <2> HIDE DEF f
  <2>2. g = [n \in 0..N |-> f(n)]
    BY <2>1 DEF IsWeight
  <2> QED
    BY <2>2 DEF f
<1>3. Is(w)
  BY <1>2
<1>4. NumberOf(s) = SumFunction([i \in 1..N |-> DigitValue[s[i]] * w[N - i]])
  BY <1>1 DEF NumberOf
<1> HIDE DEF w
<1> DEFINE e(n) == IF n = 0 THEN 1 ELSE 10 * w[n - 1]
<1>5. \A n \in 0..N : w[n] = e(n)
  <2>1. w = [n \in 0..N |-> e(n)]
    BY <1>3
  <2> HIDE DEF e
  <2> QED
    BY <2>1
<1> DEFINE X == {n \in Nat : n <= N => w[n] = g[n]}
<1>6. 0 \in X
  BY <1>1, <1>5 DEF IsWeight
<1>7. ASSUME NEW n \in Nat, n \in X PROVE n + 1 \in X
  <2> SUFFICES ASSUME n + 1 <= N PROVE w[n + 1] = g[n + 1]
      OBVIOUS
  <2>1. n \in 0..N - 1 /\ n + 1 \in 0..N /\ n + 1 # 0 /\ (n + 1) - 1 = n /\ w[n] = g[n]
    BY <1>1, <1>7
  <2>2. w[n + 1] = 10 * w[(n + 1) - 1]
    BY <1>5, <2>1
  <2>3. g[n + 1] = 10 * g[n]
    BY <2>1 DEF IsWeight
  <2> QED
    BY <2>1, <2>2, <2>3
<1>8. Nat \subseteq X
  <2> HIDE DEF X
  <2> QED
    BY <1>6, <1>7, SetInduction
<1>9. \A i \in 1..N : w[N - i] = g[N - i]
  <2> SUFFICES ASSUME NEW i \in 1..N PROVE w[N - i] = g[N - i]
      OBVIOUS
  <2>1. N - i \in Nat /\ N - i <= N
    BY <1>1
  <2> QED
    BY <1>8, <2>1
<1>10. [i \in 1..N |-> DigitValue[s[i]] * w[N - i]] = [i \in 1..N |-> DigitValue[s[i]] * g[N - i]]
  BY <1>9
<1> QED
  BY <1>4, <1>10

\* A number is ten times the number without its last digit, and this digit.
LEMMA NumberSteps ==
    /\ NumberOf(<<>>) = 0
    /\ \A s \in Seq(Digits) : NumberOf(s) \in Nat
    /\ \A s \in Seq(Digits) : \A c \in Digits :
         NumberOf(Append(s, c)) = 10 * NumberOf(s) + DigitValue[c]
<1>1. ASSUME NEW s \in Seq(Digits), NEW g, IsWeight(g, Len(s))
      PROVE  /\ [i \in 1..Len(s) |-> DigitValue[s[i]] * g[Len(s) - i]] \in [1..Len(s) -> Nat]
             /\ Len(s) \in Nat /\ IsFiniteSet(1..Len(s))
  <2>1. Len(s) \in Nat /\ \A i \in 1..Len(s) : s[i] \in Digits
    BY LenProperties, ElementOfSeq
  <2>2. ASSUME NEW i \in 1..Len(s) PROVE DigitValue[s[i]] * g[Len(s) - i] \in Nat
    <3>1. DigitValue[s[i]] \in Nat
      BY <2>1, DigitRange
    <3>2. Len(s) - i \in 0..Len(s)
      BY <2>1
    <3>3. g[Len(s) - i] \in Nat
      BY <1>1, <3>2 DEF IsWeight
    <3> QED
      BY <3>1, <3>3
  <2>3. IsFiniteSet(1..Len(s))
    BY <2>1, FS_Interval
  <2>4. [i \in 1..Len(s) |-> DigitValue[s[i]] * g[Len(s) - i]] \in [1..Len(s) -> Nat]
    BY <2>2
  <2> QED
    BY <2>1, <2>3, <2>4
<1>2. ASSUME NEW s \in Seq(Digits) PROVE NumberOf(s) \in Nat /\ (s = <<>> => NumberOf(s) = 0)
  <2>1. PICK g : IsWeight(g, Len(s))
    BY LenProperties, WeightsExist
  <2> DEFINE f == [i \in 1..Len(s) |-> DigitValue[s[i]] * g[Len(s) - i]]
  <2>2. f \in [1..Len(s) -> Nat] /\ IsFiniteSet(1..Len(s))
    BY <1>1, <2>1
  <2>3. NumberOf(s) = SumFunction(f)
    BY <2>1, NumberIs
  <2>4. s = <<>> => 1..Len(s) = {}
    OBVIOUS
  <2> HIDE DEF f
  <2>5. SumFunction(f) \in Nat /\ ((\A x \in 1..Len(s) : f[x] = 0) => SumFunction(f) = 0)
    BY <2>2, SumOfNaturals
  <2> QED
    BY <2>3, <2>4, <2>5
<1>3. ASSUME NEW s \in Seq(Digits), NEW c \in Digits
      PROVE  NumberOf(Append(s, c)) = 10 * NumberOf(s) + DigitValue[c]
  <2> DEFINE t == Append(s, c)
             L == Len(s)
  <2>1. /\ L \in Nat /\ t \in Seq(Digits) /\ Len(t) = L + 1 /\ t[L + 1] = c
        /\ \A i \in 1..L : t[i] = s[i]
    BY LenProperties, AppendProperties
  <2>2. PICK g : IsWeight(g, L)
    BY <2>1, WeightsExist
  <2>3. PICK h : IsWeight(h, L + 1)
    BY <2>1, WeightsExist
  <2> HIDE DEF t
  <2> DEFINE f == [i \in 1..L |-> DigitValue[s[i]] * g[L - i]]
             e == [i \in 1..L + 1 |-> DigitValue[t[i]] * h[(L + 1) - i]]
  <2>4. f \in [1..L -> Nat] /\ IsFiniteSet(1..L)
    BY <1>1, <2>2
  <2>5. e \in [1..L + 1 -> Nat]
    BY <1>1, <2>1, <2>3
  <2>6. NumberOf(s) = SumFunction(f)
    BY <2>2, NumberIs
  <2>7. NumberOf(t) = SumFunction(e)
    BY <2>1, <2>3, NumberIs
  <2>8. ASSUME NEW i \in 1..L PROVE e[i] = 10 * f[i]
    <3> DEFINE k == L - i
               d == DigitValue[s[i]]
    <3>1. k \in Nat /\ k <= L /\ k <= L + 1 /\ (L + 1) - i = k + 1 /\ k \in 0..L + 1 - 1 /\ k \in 0..L
          /\ i \in 1..L + 1
      BY <2>1
    <3>2. e[i] = d * h[k + 1] /\ f[i] = d * g[k]
      BY <2>1, <3>1
    <3>3. h[k] = g[k]
      <4>1. L + 1 \in Nat
        BY <2>1
      <4> HIDE DEF k
      <4> QED
        BY <2>1, <2>2, <2>3, <3>1, <4>1, WeightsAgree
    <3>4. h[k + 1] = 10 * h[k] /\ g[k] \in Nat
      <4>1. \A n \in 0..L + 1 - 1 : h[n + 1] = 10 * h[n]
        BY <2>3 DEF IsWeight
      <4>2. \A n \in 0..L : g[n] \in Nat
        BY <2>2 DEF IsWeight
      <4> HIDE DEF k
      <4> QED
        BY <3>1, <4>1, <4>2
    <3>5. d \in Nat
      <4>1. s[i] \in Digits
        BY ElementOfSeq
      <4> QED
        BY <4>1, DigitRange
    <3> HIDE DEF k, d, e, f
    <3>6. e[i] = d * (10 * g[k])
      BY <3>2, <3>3, <3>4
    <3>7. \A x \in Nat : d * (10 * x) = 10 * (d * x)
      BY <3>5
    <3> QED
      BY <3>2, <3>4, <3>6, <3>7
  <2>9. e[L + 1] = DigitValue[c]
    <3>1. L + 1 \in 1..L + 1 /\ (L + 1) - (L + 1) = 0
      BY <2>1
    <3>2. e[L + 1] = DigitValue[c] * h[0]
      BY <2>1, <3>1
    <3>3. h[0] = 1 /\ DigitValue[c] \in Nat
      BY <2>3, DigitRange DEF IsWeight
    <3> HIDE DEF e
    <3> QED
      BY <3>2, <3>3
  <2>10. 1..L + 1 = (1..L) \cup {L + 1} /\ L + 1 \notin 1..L
    BY <2>1
  <2> HIDE DEF e, f
  <2>11. SumFunction(e) = 10 * SumFunction(f) + e[L + 1]
    <3> DEFINE D == 1..L
               m == L + 1
    <3>1. e \in [D \cup {m} -> Nat] /\ f \in [D -> Nat] /\ IsFiniteSet(D) /\ m \notin D
      BY <2>4, <2>5, <2>10
    <3>2. Tenfold(D, f, m, e)
      BY <2>8, <3>1 DEF Tenfold
    <3> HIDE DEF D, m
    <3>3. SumFunction(e) = 10 * SumFunction(f) + e[m]
      BY <3>2, SumScaled
    <3> QED
      BY <3>3 DEF m
  <2> QED
    BY <2>6, <2>7, <2>9, <2>11 DEF t
<1>4. <<>> \in Seq(Digits)
  OBVIOUS
<1> QED
  BY <1>2, <1>3, <1>4

\* What a digit loop holds: a number, or -1 once it has refused a digit.
Counts == Nat \cup {-1}

\* The number of the digits read, or -1 when it is above maximum.
Bounded(s, maximum) == IF NumberOf(s) <= maximum THEN NumberOf(s) ELSE -1

\* A loop that adds one digit after the other, and refuses one that leads above
\* maximum, holds the number of the digits read while it is at most maximum.
LEMMA DigitLoop ==
    ASSUME NEW s \in Seq(Digits), NEW maximum \in Nat, NEW h, h[0] = 0,
           \A n \in 0..Len(s) - 1 : h[n] \in Counts =>
             h[n + 1] = IF h[n] = -1 \/ h[n] * 10 + DigitValue[s[n + 1]] > maximum THEN -1
                        ELSE h[n] * 10 + DigitValue[s[n + 1]]
    PROVE  h[Len(s)] = Bounded(s, maximum)
<1> DEFINE L == Len(s)
           X == {n \in Nat : n <= L => h[n] = Bounded(SubSeq(s, 1, n), maximum)}
<1>1. L \in Nat /\ \A i \in 1..L : s[i] \in Digits
  BY LenProperties, ElementOfSeq
<1>2. 0 \in X
  <2>1. SubSeq(s, 1, 0) = <<>>
    BY SubSeqEmpty
  <2>2. NumberOf(<<>>) = 0
    BY NumberSteps
  <2>3. Bounded(<<>>, maximum) = 0
    BY <2>2 DEF Bounded
  <2> QED
    BY <2>1, <2>3
<1>3. ASSUME NEW n \in Nat, n \in X PROVE n + 1 \in X
  <2> SUFFICES ASSUME n + 1 <= L PROVE h[n + 1] = Bounded(SubSeq(s, 1, n + 1), maximum)
      OBVIOUS
  <2> DEFINE p == SubSeq(s, 1, n)
             c == s[n + 1]
             v == NumberOf(p)
             d == DigitValue[c]
  <2>1. n <= L /\ n \in 0..L /\ n \in 0..L - 1 /\ n + 1 \in 1..L /\ 1 \in 1..L /\ (n + 1) - 1 = n
    BY <1>1
  <2>2. c \in Digits /\ d \in 0..9
    BY <1>1, <2>1, DigitRange
  <2>3. p \in Seq(Digits)
    BY <2>1, FirstPart
  <2>4. SubSeq(s, 1, n + 1) = Append(p, c)
    <3>1. SubSeq(s, 1, n + 1) = SubSeq(s, 1, (n + 1) - 1) \o <<s[n + 1]>>
      BY <2>1, SubSeqRecursiveSecond
    <3>2. Append(p, c) = p \o <<c>>
      BY <2>2, <2>3, AppendIsConcat
    <3> QED
      BY <2>1, <3>1, <3>2
  <2>5. v \in Nat /\ NumberOf(Append(p, c)) = 10 * v + d
    BY <2>2, <2>3, NumberSteps
  <2>6. h[n] = IF v <= maximum THEN v ELSE -1
    BY <1>3, <2>1 DEF Bounded
  <2>7. h[n + 1] = IF h[n] = -1 \/ h[n] * 10 + d > maximum THEN -1 ELSE h[n] * 10 + d
    <3>1. h[n] \in Counts
      BY <2>5, <2>6 DEF Counts
    <3> QED
      BY <2>1, <3>1
  <2> HIDE DEF p, c, v, d
  <2>8. h[n + 1] = IF 10 * v + d <= maximum THEN 10 * v + d ELSE -1
    BY <2>2, <2>5, <2>6, <2>7
  <2> QED
    BY <2>4, <2>5, <2>8 DEF Bounded
<1>4. L \in X
  <2> HIDE DEF X
  <2> QED
    BY <1>1, <1>2, <1>3, SetInduction
<1>5. SubSeq(s, 1, L) = s
  BY SubSeqFull
<1>6. h[L] = Bounded(SubSeq(s, 1, L), maximum)
  BY <1>1, <1>4
<1> QED
  BY <1>5, <1>6

\* The digit loop of REST.
LEMMA RestDigits ==
    ASSUME NEW s \in Seq(Digits), NEW maximum \in Nat
    PROVE  RestValue(s, maximum) = Bounded(s, maximum)
<1> DEFINE digit(v, c) == IF v = -1 \/ Overflows(v, DigitValue[c], maximum) THEN -1
                          ELSE v * 10 + DigitValue[c]
           V == Counts
           D == SUBSET (1..Len(s))
           step == [p \in V \X Digits |-> digit(p[1], p[2])]
           Is(g) == g = [A \in SUBSET DOMAIN s |->
                           IF A = {} THEN 0 ELSE digit(g[A \ {Max(A)}], s[Max(A)])]
           iter == CHOOSE g : Is(g)
<1>1. Len(s) \in Nat /\ DOMAIN s = 1..Len(s) /\ \A i \in 1..Len(s) : s[i] \in Digits
  BY LenProperties, ElementOfSeq
<1>2. ASSUME NEW v \in V, NEW c \in Digits
      PROVE  /\ digit(v, c) \in V
             /\ digit(v, c) = IF v = -1 \/ v * 10 + DigitValue[c] > maximum THEN -1
                              ELSE v * 10 + DigitValue[c]
  <2> DEFINE d == DigitValue[c]
  <2>1. d \in 0..9 /\ (v = -1 \/ v \in Nat)
    BY DigitRange DEF Counts
  <2>2. v # -1 => (v > (maximum - d) \div 10 <=> v * 10 + d > maximum)
    <3> HIDE DEF d
    <3> QED
      BY <2>1
  <2>3. v # -1 => v * 10 + d \in Nat
    <3> HIDE DEF d
    <3> QED
      BY <2>1
  <2> HIDE DEF d
  <2>4. digit(v, c) = IF v = -1 \/ v > (maximum - d) \div 10 THEN -1 ELSE v * 10 + d
    BY DEF Overflows, d
  <2> HIDE DEF digit
  <2>5. digit(v, c) = IF v = -1 \/ v * 10 + d > maximum THEN -1 ELSE v * 10 + d
    BY <2>2, <2>4
  <2>6. digit(v, c) \in V
    BY <2>3, <2>5 DEF Counts
  <2> QED
    BY <2>5, <2>6 DEF d
<1> HIDE DEF digit
<1>3. step \in [V \X Digits -> V]
  BY <1>2
<1>4. PICK g \in [D -> V] :
        /\ g[{}] = 0
        /\ \A A \in D : A # {} => Max(A) \in A /\ g[A] = step[<<g[A \ {Max(A)}], s[Max(A)]>>]
  <2>1. 0 \in V
    BY DEF Counts
  <2> HIDE DEF step, V
  <2>2. PICK g : IsFold(g, V, 0, s, step)
    BY <1>3, <2>1, FoldExists
  <2> QED
    BY <2>2 DEF IsFold
<1>5. ASSUME NEW A \in D PROVE g[A] = IF A = {} THEN 0 ELSE digit(g[A \ {Max(A)}], s[Max(A)])
  <2>1. CASE A = {}
    BY <1>4, <2>1
  <2>2. CASE A # {}
    <3> DEFINE v == g[A \ {Max(A)}]
               e == s[Max(A)]
    <3>1. v \in V /\ e \in Digits
      <4>1. A \ {Max(A)} \in D /\ Max(A) \in 1..Len(s)
        BY <1>4, <2>2
      <4> QED
        BY <1>1, <1>4, <4>1
    <3>2. g[A] = step[<<v, e>>]
      BY <1>4, <2>2
    <3> HIDE DEF v, e
    <3>3. <<v, e>> \in V \X Digits /\ <<v, e>>[1] = v /\ <<v, e>>[2] = e
      BY <3>1
    <3>4. step[<<v, e>>] = digit(v, e)
      BY <3>3
    <3> HIDE DEF step
    <3> QED
      BY <2>2, <3>2, <3>4 DEF v, e
  <2> QED
    BY <2>1, <2>2
<1>6. Is(g)
  <2> DEFINE f(A) == IF A = {} THEN 0 ELSE digit(g[A \ {Max(A)}], s[Max(A)])
  <2>1. \A A \in D : g[A] = f(A)
    BY <1>5
  <2> HIDE DEF f
  <2>2. g = [A \in D |-> f(A)]
    BY <1>4, <2>1
  <2> QED
    BY <1>1, <2>2 DEF f
<1>7. Is(iter)
  BY <1>6
<1>8. RestValue(s, maximum) = iter[DOMAIN s]
  BY DEF RestValue, FoldLeft, MapThenFoldSet, digit
<1> HIDE DEF iter
<1>9. ASSUME NEW A \in D
      PROVE iter[A] = IF A = {} THEN 0 ELSE digit(iter[A \ {Max(A)}], s[Max(A)])
  <2> DEFINE f(A_1) == IF A_1 = {} THEN 0 ELSE digit(iter[A_1 \ {Max(A_1)}], s[Max(A_1)])
  <2>1. iter = [A_1 \in D |-> f(A_1)]
    BY <1>1, <1>7
  <2> HIDE DEF f
  <2>2. iter[A] = f(A)
    BY <2>1
  <2> QED
    BY <2>2 DEF f
<1> DEFINE h == [n \in 0..Len(s) |-> iter[1..n]]
<1>10. h[0] = 0
  <2>1. 1..0 = {} /\ 0 \in 0..Len(s) /\ {} \in D
    BY <1>1
  <2> QED
    BY <1>9, <2>1
<1>11. ASSUME NEW n \in 0..Len(s) - 1, h[n] \in V
       PROVE  h[n + 1] = IF h[n] = -1 \/ h[n] * 10 + DigitValue[s[n + 1]] > maximum THEN -1
                         ELSE h[n] * 10 + DigitValue[s[n + 1]]
  <2>1. n \in Nat /\ n \in 0..Len(s) /\ n + 1 \in 0..Len(s) /\ 1..n + 1 \in D /\ n + 1 \in 1..Len(s)
    BY <1>1
  <2>2. 1..n + 1 # {} /\ Max(1..n + 1) = n + 1 /\ (1..n + 1) \ {n + 1} = 1..n
    BY <2>1, FirstNumbers
  <2>3. iter[1..n + 1] = digit(iter[1..n], s[n + 1])
    BY <1>9, <2>1, <2>2
  <2>4. h[n + 1] = iter[1..n + 1] /\ h[n] = iter[1..n]
    BY <2>1
  <2>5. s[n + 1] \in Digits
    BY <1>1, <2>1
  <2> HIDE DEF h
  <2> QED
    BY <1>2, <1>11, <2>3, <2>4, <2>5
<1>12. RestValue(s, maximum) = h[Len(s)]
  BY <1>1, <1>8
<1> HIDE DEF h
<1>13. h[Len(s)] = Bounded(s, maximum)
  BY <1>10, <1>11, DigitLoop
<1> QED
  BY <1>12, <1>13

\* The digit loop of PORT.
LEMMA OctetDigits ==
    ASSUME NEW s \in Seq(Digits), NEW maximum \in Nat
    PROVE  OctetValue(s, maximum) = Bounded(s, maximum)
<1> DEFINE digit(v, c) == IF v = -1 \/ v * 10 + DigitValue[c] > maximum THEN -1
                          ELSE v * 10 + DigitValue[c]
           V == Counts
           D == SUBSET (1..Len(s))
           step == [p \in V \X Digits |-> digit(p[1], p[2])]
           Is(g) == g = [A \in SUBSET DOMAIN s |->
                           IF A = {} THEN 0 ELSE digit(g[A \ {Max(A)}], s[Max(A)])]
           iter == CHOOSE g : Is(g)
<1>1. Len(s) \in Nat /\ DOMAIN s = 1..Len(s) /\ \A i \in 1..Len(s) : s[i] \in Digits
  BY LenProperties, ElementOfSeq
<1>2. ASSUME NEW v \in V, NEW c \in Digits
      PROVE  /\ digit(v, c) \in V
             /\ digit(v, c) = IF v = -1 \/ v * 10 + DigitValue[c] > maximum THEN -1
                              ELSE v * 10 + DigitValue[c]
  <2>1. DigitValue[c] \in 0..9 /\ (v = -1 \/ v \in Nat)
    BY DigitRange DEF Counts
  <2>2. v # -1 => v * 10 + DigitValue[c] \in Nat
    BY <2>1
  <2> QED
    BY <2>2 DEF Counts
<1> HIDE DEF digit
<1>3. step \in [V \X Digits -> V]
  BY <1>2
<1>4. PICK g \in [D -> V] :
        /\ g[{}] = 0
        /\ \A A \in D : A # {} => Max(A) \in A /\ g[A] = step[<<g[A \ {Max(A)}], s[Max(A)]>>]
  <2>1. 0 \in V
    BY DEF Counts
  <2> HIDE DEF step, V
  <2>2. PICK g : IsFold(g, V, 0, s, step)
    BY <1>3, <2>1, FoldExists
  <2> QED
    BY <2>2 DEF IsFold
<1>5. ASSUME NEW A \in D PROVE g[A] = IF A = {} THEN 0 ELSE digit(g[A \ {Max(A)}], s[Max(A)])
  <2>1. CASE A = {}
    BY <1>4, <2>1
  <2>2. CASE A # {}
    <3> DEFINE v == g[A \ {Max(A)}]
               e == s[Max(A)]
    <3>1. v \in V /\ e \in Digits
      <4>1. A \ {Max(A)} \in D /\ Max(A) \in 1..Len(s)
        BY <1>4, <2>2
      <4> QED
        BY <1>1, <1>4, <4>1
    <3>2. g[A] = step[<<v, e>>]
      BY <1>4, <2>2
    <3> HIDE DEF v, e
    <3>3. <<v, e>> \in V \X Digits /\ <<v, e>>[1] = v /\ <<v, e>>[2] = e
      BY <3>1
    <3>4. step[<<v, e>>] = digit(v, e)
      BY <3>3
    <3> HIDE DEF step
    <3> QED
      BY <2>2, <3>2, <3>4 DEF v, e
  <2> QED
    BY <2>1, <2>2
<1>6. Is(g)
  <2> DEFINE f(A) == IF A = {} THEN 0 ELSE digit(g[A \ {Max(A)}], s[Max(A)])
  <2>1. \A A \in D : g[A] = f(A)
    BY <1>5
  <2> HIDE DEF f
  <2>2. g = [A \in D |-> f(A)]
    BY <1>4, <2>1
  <2> QED
    BY <1>1, <2>2 DEF f
<1>7. Is(iter)
  BY <1>6
<1>8. OctetValue(s, maximum) = iter[DOMAIN s]
  BY DEF OctetValue, FoldLeft, MapThenFoldSet, digit
<1> HIDE DEF iter
<1>9. ASSUME NEW A \in D
      PROVE iter[A] = IF A = {} THEN 0 ELSE digit(iter[A \ {Max(A)}], s[Max(A)])
  <2> DEFINE f(A_1) == IF A_1 = {} THEN 0 ELSE digit(iter[A_1 \ {Max(A_1)}], s[Max(A_1)])
  <2>1. iter = [A_1 \in D |-> f(A_1)]
    BY <1>1, <1>7
  <2> HIDE DEF f
  <2>2. iter[A] = f(A)
    BY <2>1
  <2> QED
    BY <2>2 DEF f
<1> DEFINE h == [n \in 0..Len(s) |-> iter[1..n]]
<1>10. h[0] = 0
  <2>1. 1..0 = {} /\ 0 \in 0..Len(s) /\ {} \in D
    BY <1>1
  <2> QED
    BY <1>9, <2>1
<1>11. ASSUME NEW n \in 0..Len(s) - 1, h[n] \in V
       PROVE  h[n + 1] = IF h[n] = -1 \/ h[n] * 10 + DigitValue[s[n + 1]] > maximum THEN -1
                         ELSE h[n] * 10 + DigitValue[s[n + 1]]
  <2>1. n \in Nat /\ n \in 0..Len(s) /\ n + 1 \in 0..Len(s) /\ 1..n + 1 \in D /\ n + 1 \in 1..Len(s)
    BY <1>1
  <2>2. 1..n + 1 # {} /\ Max(1..n + 1) = n + 1 /\ (1..n + 1) \ {n + 1} = 1..n
    BY <2>1, FirstNumbers
  <2>3. iter[1..n + 1] = digit(iter[1..n], s[n + 1])
    BY <1>9, <2>1, <2>2
  <2>4. h[n + 1] = iter[1..n + 1] /\ h[n] = iter[1..n]
    BY <2>1
  <2>5. s[n + 1] \in Digits
    BY <1>1, <2>1
  <2> HIDE DEF h
  <2> QED
    BY <1>2, <1>11, <2>3, <2>4, <2>5
<1>12. OctetValue(s, maximum) = h[Len(s)]
  BY <1>1, <1>8
<1> HIDE DEF h
<1>13. h[Len(s)] = Bounded(s, maximum)
  BY <1>10, <1>11, DigitLoop
<1> QED
  BY <1>12, <1>13

\* Digits end no line, are no blanks and separate no fields.
LEMMA DigitsApart ==
    /\ Digits \cap Blanks = {} /\ Digits \cap LineEnds = {} /\ Blanks \cap LineEnds = {}
    /\ "," \notin Digits /\ "," \notin Blanks /\ Nul \notin Digits /\ Nul \notin Blanks /\ Nul \in LineEnds
<1>1. Digits = {"0", "1", "2", "3", "4", "5", "6", "7", "8", "9"}
  <2>1. DOMAIN Numerals = 1..10
    BY DEF Numerals
  <2>2. ASSUME NEW c \in Digits PROVE c \in {"0", "1", "2", "3", "4", "5", "6", "7", "8", "9"}
    <3>1. PICK j \in 1..10 : c = Numerals[j]
      BY <2>1 DEF Digits, Range
    <3>2. j \in {1, 2, 3, 4, 5, 6, 7, 8, 9, 10}
      OBVIOUS
    <3> QED
      BY <3>1, <3>2 DEF Numerals
  <2>3. /\ Numerals[1] = "0" /\ Numerals[2] = "1" /\ Numerals[3] = "2" /\ Numerals[4] = "3"
        /\ Numerals[5] = "4" /\ Numerals[6] = "5" /\ Numerals[7] = "6" /\ Numerals[8] = "7"
        /\ Numerals[9] = "8" /\ Numerals[10] = "9"
    BY DEF Numerals
  <2>4. \A j \in 1..10 : Numerals[j] \in Digits
    BY <2>1 DEF Digits, Range
  <2> HIDE DEF Numerals, Digits
  <2>5. {"0", "1", "2", "3", "4", "5", "6", "7", "8", "9"} \subseteq Digits
    BY <2>3, <2>4
  <2> QED
    BY <2>2, <2>5
<1> QED
  BY <1>1 DEF Blanks, LineEnds, Nul

-----------------------------------------------------------------------------
(* REST. *)

\* A text ends its line at m.
LineIs(s, m, ends) ==
    /\ m \in 1..Len(s) + 1 /\ At(s, m) \in ends
    /\ \A i \in 1..m - 1 : s[i] \notin ends

\* Every text has an end of its first line.
LEMMA LineExists ==
    ASSUME NEW S, NEW s \in Seq(S), NEW ends, Nul \in ends
    PROVE  \E m : LineIs(s, m, ends) /\ Before(s, ends) = SubSeq(s, 1, m - 1)
<1>1. PICK m \in 1..Len(s) + 1 : /\ Before(s, ends) = SubSeq(s, 1, m - 1)
                                 /\ m <= Len(s) => s[m] \in ends
                                 /\ \A i \in 1..m - 1 : s[i] \notin ends
  BY BeforeStops
<1>2. Len(s) \in Nat /\ (\A i \in 1..Len(s) : At(s, i) = s[i]) /\ At(s, Len(s) + 1) = Nul
  BY AtIs
<1>3. At(s, m) \in ends
  <2>1. CASE m <= Len(s)
    <3>1. m \in 1..Len(s)
      BY <1>2, <2>1
    <3> QED
      BY <1>1, <1>2, <2>1, <3>1
  <2>2. CASE ~(m <= Len(s))
    <3>1. m = Len(s) + 1
      BY <1>2, <2>2
    <3> QED
      BY <1>2, <3>1
  <2> QED
    BY <2>1, <2>2
<1> QED
  BY <1>1, <1>3 DEF LineIs

\* A cursor that advances over characters that end no line stays in its line.
LEMMA SpanInLine ==
    ASSUME NEW S, NEW s \in Seq(S), NEW ends, NEW m, LineIs(s, m, ends),
           NEW i \in 1..m, NEW set, Nul \notin set, set \cap ends = {}
    PROVE  /\ SpanEnd(s, i, set) \in i..m /\ StopsAt(s, i, SpanEnd(s, i, set), set)
           /\ \A j : StopsAt(s, i, j, set) => j = SpanEnd(s, i, set)
<1> DEFINE e == SpanEnd(s, i, set)
<1>1. /\ Len(s) \in Nat /\ DOMAIN s = 1..Len(s)
      /\ \A k \in 1..Len(s) : At(s, k) = s[k]
  BY AtIs
<1>2. m \in 1..Len(s) + 1 /\ At(s, m) \in ends
  BY DEF LineIs
<1>3. i \in 1..Len(s) + 1
  BY <1>1, <1>2
<1>4. StopsAt(s, i, e, set) /\ \A j : StopsAt(s, i, j, set) => j = e
  BY <1>3, SpanStops
<1>5. e \in i..Len(s) + 1 /\ \A k \in i..e - 1 : s[k] \in set
  BY <1>4 DEF StopsAt
<1> HIDE DEF e
<1>6. ~(m < e)
  <2> SUFFICES ASSUME m < e PROVE FALSE
      OBVIOUS
  <2>1. m \in i..e - 1 /\ m \in 1..Len(s)
    BY <1>1, <1>2, <1>5
  <2>2. s[m] \in set /\ s[m] \in ends
    BY <1>1, <1>2, <1>5, <2>1
  <2> QED
    BY <2>2
<1>7. e \in i..m
  BY <1>1, <1>2, <1>5, <1>6
<1> QED
  BY <1>4, <1>7 DEF e

\* A part of a text consists of characters of a set.
LEMMA AllIs ==
    ASSUME NEW S, NEW s \in Seq(S), NEW a \in 1..Len(s) + 1, NEW b \in 0..Len(s), NEW set
    PROVE  All(SubSeq(s, a, b), set) <=> \A k \in a..b : s[k] \in set
<1> DEFINE t == SubSeq(s, a, b)
<1>1. /\ Len(s) \in Nat /\ t \in Seq(S) /\ Len(t) = IF a <= b THEN b - a + 1 ELSE 0
      /\ \A i \in 1..b - a + 1 : t[i] = s[a + i - 1]
  BY Slice
<1>2. DOMAIN t = 1..Len(t)
  BY <1>1, LenProperties
<1> HIDE DEF t
<1>3. 1..Len(t) = 1..b - a + 1
  BY <1>1
<1>4. ASSUME All(t, set), NEW k \in a..b PROVE s[k] \in set
  <2> DEFINE j == k - a + 1
  <2>1. j \in 1..b - a + 1 /\ a + j - 1 = k
    BY <1>1
  <2>2. t[j] \in Range(t) /\ t[j] = s[k]
    <3> HIDE DEF j
    <3> QED
      BY <1>1, <1>2, <1>3, <2>1 DEF Range
  <2> QED
    BY <1>4, <2>2 DEF All
<1>5. ASSUME \A k \in a..b : s[k] \in set PROVE All(t, set)
  <2> SUFFICES ASSUME NEW x \in Range(t) PROVE x \in set
      BY DEF All
  <2>1. PICK i \in 1..b - a + 1 : x = t[i]
    BY <1>2, <1>3 DEF Range
  <2>2. a + i - 1 \in a..b
    BY <1>1
  <2> QED
    BY <1>1, <1>5, <2>1, <2>2
<1> QED
  BY <1>4, <1>5 DEF t

\* REST reads the number of a line that is one.
LEMMA RestText == line \in Seq(Chars) => RestIsDecimal
<1> SUFFICES ASSUME line \in Seq(Chars) PROVE RestIsDecimal
    OBVIOUS
<1> DEFINE body == Before(line, LineEnds)
           texts == {t \in [1..2 -> 1..Len(body) + 1] :
                       /\ t[1] < t[2]
                       /\ All(SubSeq(body, 1, t[1] - 1), Blanks)
                       /\ All(SubSeq(body, t[1], t[2] - 1), Digits)
                       /\ All(SubSeq(body, t[2], Len(body)), Blanks)}
           numbers == {NumberOf(SubSeq(body, t[1], t[2] - 1)) : t \in texts}
           cursor == SpanEnd(line, 1, Blanks)
           stop == SpanEnd(line, cursor, Digits)
           e == SpanEnd(line, stop, Blanks)
           digits == SubSeq(line, cursor, stop - 1)
           result == ftpvita_parse_rest_offset(line, OffsetMax)
<1>1. /\ Digits \cap Blanks = {} /\ Digits \cap LineEnds = {} /\ Blanks \cap LineEnds = {}
      /\ Nul \notin Digits /\ Nul \notin Blanks /\ Nul \in LineEnds
  BY DigitsApart
<1>2. PICK m : LineIs(line, m, LineEnds) /\ body = SubSeq(line, 1, m - 1)
  BY <1>1, LineExists
<1>3. /\ m \in 1..Len(line) + 1 /\ At(line, m) \in LineEnds
      /\ \A i \in 1..m - 1 : line[i] \notin LineEnds
      /\ Len(line) \in Nat /\ \A i \in 1..Len(line) : At(line, i) = line[i]
  BY <1>2, AtIs DEF LineIs
<1>4. m - 1 \in 0..Len(line) /\ 1 \in 1..m /\ m \in Nat /\ (m - 1) + 1 = m
  BY <1>3
<1>5. body \in Seq(Chars) /\ Len(body) = m - 1 /\ \A i \in 1..m - 1 : body[i] = line[i]
  BY <1>2, <1>4, FirstPart
<1>6. /\ cursor \in 1..m /\ StopsAt(line, 1, cursor, Blanks)
      /\ \A j : StopsAt(line, 1, j, Blanks) => j = cursor
  BY <1>1, <1>2, <1>4, SpanInLine
<1>7. /\ stop \in cursor..m /\ StopsAt(line, cursor, stop, Digits)
      /\ \A j : StopsAt(line, cursor, j, Digits) => j = stop
  <2> HIDE DEF cursor
  <2> QED
    BY <1>1, <1>2, <1>6, SpanInLine
<1>8. /\ e \in stop..m /\ StopsAt(line, stop, e, Blanks)
      /\ \A j : StopsAt(line, stop, j, Blanks) => j = e
  <2>1. stop \in 1..m
    BY <1>3, <1>6, <1>7
  <2> HIDE DEF stop
  <2> QED
    BY <1>1, <1>2, <2>1, SpanInLine
<1> HIDE DEF body
<1>9. ASSUME NEW a \in 1..m, NEW b \in 1..m, NEW set
      PROVE  All(SubSeq(body, a, b - 1), set) <=> \A k \in a..b - 1 : line[k] \in set
  <2>1. a \in 1..Len(body) + 1 /\ b - 1 \in 0..Len(body)
    BY <1>3, <1>5
  <2>2. All(SubSeq(body, a, b - 1), set) <=> \A k \in a..b - 1 : body[k] \in set
    BY <1>5, <2>1, AllIs
  <2>3. \A k \in a..b - 1 : body[k] = line[k]
    BY <1>3, <1>5
  <2> QED
    BY <2>2, <2>3
<1>10. EndsLine(line, stop) <=> e = m
  <2>1. EndsLine(line, stop) <=> At(line, e) \in LineEnds
    BY DEF EndsLine
  <2> HIDE DEF e
  <2>2. ASSUME e # m PROVE At(line, e) \notin LineEnds
    <3>1. e \in 1..m - 1 /\ e \in 1..Len(line)
      BY <1>3, <1>6, <1>7, <1>8, <2>2
    <3> QED
      BY <1>3, <3>1
  <2> QED
    BY <1>3, <2>1, <2>2
<1>11. result = IF stop = cursor \/ RestValue(digits, OffsetMax) = -1 \/ ~EndsLine(line, stop)
                THEN Reject ELSE RestValue(digits, OffsetMax)
  BY DEF ftpvita_parse_rest_offset
<1> HIDE DEF cursor, stop, e, result
<1>12. /\ cursor \in Nat /\ stop \in Nat /\ cursor \in 1..m /\ stop \in 1..m /\ cursor <= stop
  BY <1>3, <1>6, <1>7
<1>13. digits \in Seq(Digits)
  <2>1. \A k \in cursor..stop - 1 : line[k] \in Digits
    BY <1>7 DEF StopsAt
  <2>2. cursor \in Int /\ stop - 1 \in Int
    BY <1>12
  <2> QED
    BY <2>1, <2>2, SubSeqProperties
<1>14. SubSeq(body, cursor, stop - 1) = digits
  <2>1. cursor \in Nat \ {0} /\ stop - 1 \in Nat /\ stop - 1 <= Len(body) /\ stop - 1 <= Len(line)
    BY <1>3, <1>5, <1>12
  <2>2. \A i \in cursor..stop - 1 : body[i] = line[i]
    BY <1>3, <1>5, <1>12
  <2> QED
    BY <1>5, <2>1, <2>2, SameSlice
<1>15. ASSUME NEW t \in texts PROVE t[1] = cursor /\ t[2] = stop /\ cursor < stop /\ e = m
  <2> DEFINE a == t[1]
             b == t[2]
  <2>1. /\ t \in [1..2 -> 1..m] /\ a < b
        /\ All(SubSeq(body, 1, a - 1), Blanks) /\ All(SubSeq(body, a, b - 1), Digits)
        /\ All(SubSeq(body, b, m - 1), Blanks)
    BY <1>4, <1>5
  <2>2. a \in 1..m /\ b \in 1..m /\ m \in 1..m /\ 1 \in 1..m
    BY <1>4, <2>1
  <2> HIDE DEF a, b, texts
  <2>3. /\ \A k \in 1..a - 1 : line[k] \in Blanks
        /\ \A k \in a..b - 1 : line[k] \in Digits
        /\ \A k \in b..m - 1 : line[k] \in Blanks
    BY <1>9, <2>1, <2>2
  <2>4. StopsAt(line, 1, a, Blanks)
    <3>1. a \in a..b - 1 /\ a \in 1..Len(line) /\ a \in 1..Len(line) + 1
      BY <1>3, <2>1, <2>2
    <3>2. At(line, a) \notin Blanks
      BY <1>1, <1>3, <2>3, <3>1
    <3> QED
      BY <2>3, <3>1, <3>2 DEF StopsAt
  <2>5. a = cursor
    BY <1>6, <2>4
  <2>6. StopsAt(line, a, b, Digits)
    <3>1. b \in a..Len(line) + 1
      BY <1>3, <2>1, <2>2
    <3>2. CASE b = m
      BY <1>1, <1>3, <2>3, <3>1, <3>2 DEF StopsAt
    <3>3. CASE b # m
      <4>1. b \in b..m - 1 /\ b \in 1..Len(line)
        BY <1>3, <2>2, <3>3
      <4>2. At(line, b) \notin Digits
        BY <1>1, <1>3, <2>3, <4>1
      <4> QED
        BY <2>3, <3>1, <4>2 DEF StopsAt
    <3> QED
      BY <3>2, <3>3
  <2>7. b = stop
    BY <1>7, <2>5, <2>6
  <2>8. StopsAt(line, b, m, Blanks)
    <3>1. m \in b..Len(line) + 1
      BY <1>3, <2>2
    <3> QED
      BY <1>1, <1>3, <2>3, <3>1 DEF StopsAt
  <2>9. m = e
    BY <1>8, <2>7, <2>8
  <2> QED
    BY <2>1, <2>5, <2>7, <2>9 DEF a, b
<1>16. ASSUME cursor < stop, e = m PROVE \E t \in texts : t[1] = cursor /\ t[2] = stop
  <2> DEFINE t == [i \in 1..2 |-> IF i = 1 THEN cursor ELSE stop]
  <2>1. t \in [1..2 -> 1..m] /\ t[1] = cursor /\ t[2] = stop
    BY <1>12
  <2> HIDE DEF t
  <2>2. m \in 1..m /\ 1 \in 1..m
    BY <1>4
  <2>3. /\ \A k \in 1..cursor - 1 : line[k] \in Blanks
        /\ \A k \in cursor..stop - 1 : line[k] \in Digits
        /\ \A k \in stop..m - 1 : line[k] \in Blanks
    BY <1>6, <1>7, <1>8, <1>16 DEF StopsAt
  <2>4. /\ All(SubSeq(body, 1, cursor - 1), Blanks) /\ All(SubSeq(body, cursor, stop - 1), Digits)
        /\ All(SubSeq(body, stop, m - 1), Blanks)
    BY <1>9, <1>12, <2>2, <2>3
  <2>5. t \in texts
    BY <1>4, <1>5, <1>16, <2>1, <2>4
  <2> HIDE DEF texts
  <2> QED
    BY <2>1, <2>5
<1> HIDE DEF texts, digits
<1>17. OffsetMax \in Nat /\ NumberOf(digits) \in Nat /\ RestValue(digits, OffsetMax) = Bounded(digits, OffsetMax)
  BY <1>13, CheckAssumption, NumberSteps, RestDigits
<1>18. CASE cursor < stop /\ e = m
  <2>1. numbers = {NumberOf(digits)}
    <3>1. ASSUME NEW t \in texts PROVE NumberOf(SubSeq(body, t[1], t[2] - 1)) = NumberOf(digits)
      BY <1>14, <1>15
    <3>2. \E t \in texts : TRUE
      BY <1>16, <1>18
    <3> QED
      BY <3>1, <3>2
  <2> HIDE DEF numbers
  <2>2. numbers # {} /\ Max(numbers) = NumberOf(digits)
    <3>1. numbers \subseteq Int /\ NumberOf(digits) \in numbers /\ \A i \in numbers : i <= NumberOf(digits)
      BY <1>17, <2>1
    <3> QED
      BY <3>1, MaxIs
  <2>3. stop # cursor /\ EndsLine(line, stop)
    BY <1>10, <1>12, <1>18
  <2>4. result = IF numbers # {} /\ Max(numbers) <= OffsetMax THEN Max(numbers) ELSE Reject
    BY <1>11, <1>17, <2>2, <2>3 DEF Bounded
  <2> QED
    BY <2>4 DEF RestIsDecimal, result, numbers, texts, body
<1>19. CASE ~(cursor < stop /\ e = m)
  <2>1. numbers = {}
    BY <1>15, <1>19
  <2>2. stop = cursor \/ ~EndsLine(line, stop)
    BY <1>10, <1>12, <1>19
  <2> HIDE DEF numbers
  <2>3. result = IF numbers # {} /\ Max(numbers) <= OffsetMax THEN Max(numbers) ELSE Reject
    BY <1>11, <2>1, <2>2
  <2> QED
    BY <2>3 DEF RestIsDecimal, result, numbers, texts, body
<1> QED
  BY <1>18, <1>19

-----------------------------------------------------------------------------
(* Control lines. *)

\* The rest of a text from k on.
LEMMA RestOfText ==
    ASSUME NEW S, NEW s \in Seq(S), NEW k \in 1..Len(s) + 1
    PROVE  LET r == SubSeq(s, k, Len(s))
           IN /\ r \in Seq(S) /\ Len(r) = Len(s) - k + 1
              /\ \A i \in 1..Len(s) - k + 1 : r[i] = s[k + i - 1]
              /\ \A i \in 1..Len(s) - k + 2 : At(r, i) = At(s, k + i - 1)
<1> DEFINE r == SubSeq(s, k, Len(s))
           L == Len(s)
<1>1. /\ L \in Nat /\ (\A i \in 1..L : At(s, i) = s[i]) /\ At(s, L + 1) = Nul
  BY AtIs
<1>2. L \in 0..L
  BY <1>1
<1>3. /\ r \in Seq(S) /\ Len(r) = IF k <= L THEN L - k + 1 ELSE 0
      /\ \A i \in 1..L - k + 1 : r[i] = s[k + i - 1]
  BY <1>2, Slice
<1>4. Len(r) = L - k + 1
  <2>1. CASE k <= L
    BY <1>3, <2>1
  <2>2. CASE ~(k <= L)
    BY <1>1, <1>3, <2>2
  <2> QED
    BY <2>1, <2>2
<1>5. (\A i \in 1..Len(r) : At(r, i) = r[i]) /\ At(r, Len(r) + 1) = Nul
  BY <1>3, AtIs
<1> HIDE DEF r
<1>6. ASSUME NEW i \in 1..L - k + 2 PROVE At(r, i) = At(s, k + i - 1)
  <2>1. CASE i \in 1..L - k + 1
    <3>1. k + i - 1 \in 1..L
      BY <1>1, <2>1
    <3> QED
      BY <1>1, <1>3, <1>4, <1>5, <2>1, <3>1
  <2>2. CASE i \notin 1..L - k + 1
    <3>1. i = Len(r) + 1 /\ k + i - 1 = L + 1
      BY <1>1, <1>4, <2>2
    <3> QED
      BY <1>1, <1>5, <3>1
  <2> QED
    BY <2>1, <2>2
<1> QED
  BY <1>3, <1>4, <1>6 DEF r

\* Looking for a character in the rest of a text, and what comes before it.
LEMMA UntilInRest ==
    ASSUME NEW S, NEW s \in Seq(S), NEW k \in 1..Len(s) + 1, NEW set
    PROVE  LET r == SubSeq(s, k, Len(s))
               m == UntilEnd(s, k, set)
           IN /\ m \in k..Len(s) + 1 /\ UntilEnd(r, 1, set) = m - k + 1
              /\ SubSeq(r, 1, m - k) = SubSeq(s, k, m - 1)
              /\ SubSeq(s, k, m - 1) \in Seq(S)
<1> DEFINE L == Len(s)
           r == SubSeq(s, k, L)
           m == UntilEnd(s, k, set)
           E == set \cup {Nul}
<1>1. /\ L \in Nat /\ r \in Seq(S) /\ Len(r) = L - k + 1
      /\ \A i \in 1..L - k + 1 : r[i] = s[k + i - 1]
      /\ \A i \in 1..L - k + 2 : At(r, i) = At(s, k + i - 1)
  BY LenProperties, RestOfText
<1>2. m \in k..L + 1 /\ At(s, m) \in E /\ \A i \in k..m - 1 : s[i] \notin E
  BY UntilStops DEF FindsAt
<1> HIDE DEF m, r, E
<1> DEFINE j == m - k + 1
<1>3. j \in 1..L - k + 2 /\ k + j - 1 = m /\ j \in 1..Len(r) + 1 /\ j - 1 = m - k
  BY <1>1, <1>2
<1>4. ASSUME NEW i \in 1..j - 1 PROVE r[i] \notin E
  <2>1. i \in 1..L - k + 1 /\ k + i - 1 \in k..m - 1
    BY <1>1, <1>2
  <2> QED
    BY <1>1, <1>2, <2>1
<1>5. At(r, j) \in E
  <2> HIDE DEF j
  <2> QED
    BY <1>1, <1>2, <1>3
<1>6. FindsAt(r, 1, j, set)
  <2> HIDE DEF j
  <2> QED
    BY <1>3, <1>4, <1>5 DEF FindsAt, E
<1>7. j = UntilEnd(r, 1, set)
  <2>1. 1 \in 1..Len(r) + 1
    BY <1>1, <1>3
  <2> HIDE DEF j
  <2> QED
    BY <1>1, <1>6, <2>1, UntilStops
<1> DEFINE u == SubSeq(r, 1, m - k)
           v == SubSeq(s, k, m - 1)
<1>8. u \in Seq(S) /\ Len(u) = m - k /\ \A i \in 1..m - k : u[i] = r[i]
  <2>1. m - k \in 0..Len(r)
    BY <1>1, <1>2
  <2> QED
    BY <1>1, <2>1, FirstPart
<1>9. v \in Seq(S) /\ Len(v) = m - k /\ \A i \in 1..m - k : v[i] = s[k + i - 1]
  <2>1. m - 1 \in 0..L /\ (m - 1) - k + 1 = m - k
    BY <1>1, <1>2
  <2>2. /\ v \in Seq(S) /\ Len(v) = IF k <= m - 1 THEN (m - 1) - k + 1 ELSE 0
        /\ \A i \in 1..(m - 1) - k + 1 : v[i] = s[k + i - 1]
    BY <2>1, Slice
  <2>3. Len(v) = m - k
    <3>1. CASE k <= m - 1
      BY <2>1, <2>2, <3>1
    <3>2. CASE ~(k <= m - 1)
      BY <1>1, <1>2, <2>2, <3>2
    <3> QED
      BY <3>1, <3>2
  <2> QED
    BY <2>1, <2>2, <2>3
<1> HIDE DEF u, v
<1>10. \A i \in 1..Len(u) : u[i] = v[i]
  <2> SUFFICES ASSUME NEW i \in 1..m - k PROVE u[i] = v[i]
      BY <1>8
  <2>1. i \in 1..L - k + 1
    BY <1>1, <1>2
  <2> QED
    BY <1>1, <1>8, <1>9, <2>1
<1>11. u = v
  BY <1>8, <1>9, <1>10, SeqEqual
<1> QED
  BY <1>2, <1>7, <1>9, <1>11 DEF u, v, r, m

\* A control line is split into its verb and its argument.
LEMMA ControlLineText == line \in Seq(Chars) => ControlLineSplit
<1> SUFFICES ASSUME line \in Seq(Chars) PROVE ControlLineSplit
    OBVIOUS
<1> DEFINE L == Len(line)
           Ends == {"cr", "nl", "tab"}
           parsed == ftpvita_parse_command_line(line, CommandSize)
           result == IF parsed = Reject THEN Reject
                     ELSE <<parsed.command,
                            ftpvita_copy_command_argument(parsed.arguments, ArgumentSize)>>
           Means(w) ==
             LET i == w[1]  j == w[2]  k == w[3]  m == w[4]
             IN /\ i < j /\ j <= k /\ k <= m /\ j - i < CommandSize
                /\ All(SubSeq(line, 1, i - 1), Blanks)
                /\ All(SubSeq(line, i, j - 1), Chars \ (Blanks \cup LineEnds))
                /\ All(SubSeq(line, j, k - 1), Blanks)
                /\ At(line, k) \notin Blanks /\ (j = k => At(line, k) \in LineEnds)
                /\ All(SubSeq(line, k, m - 1), Chars \ {"cr", "nl", "tab", Nul})
                /\ At(line, m) \in {"cr", "nl", "tab", Nul}
           meanings == {w \in [1..4 -> 1..Len(line) + 1] : Means(w)}
           cursor == SpanEnd(line, 1, Blanks)
           stop == UntilEnd(line, cursor, WordEnds)
           start == SpanEnd(line, stop, Blanks)
           last == UntilEnd(line, start, Ends)
           Fits == cursor < stop /\ stop - cursor < CommandSize
           argument == IF last - start \notin 1..ArgumentSize - 1 THEN Reject
                       ELSE SubSeq(line, start, last - 1)
<1>1. /\ L \in Nat /\ (\A i \in 1..L : At(line, i) = line[i]) /\ At(line, L + 1) = Nul
      /\ \A i \in 1..L : line[i] \in Chars
  BY AtIs, ElementOfSeq
<1>2. /\ Blanks \cap LineEnds = {} /\ Nul \notin Blanks /\ Nul \in LineEnds
      /\ WordEnds \cup {Nul} = Blanks \cup LineEnds
      /\ Ends \cup {Nul} = {"cr", "nl", "tab", Nul}
  BY DigitsApart DEF WordEnds
<1>3. /\ StopsAt(line, 1, cursor, Blanks)
      /\ \A j : StopsAt(line, 1, j, Blanks) => j = cursor
  <2>1. 1 \in 1..L + 1
    BY <1>1
  <2> QED
    BY <1>2, <2>1, SpanStops
<1>4. cursor \in 1..L + 1
  BY <1>3 DEF StopsAt
<1>5. /\ FindsAt(line, cursor, stop, WordEnds)
      /\ \A j : FindsAt(line, cursor, j, WordEnds) => j = stop
  <2> HIDE DEF cursor
  <2> QED
    BY <1>4, UntilStops
<1>6. stop \in cursor..L + 1 /\ stop \in 1..L + 1
  <2>1. stop \in cursor..L + 1
    BY <1>5 DEF FindsAt
  <2> HIDE DEF stop, cursor
  <2> QED
    BY <1>1, <1>4, <2>1
<1>7. /\ StopsAt(line, stop, start, Blanks)
      /\ \A j : StopsAt(line, stop, j, Blanks) => j = start
  <2> HIDE DEF stop
  <2> QED
    BY <1>2, <1>6, SpanStops
<1>8. start \in stop..L + 1 /\ start \in 1..L + 1
  <2>1. start \in stop..L + 1
    BY <1>7 DEF StopsAt
  <2> HIDE DEF stop, start
  <2> QED
    BY <1>1, <1>6, <2>1
<1>9. /\ FindsAt(line, start, last, Ends)
      /\ \A j : FindsAt(line, start, j, Ends) => j = last
  <2> HIDE DEF start
  <2> QED
    BY <1>8, UntilStops
<1>10. last \in start..L + 1 /\ last \in 1..L + 1
  <2>1. last \in start..L + 1
    BY <1>9 DEF FindsAt
  <2> HIDE DEF last, start
  <2> QED
    BY <1>1, <1>8, <2>1
<1>11. parsed = IF ~Fits THEN Reject
                ELSE [command |-> SubSeq(line, cursor, stop - 1), arguments |-> SubSeq(line, start, L)]
  <2>1. parsed = IF stop = cursor \/ stop - cursor >= CommandSize THEN Reject
                 ELSE [command |-> SubSeq(line, cursor, stop - 1), arguments |-> SubSeq(line, start, L)]
    BY DEF ftpvita_parse_command_line
  <2> HIDE DEF cursor, stop, start, parsed
  <2>2. Fits <=> ~(stop = cursor \/ stop - cursor >= CommandSize)
    BY <1>1, <1>4, <1>6, CheckAssumption
  <2> HIDE DEF Fits
  <2> QED
    BY <2>1, <2>2
<1>12. /\ SubSeq(line, cursor, stop - 1) \in Seq(Chars) /\ SubSeq(line, start, L) \in Seq(Chars)
       /\ SubSeq(line, start, last - 1) \in Seq(Chars)
       /\ ftpvita_copy_command_argument(SubSeq(line, start, L), ArgumentSize) = argument
  <2>1. SubSeq(line, cursor, stop - 1) \in Seq(Chars)
    <3>1. stop - 1 \in 0..L
      BY <1>1, <1>6
    <3> QED
      BY <1>4, <3>1, Slice
  <2> DEFINE r == SubSeq(line, start, L)
  <2>2. r \in Seq(Chars)
    BY <1>8, RestOfText
  <2>3. /\ UntilEnd(r, 1, Ends) = last - start + 1
        /\ SubSeq(r, 1, last - start) = SubSeq(line, start, last - 1)
        /\ SubSeq(line, start, last - 1) \in Seq(Chars)
    <3> HIDE DEF start, Ends
    <3> QED
      BY <1>8, UntilInRest
  <2>4. ftpvita_copy_command_argument(r, ArgumentSize)
          = LET length == UntilEnd(r, 1, Ends) - 1
            IN IF length = 0 \/ length >= ArgumentSize THEN Reject ELSE SubSeq(r, 1, length)
    BY DEF ftpvita_copy_command_argument
  <2> HIDE DEF r, last, start, Ends
  <2>5. UntilEnd(r, 1, Ends) - 1 = last - start
    BY <1>1, <1>8, <1>10, <2>3
  <2>6. (last - start = 0 \/ last - start >= ArgumentSize) <=> last - start \notin 1..ArgumentSize - 1
    BY <1>1, <1>8, <1>10, CheckAssumption
  <2>7. ftpvita_copy_command_argument(r, ArgumentSize) = argument
    BY <2>3, <2>4, <2>5, <2>6
  <2> QED
    BY <2>1, <2>2, <2>3, <2>7 DEF r
<1> HIDE DEF cursor, stop, start, last, Ends
<1>13. result = IF ~Fits THEN Reject ELSE <<SubSeq(line, cursor, stop - 1), argument>>
  <2>1. CASE ~Fits
    BY <1>11, <2>1
  <2>2. CASE Fits
    <3>1. /\ parsed = [command |-> SubSeq(line, cursor, stop - 1), arguments |-> SubSeq(line, start, L)]
          /\ parsed \in [command : Seq(Chars), arguments : Seq(Chars)]
      BY <1>11, <1>12, <2>2
    <3>2. parsed # Reject
      BY <3>1, RejectAssumption
    <3>3. parsed.command = SubSeq(line, cursor, stop - 1) /\ parsed.arguments = SubSeq(line, start, L)
      <4> HIDE DEF parsed
      <4> QED
        BY <3>1
    <3> HIDE DEF argument, Fits, parsed
    <3>4. result = <<parsed.command, ftpvita_copy_command_argument(parsed.arguments, ArgumentSize)>>
      BY <3>2
    <3>5. result = <<SubSeq(line, cursor, stop - 1), argument>>
      BY <1>12, <3>3, <3>4
    <3> QED
      BY <2>2, <3>5
  <2> QED
    BY <2>1, <2>2
<1>14. Fits => result # Reject
  <2>1. argument \in Seq(Chars) \cup {Reject}
    BY <1>12
  <2> HIDE DEF argument, result, Fits
  <2>2. <<SubSeq(line, cursor, stop - 1), argument>> \in Seq(Chars) \X (Seq(Chars) \cup {Reject})
    BY <1>12, <2>1
  <2> QED
    BY <1>13, <2>2, RejectAssumption
<1> HIDE DEF parsed, result
<1>15. ASSUME NEW a \in 1..L + 1, NEW b \in 1..L + 1, NEW set
       PROVE  All(SubSeq(line, a, b - 1), set) <=> \A k \in a..b - 1 : line[k] \in set
  <2>1. b - 1 \in 0..L
    BY <1>1
  <2> QED
    BY <2>1, AllIs
<1>16. ASSUME NEW w \in meanings
       PROVE  Fits /\ w[1] = cursor /\ w[2] = stop /\ w[3] = start /\ w[4] = last
  <2> DEFINE i == w[1]
             j == w[2]
             k == w[3]
             m == w[4]
  <2>1. i \in 1..L + 1 /\ j \in 1..L + 1 /\ k \in 1..L + 1 /\ m \in 1..L + 1 /\ 1 \in 1..L + 1
    BY <1>1
  <2>2. /\ i < j /\ j <= k /\ k <= m /\ j - i < CommandSize
        /\ All(SubSeq(line, 1, i - 1), Blanks)
        /\ All(SubSeq(line, i, j - 1), Chars \ (Blanks \cup LineEnds))
        /\ All(SubSeq(line, j, k - 1), Blanks)
        /\ At(line, k) \notin Blanks /\ (j = k => At(line, k) \in LineEnds)
        /\ All(SubSeq(line, k, m - 1), Chars \ {"cr", "nl", "tab", Nul})
        /\ At(line, m) \in {"cr", "nl", "tab", Nul}
    OBVIOUS
  <2> HIDE DEF i, j, k, m, meanings
  <2>3. /\ \A x \in 1..i - 1 : line[x] \in Blanks
        /\ \A x \in i..j - 1 : line[x] \in Chars \ (Blanks \cup LineEnds)
        /\ \A x \in j..k - 1 : line[x] \in Blanks
        /\ \A x \in k..m - 1 : line[x] \in Chars \ {"cr", "nl", "tab", Nul}
    BY <1>15, <2>1, <2>2
  <2>4. i = cursor
    <3>1. i \in i..j - 1 /\ i \in 1..L
      BY <1>1, <2>1, <2>2
    <3>2. At(line, i) \notin Blanks
      BY <1>1, <2>3, <3>1
    <3>3. StopsAt(line, 1, i, Blanks)
      BY <2>1, <2>3, <3>2 DEF StopsAt
    <3> QED
      BY <1>3, <3>3
  <2>5. j = stop
    <3>1. At(line, j) \in WordEnds \cup {Nul}
      <4>1. CASE j = k
        BY <1>2, <2>2, <4>1
      <4>2. CASE j # k
        <5>1. j \in j..k - 1 /\ j \in 1..L
          BY <1>1, <2>1, <2>2, <4>2
        <5> QED
          BY <1>1, <1>2, <2>3, <5>1
      <4> QED
        BY <4>1, <4>2
    <3>2. \A x \in i..j - 1 : line[x] \notin WordEnds \cup {Nul}
      BY <1>2, <2>3
    <3>3. j \in i..L + 1
      BY <1>1, <2>1, <2>2
    <3>4. FindsAt(line, i, j, WordEnds)
      BY <3>1, <3>2, <3>3 DEF FindsAt
    <3> QED
      BY <1>5, <2>4, <3>4
  <2>6. k = start
    <3>1. k \in j..L + 1
      BY <1>1, <2>1, <2>2
    <3>2. StopsAt(line, j, k, Blanks)
      BY <2>2, <2>3, <3>1 DEF StopsAt
    <3> QED
      BY <1>7, <2>5, <3>2
  <2>7. m = last
    <3>1. m \in k..L + 1
      BY <1>1, <2>1, <2>2
    <3>2. \A x \in k..m - 1 : line[x] \notin Ends \cup {Nul}
      BY <1>2, <2>3
    <3>3. At(line, m) \in Ends \cup {Nul}
      BY <1>2, <2>2
    <3>4. FindsAt(line, k, m, Ends)
      BY <3>1, <3>2, <3>3 DEF FindsAt
    <3> QED
      BY <1>9, <2>6, <3>4
  <2>8. Fits
    BY <2>2, <2>4, <2>5
  <2> QED
    BY <2>4, <2>5, <2>6, <2>7, <2>8 DEF i, j, k, m
<1>17. Fits => meanings # {}
  <2> SUFFICES ASSUME Fits PROVE \E w \in meanings : TRUE
      OBVIOUS
  <2> DEFINE w == [x \in 1..4 |-> IF x = 1 THEN cursor ELSE IF x = 2 THEN stop ELSE IF x = 3 THEN start ELSE last]
  <2>1. w \in [1..4 -> 1..L + 1] /\ w[1] = cursor /\ w[2] = stop /\ w[3] = start /\ w[4] = last
    BY <1>4, <1>6, <1>8, <1>10
  <2> HIDE DEF w
  <2>2. /\ \A x \in 1..cursor - 1 : line[x] \in Blanks
        /\ \A x \in cursor..stop - 1 : line[x] \notin WordEnds \cup {Nul}
        /\ \A x \in stop..start - 1 : line[x] \in Blanks
        /\ \A x \in start..last - 1 : line[x] \notin Ends \cup {Nul}
        /\ At(line, start) \notin Blanks /\ At(line, stop) \in WordEnds \cup {Nul}
        /\ At(line, last) \in Ends \cup {Nul}
    BY <1>3, <1>5, <1>7, <1>9 DEF StopsAt, FindsAt
  <2>3. \A x \in cursor..stop - 1 : line[x] \in Chars \ (Blanks \cup LineEnds)
    <3> SUFFICES ASSUME NEW x \in cursor..stop - 1 PROVE line[x] \in Chars \ (Blanks \cup LineEnds)
        OBVIOUS
    <3>1. x \in 1..L
      BY <1>1, <1>4, <1>6
    <3> QED
      BY <1>1, <1>2, <2>2, <3>1
  <2>4. \A x \in start..last - 1 : line[x] \in Chars \ {"cr", "nl", "tab", Nul}
    <3> SUFFICES ASSUME NEW x \in start..last - 1 PROVE line[x] \in Chars \ {"cr", "nl", "tab", Nul}
        OBVIOUS
    <3>1. x \in 1..L
      BY <1>1, <1>8, <1>10
    <3> QED
      BY <1>1, <1>2, <2>2, <3>1
  <2>5. 1 \in 1..L + 1
    BY <1>1
  <2>6. /\ All(SubSeq(line, 1, cursor - 1), Blanks)
        /\ All(SubSeq(line, cursor, stop - 1), Chars \ (Blanks \cup LineEnds))
        /\ All(SubSeq(line, stop, start - 1), Blanks)
        /\ All(SubSeq(line, start, last - 1), Chars \ {"cr", "nl", "tab", Nul})
    BY <1>4, <1>6, <1>8, <1>10, <1>15, <2>2, <2>3, <2>4, <2>5
  <2>7. cursor < stop /\ stop <= start /\ start <= last /\ stop - cursor < CommandSize
    BY <1>4, <1>6, <1>8, <1>10
  <2>8. stop = start => At(line, start) \in LineEnds
    BY <1>2, <2>2
  <2>9. At(line, last) \in {"cr", "nl", "tab", Nul}
    BY <1>2, <2>2
  <2>10. Means(w)
    BY <2>1, <2>2, <2>6, <2>7, <2>8, <2>9
  <2> HIDE DEF Means
  <2> QED
    BY <2>1, <2>10
<1> HIDE DEF meanings
<1>18. result = Reject <=> meanings = {}
  <2> HIDE DEF Fits
  <2> QED
    BY <1>13, <1>14, <1>16, <1>17
<1>19. ASSUME NEW w \in meanings
       PROVE  result = <<SubSeq(line, w[1], w[2] - 1),
                         IF w[4] - w[3] \notin 1..ArgumentSize - 1 THEN Reject
                         ELSE SubSeq(line, w[3], w[4] - 1)>>
  <2>1. Fits /\ w[1] = cursor /\ w[2] = stop /\ w[3] = start /\ w[4] = last
    BY <1>16
  <2>2. result = <<SubSeq(line, cursor, stop - 1), argument>>
    BY <1>13, <2>1
  <2> QED
    BY <2>1, <2>2
<1> QED
  BY <1>18, <1>19 DEF ControlLineSplit, result, parsed, meanings

-----------------------------------------------------------------------------
(* PORT. *)

\* The part of the line that ends at m with blanks from blank + 1 on, and the field
\* in it from c to the comma or the blanks at b.
FieldAt(s, c, b, blank, m, comma) ==
    /\ LineIs(s, m, LineEnds) /\ blank \in 0..m - 1
    /\ \A i \in blank + 1..m - 1 : s[i] \in Blanks
    /\ c \in 1..blank + 1 /\ b \in c..blank + 1
    /\ \A i \in c..b - 1 : s[i] # comma
    /\ b <= blank => s[b] = comma

\* A field that is a decimal number of at most one octet.
Legal(part, octet) == part # <<>> /\ All(part, Digits) /\ NumberOf(part) <= octet

\* The digits at a field are the field exactly when it is legal.
LEMMA FieldText ==
    ASSUME NEW S, NEW s \in Seq(S), NEW c, NEW b, NEW blank, NEW m, NEW comma,
           FieldAt(s, c, b, blank, m, comma),
           comma \notin Digits, comma \notin Blanks, comma \notin LineEnds, NEW octet \in Nat
    PROVE  LET stop == SpanEnd(s, c, Digits)
               part == SubSeq(s, c, b - 1)
               value == OctetValue(SubSeq(s, c, stop - 1), octet)
           IN /\ stop \in c..b
              /\ At(s, stop) = comma <=> stop = b /\ b <= blank
              /\ Legal(part, octet) <=> stop # c /\ value # -1 /\ stop = b
              /\ Legal(part, octet) => value = NumberOf(part)
              /\ value # -1 => value \in Nat
<1> DEFINE L == Len(s)
           stop == SpanEnd(s, c, Digits)
           part == SubSeq(s, c, b - 1)
           read == SubSeq(s, c, stop - 1)
           value == OctetValue(read, octet)
<1>1. /\ L \in Nat /\ \A i \in 1..L : At(s, i) = s[i]
  BY AtIs
<1>2. /\ LineIs(s, m, LineEnds) /\ At(s, m) \in LineEnds
      /\ \A i \in blank + 1..m - 1 : s[i] \in Blanks
      /\ \A i \in c..b - 1 : s[i] # comma
  BY DEF FieldAt, LineIs
<1>3. /\ Digits \cap Blanks = {} /\ Digits \cap LineEnds = {} /\ Nul \notin Digits
      /\ comma \notin Digits /\ comma \notin Blanks /\ comma \notin LineEnds
  BY DigitsApart
<1>4. m \in 1..L + 1 /\ blank \in 0..m - 1 /\ c \in 1..blank + 1 /\ b \in c..blank + 1
  BY DEF FieldAt, LineIs
<1>5. b <= blank => s[b] = comma
  BY DEF FieldAt
<1>6. /\ m \in Nat /\ blank \in Nat /\ c \in Nat /\ b \in Nat
      /\ 1 <= c /\ c <= b /\ b <= blank + 1 /\ blank + 1 <= m /\ m <= L + 1
      /\ c \in 1..m
  <2>1. m \in Nat /\ m <= L + 1
    BY <1>1, <1>4
  <2>2. blank \in Nat /\ blank + 1 <= m
    BY <1>4, <2>1
  <2>3. c \in Nat /\ 1 <= c /\ c <= blank + 1
    BY <1>4, <2>2
  <2>4. b \in Nat /\ c <= b /\ b <= blank + 1
    BY <1>4, <2>2, <2>3
  <2> QED
    BY <2>1, <2>2, <2>3, <2>4
<1>7. stop \in c..m /\ StopsAt(s, c, stop, Digits) /\ \A j : StopsAt(s, c, j, Digits) => j = stop
  BY <1>2, <1>3, <1>6, SpanInLine
<1>8. At(s, stop) \notin Digits /\ \A k \in c..stop - 1 : s[k] \in Digits
  BY <1>7 DEF StopsAt
<1> HIDE DEF stop
<1>9. /\ b <= blank => At(s, b) = comma
      /\ b > blank => At(s, b) \in Blanks \cup LineEnds
  <2>1. CASE b <= blank
    <3>1. b \in 1..L
      BY <1>1, <1>2, <1>6, <2>1
    <3> QED
      BY <1>1, <1>5, <1>6, <2>1, <3>1
  <2>2. CASE b > blank
    <3>1. b = blank + 1
      BY <1>2, <1>6, <2>2
    <3>2. CASE b = m
      BY <1>2, <1>6, <2>2, <3>2
    <3>3. CASE b # m
      <4>1. b \in blank + 1..m - 1 /\ b \in 1..L
        BY <1>1, <1>2, <1>6, <3>1, <3>3
      <4> QED
        BY <1>1, <1>2, <1>6, <2>2, <4>1
    <3> QED
      BY <3>2, <3>3
  <2> QED
    BY <1>6, <2>1, <2>2
<1>10. At(s, b) \notin Digits
  BY <1>3, <1>6, <1>9
<1>11. stop \in c..b
  <2>1. ~(b < stop)
    <3> SUFFICES ASSUME b < stop PROVE FALSE
        OBVIOUS
    <3>1. b \in c..stop - 1 /\ b \in 1..L
      BY <1>1, <1>2, <1>6, <1>7
    <3> QED
      BY <1>1, <1>8, <1>10, <3>1
  <2> QED
    BY <1>6, <1>7, <2>1
<1>12. stop = b <=> All(part, Digits)
  <2>1. c \in 1..L + 1 /\ b - 1 \in 0..L
    BY <1>1, <1>2, <1>6
  <2>2. All(part, Digits) <=> \A k \in c..b - 1 : s[k] \in Digits
    BY <2>1, AllIs
  <2>3. ASSUME \A k \in c..b - 1 : s[k] \in Digits PROVE stop = b
    <3>1. b \in c..L + 1
      BY <1>1, <1>2, <1>6
    <3>2. StopsAt(s, c, b, Digits)
      BY <1>10, <2>3, <3>1 DEF StopsAt
    <3> QED
      BY <1>7, <3>2
  <2> QED
    BY <1>8, <2>2, <2>3
<1>13. At(s, stop) = comma <=> stop = b /\ b <= blank
  <2>1. CASE stop = b
    BY <1>3, <1>6, <1>9, <2>1
  <2>2. CASE stop # b
    <3>1. stop \in c..b - 1 /\ stop \in 1..L
      BY <1>1, <1>2, <1>6, <1>11, <2>2
    <3> QED
      BY <1>1, <1>2, <2>2, <3>1
  <2> QED
    BY <2>1, <2>2
<1>14. read \in Seq(Digits)
  <2>1. c \in Int /\ stop - 1 \in Int
    BY <1>6, <1>11
  <2> QED
    BY <1>8, <2>1, SubSeqProperties
<1>15. value = Bounded(read, octet) /\ NumberOf(read) \in Nat
  <2> HIDE DEF read
  <2> QED
    BY <1>14, OctetDigits, NumberSteps
<1>16. stop = b => read = part
  OBVIOUS
<1>17. part # <<>> <=> c < b
  <2>1. c \in 1..L + 1 /\ b - 1 \in 0..L
    BY <1>1, <1>2, <1>6
  <2>2. part \in Seq(S) /\ Len(part) = IF c <= b - 1 THEN (b - 1) - c + 1 ELSE 0
    BY <2>1, Slice
  <2> HIDE DEF part
  <2>3. part # <<>> <=> Len(part) # 0
    BY <2>2, EmptySeq
  <2>4. Len(part) # 0 <=> c < b
    <3>1. CASE c <= b - 1
      BY <1>6, <2>2, <3>1
    <3>2. CASE ~(c <= b - 1)
      BY <1>6, <2>2, <3>2
    <3> QED
      BY <3>1, <3>2
  <2> QED
    BY <2>3, <2>4
<1> HIDE DEF read, part, value
<1>18. value # -1 <=> NumberOf(read) <= octet
  BY <1>15 DEF Bounded
<1>19. value # -1 => value = NumberOf(read) /\ value \in Nat
  BY <1>15 DEF Bounded
<1>20. Legal(part, octet) <=> stop # c /\ value # -1 /\ stop = b
  <2>1. stop = b => (stop # c <=> c < b)
    BY <1>6
  <2> QED
    BY <1>12, <1>16, <1>17, <1>18, <2>1 DEF Legal
<1>21. Legal(part, octet) => value = NumberOf(part)
  BY <1>16, <1>19, <1>20
<1> QED
  BY <1>11, <1>13, <1>19, <1>20, <1>21 DEF stop, part, value, read

\* The scan behind each number, from the one before.
FieldStart == [cursor |-> 1, values |-> <<>>]

\* One step of the scan: the next field, unless an earlier one was refused.
FieldStep(arguments, scan, last, octet) ==
    IF scan = Reject THEN Reject ELSE ReadField(arguments, scan, last, octet)

\* g is the scan of the fields, by their number.
IsScan(g, arguments, fields, octet) ==
    /\ g[0] = FieldStart
    /\ \A n \in 0..fields - 1 : g[n + 1] = FieldStep(arguments, g[n], n + 1 = fields, octet)
    /\ ftpvita_parse_port_tuple(arguments, fields, octet)
         = IF g[fields] # Reject /\ EndsLine(arguments, g[fields].cursor)
           THEN g[fields].values ELSE Reject

\* The scan of PORT exists and reads one field after the other.
LEMMA FieldsDefined ==
    ASSUME NEW arguments, NEW fields \in Nat \ {0}, NEW octet
    PROVE  \E g : IsScan(g, arguments, fields, octet)
<1> DEFINE Step(p, n) == FieldStep(arguments, p, n = fields, octet)
           Is(g, M) == g = [n \in 0..M |-> IF n = 0 THEN FieldStart ELSE Step(g[n - 1], n)]
           X == {M \in Nat : \E g : Is(g, M)}
<1> HIDE DEF Step
<1>1. 0 \in X
  <2> DEFINE g == [n \in 0..0 |-> FieldStart]
  <2>1. DOMAIN g = 0..0 /\ \A n \in 0..0 : n = 0
    OBVIOUS
  <2>2. Is(g, 0)
    BY <2>1
  <2> QED
    BY <2>2
<1>2. ASSUME NEW M \in Nat, M \in X PROVE M + 1 \in X
  <2>1. PICK g : Is(g, M)
    BY <1>2
  <2> DEFINE last == Step(g[M], M + 1)
             h == [n \in 0..M + 1 |-> IF n = M + 1 THEN last ELSE g[n]]
  <2>2. \A n \in 0..M : g[n] = IF n = 0 THEN FieldStart ELSE Step(g[n - 1], n)
    <3> DEFINE f(n) == IF n = 0 THEN FieldStart ELSE Step(g[n - 1], n)
    <3>1. g = [n \in 0..M |-> f(n)]
      BY <2>1
    <3> HIDE DEF f
    <3>2. \A n \in 0..M : g[n] = f(n)
      BY <3>1
    <3> QED
      BY <3>2 DEF f
  <2>3. ASSUME NEW n \in 0..M + 1
        PROVE  h[n] = IF n = 0 THEN FieldStart ELSE Step(h[n - 1], n)
    <3>1. CASE n = M + 1
      <4>1. n - 1 = M /\ M \in 0..M + 1 /\ n # 0 /\ M # M + 1
        BY <3>1
      <4>2. h[n] = last /\ h[n - 1] = g[M]
        BY <3>1, <4>1
      <4> QED
        BY <3>1, <4>1, <4>2
    <3>2. CASE n # M + 1
      <4>1. n \in 0..M /\ (n # 0 => n - 1 \in 0..M + 1 /\ n - 1 # M + 1)
        BY <3>2
      <4>2. h[n] = g[n] /\ (n # 0 => h[n - 1] = g[n - 1])
        BY <3>2, <4>1
      <4> QED
        BY <2>2, <4>1, <4>2
    <3> QED
      BY <3>1, <3>2
  <2>4. DOMAIN h = 0..M + 1 /\ h = [n \in 0..M + 1 |-> h[n]]
    OBVIOUS
  <2> HIDE DEF h
  <2>5. Is(h, M + 1)
    BY <2>3, <2>4
  <2> QED
    BY <2>5
<1>3. fields \in X
  <2> HIDE DEF X
  <2> QED
    BY <1>1, <1>2, SetInduction
<1> DEFINE Field == CHOOSE g : Is(g, fields)
<1>4. Is(Field, fields)
  BY <1>3
<1>5. ftpvita_parse_port_tuple(arguments, fields, octet)
        = IF Field[fields] # Reject /\ EndsLine(arguments, Field[fields].cursor)
          THEN Field[fields].values ELSE Reject
  BY DEF ftpvita_parse_port_tuple, Step, FieldStep, FieldStart
<1> HIDE DEF Field
<1>6. \A n \in 0..fields : Field[n] = IF n = 0 THEN FieldStart ELSE Step(Field[n - 1], n)
  <2> DEFINE f(n) == IF n = 0 THEN FieldStart ELSE Step(Field[n - 1], n)
  <2>1. Field = [n \in 0..fields |-> f(n)]
    BY <1>4
  <2> HIDE DEF f
  <2>2. \A n \in 0..fields : Field[n] = f(n)
    BY <2>1
  <2> QED
    BY <2>2 DEF f
<1>7. Field[0] = FieldStart
  BY <1>6
<1>8. ASSUME NEW n \in 0..fields - 1
      PROVE  Field[n + 1] = FieldStep(arguments, Field[n], n + 1 = fields, octet)
  <2>1. n + 1 \in 0..fields /\ n + 1 # 0 /\ (n + 1) - 1 = n
    OBVIOUS
  <2>2. Field[n + 1] = Step(Field[(n + 1) - 1], n + 1)
    BY <1>6, <2>1
  <2> QED
    BY <2>1, <2>2 DEF Step
<1>9. IsScan(Field, arguments, fields, octet)
  BY <1>5, <1>7, <1>8 DEF IsScan
<1> QED
  BY <1>9

\* A number may be followed by blanks up to the end of its line, and nothing else.
LEMMA EndsLineIs ==
    ASSUME NEW S, NEW s \in Seq(S), NEW m, LineIs(s, m, LineEnds), NEW i \in 1..m
    PROVE  EndsLine(s, i) <=> \A k \in i..m - 1 : s[k] \in Blanks
<1> DEFINE e == SpanEnd(s, i, Blanks)
<1>1. Blanks \cap LineEnds = {} /\ Nul \notin Blanks
  BY DigitsApart
<1>2. /\ e \in i..m /\ StopsAt(s, i, e, Blanks)
      /\ \A j : StopsAt(s, i, j, Blanks) => j = e
  BY <1>1, SpanInLine
<1>3. /\ m \in 1..Len(s) + 1 /\ At(s, m) \in LineEnds
      /\ \A k \in 1..m - 1 : s[k] \notin LineEnds
      /\ Len(s) \in Nat /\ \A k \in 1..Len(s) : At(s, k) = s[k]
  BY AtIs DEF LineIs
<1>4. EndsLine(s, i) <=> At(s, e) \in LineEnds
  BY DEF EndsLine
<1> HIDE DEF e
<1>5. CASE e = m
  BY <1>2, <1>3, <1>4, <1>5 DEF StopsAt
<1>6. CASE e # m
  <2>1. e \in 1..m - 1 /\ e \in i..m - 1 /\ e \in 1..Len(s)
    BY <1>2, <1>3, <1>6
  <2>2. s[e] \notin Blanks /\ s[e] \notin LineEnds
    BY <1>2, <1>3, <2>1 DEF StopsAt
  <2> QED
    BY <1>3, <1>4, <2>1, <2>2
<1> QED
  BY <1>5, <1>6

\* Where the blanks at the end of a text start.
LEMMA BlanksFrom ==
    ASSUME NEW S, NEW s \in Seq(S)
    PROVE  LET blank == Max({0} \cup {i \in DOMAIN s : s[i] \notin Blanks})
           IN /\ blank \in 0..Len(s) /\ \A i \in blank + 1..Len(s) : s[i] \in Blanks
              /\ blank # 0 => s[blank] \notin Blanks
<1> DEFINE A == {0} \cup {i \in DOMAIN s : s[i] \notin Blanks}
<1>1. Len(s) \in Nat /\ DOMAIN s = 1..Len(s)
  BY LenProperties
<1>2. A \subseteq Int /\ 0 \in A /\ \A i \in A : i <= Len(s)
  BY <1>1
<1>3. PICK m \in A : \A i \in A : i <= m
  <2>1. A # {} /\ Len(s) \in Int
    BY <1>1, <1>2
  <2> HIDE DEF A
  <2> QED
    BY <1>2, <2>1, GreatestElement
<1>4. Max(A) = m
  <2> HIDE DEF A
  <2> QED
    BY <1>2, <1>3, MaxIs
<1>5. m \in 0..Len(s) /\ (m # 0 => s[m] \notin Blanks)
  BY <1>1, <1>3
<1>6. ASSUME NEW i \in m + 1..Len(s) PROVE s[i] \in Blanks
  <2>1. i \in 1..Len(s) /\ ~(i <= m)
    BY <1>1, <1>5
  <2>2. i \notin A
    BY <1>3, <2>1
  <2> QED
    BY <1>1, <2>1, <2>2
<1> QED
  BY <1>4, <1>5, <1>6

\* The line of PORT up to the blanks that end it, cut at its commas: the fields.
FieldsOf(s, parts, m, blank, comma) ==
    LET P == Len(parts)
        cut(k) == Nth(Cuts(SubSeq(s, 1, blank), comma), k)
    IN /\ LineIs(s, m, LineEnds) /\ blank \in 0..m - 1
       /\ \A i \in blank + 1..m - 1 : s[i] \in Blanks
       /\ blank # 0 => s[blank] \notin Blanks
       /\ P \in Nat \ {0} /\ cut(1) = 0
       /\ \A k \in 1..P :
            /\ FieldAt(s, cut(k) + 1, cut(k + 1), blank, m, comma)
            /\ cut(k + 1) <= blank <=> k < P
            /\ parts[k] = SubSeq(s, cut(k) + 1, cut(k + 1) - 1)

\* Every line has its fields.
LEMMA FieldsExist ==
    ASSUME NEW S, NEW s \in Seq(S), NEW comma
    PROVE  LET body == Before(s, LineEnds)
               blank == Max({0} \cup {i \in DOMAIN body : body[i] \notin Blanks})
               parts == SplitAt(SubSeq(body, 1, blank), comma)
           IN /\ parts \in Seq(Seq(S))
              /\ \E m : FieldsOf(s, parts, m, blank, comma)
<1> DEFINE body == Before(s, LineEnds)
           blank == Max({0} \cup {i \in DOMAIN body : body[i] \notin Blanks})
           T == SubSeq(body, 1, blank)
           parts == SplitAt(T, comma)
           P == Len(parts)
           cut(k) == Nth(Cuts(T, comma), k)
<1>1. PICK m : LineIs(s, m, LineEnds) /\ body = SubSeq(s, 1, m - 1)
  <2>1. Nul \in LineEnds
    BY DigitsApart
  <2> QED
    BY <2>1, LineExists
<1>2. m \in 1..Len(s) + 1 /\ Len(s) \in Nat
  BY <1>1, LenProperties DEF LineIs
<1>3. body \in Seq(S) /\ Len(body) = m - 1 /\ \A i \in 1..m - 1 : body[i] = s[i]
  <2>1. m - 1 \in 0..Len(s)
    BY <1>2
  <2> QED
    BY <1>1, <2>1, FirstPart
<1> HIDE DEF body
<1>4. /\ blank \in 0..m - 1 /\ (\A i \in blank + 1..m - 1 : body[i] \in Blanks)
      /\ blank # 0 => body[blank] \notin Blanks
  BY <1>3, BlanksFrom
<1> HIDE DEF blank
<1>5. T \in Seq(S) /\ Len(T) = blank /\ \A i \in 1..blank : T[i] = body[i]
  BY <1>3, <1>4, FirstPart
<1>6. T = SubSeq(s, 1, blank)
  <2>1. 1 \in Nat \ {0} /\ blank \in Nat /\ blank <= Len(body) /\ blank <= Len(s)
    BY <1>2, <1>3, <1>4
  <2>2. \A i \in 1..blank : body[i] = s[i]
    BY <1>2, <1>3, <1>4
  <2> QED
    BY <1>3, <2>1, <2>2, SameSlice
<1>7. \A i \in 1..blank : T[i] = s[i]
  BY <1>2, <1>3, <1>4, <1>5
<1> HIDE DEF T
<1>8. parts \in Seq(Seq(S)) /\ P \in Nat \ {0} /\ Pieces(T, comma, P)
  BY <1>5, SplitPieces
<1>9. /\ cut(1) = 0 /\ cut(P + 1) = blank + 1
      /\ \A k \in 1..P :
            /\ cut(k) \in 0..blank /\ cut(k + 1) \in 1..blank + 1 /\ cut(k) < cut(k + 1)
            /\ parts[k] = SubSeq(T, cut(k) + 1, cut(k + 1) - 1)
            /\ \A i \in cut(k) + 1..cut(k + 1) - 1 : T[i] # comma
            /\ cut(k) # 0 => T[cut(k)] = comma
  BY <1>5, <1>8 DEF Pieces
<1>10. blank \in Nat /\ m \in Nat /\ blank + 1 <= m
  BY <1>2, <1>4
<1>11. /\ \A i \in blank + 1..m - 1 : s[i] \in Blanks
       /\ blank # 0 => s[blank] \notin Blanks
  <2>1. \A i \in blank + 1..m - 1 : i \in 1..m - 1
    BY <1>10
  <2>2. blank # 0 => blank \in 1..m - 1
    BY <1>10
  <2> QED
    BY <1>3, <1>4, <2>1, <2>2
<1> HIDE DEF parts, P, cut
<1>12. ASSUME NEW k \in 1..P
       PROVE  /\ FieldAt(s, cut(k) + 1, cut(k + 1), blank, m, comma)
              /\ cut(k + 1) <= blank <=> k < P
              /\ parts[k] = SubSeq(s, cut(k) + 1, cut(k + 1) - 1)
  <2> DEFINE a == cut(k)
             b == cut(k + 1)
  <2>1. /\ a \in 0..blank /\ b \in 1..blank + 1 /\ a < b
        /\ parts[k] = SubSeq(T, a + 1, b - 1)
        /\ \A i \in a + 1..b - 1 : T[i] # comma
    BY <1>9
  <2>2. k < P => b \in 0..blank /\ (b # 0 => T[b] = comma)
    <3> SUFFICES ASSUME k < P PROVE b \in 0..blank /\ (b # 0 => T[b] = comma)
        OBVIOUS
    <3>1. k + 1 \in 1..P
      BY <1>8
    <3> QED
      BY <1>9, <3>1
  <2>3. ~(k < P) => b = blank + 1
    <3>1. ~(k < P) => k = P
      BY <1>8
    <3> QED
      BY <1>9, <3>1
  <2> HIDE DEF a, b
  <2>4. a \in Nat /\ b \in Nat /\ a + 1 <= b /\ a + 1 >= 1 /\ b <= blank + 1
    BY <1>10, <2>1
  <2>5. b <= blank <=> k < P
    BY <1>10, <2>2, <2>3, <2>4
  <2>6. b <= blank => s[b] = comma
    <3> SUFFICES ASSUME b <= blank PROVE s[b] = comma
        OBVIOUS
    <3>1. b \in 1..blank /\ b # 0
      BY <1>10, <2>4
    <3> QED
      BY <1>7, <2>2, <2>5, <3>1
  <2>7. \A i \in a + 1..b - 1 : s[i] # comma /\ T[i] = s[i]
    <3>1. \A i \in a + 1..b - 1 : i \in 1..blank
      BY <1>10, <2>4
    <3> QED
      BY <1>7, <2>1, <3>1
  <2>8. a + 1 \in 1..blank + 1 /\ b \in a + 1..blank + 1
    BY <1>10, <2>1, <2>4
  <2>9. FieldAt(s, a + 1, b, blank, m, comma)
    BY <1>1, <1>4, <1>11, <2>6, <2>7, <2>8 DEF FieldAt
  <2>10. parts[k] = SubSeq(s, a + 1, b - 1)
    <3>1. a + 1 \in Nat \ {0} /\ b - 1 \in Nat /\ b - 1 <= Len(T) /\ b - 1 <= Len(s)
      BY <1>2, <1>5, <1>10, <2>4
    <3>2. SubSeq(T, a + 1, b - 1) = SubSeq(s, a + 1, b - 1)
      BY <1>5, <2>7, <3>1, SameSlice
    <3> QED
      BY <2>1, <3>2
  <2> QED
    BY <2>5, <2>9, <2>10 DEF a, b
<1>13. FieldsOf(s, parts, m, blank, comma)
  BY <1>1, <1>4, <1>6, <1>8, <1>9, <1>11, <1>12 DEF FieldsOf, cut, P
<1> QED
  BY <1>8, <1>13 DEF parts, T, blank, body

\* The port tuple is the numbers of the fields when all are legal.
LEMMA PortFields ==
    ASSUME NEW S, NEW s \in Seq(S), NEW parts \in Seq(Seq(S)), NEW m, NEW blank, NEW comma,
           FieldsOf(s, parts, m, blank, comma), FieldSeparators = {comma},
           comma \notin Digits, comma \notin Blanks, comma \notin LineEnds
    PROVE  ftpvita_parse_port_tuple(s, Fields, OctetMax)
             = IF Len(parts) = Fields /\ \A k \in 1..Len(parts) : Legal(parts[k], OctetMax)
               THEN [k \in 1..Len(parts) |-> NumberOf(parts[k])] ELSE Reject
<1> DEFINE P == Len(parts)
           cut(k) == Nth(Cuts(SubSeq(s, 1, blank), comma), k)
           Good(k) == Legal(parts[k], OctetMax)
           N == [k \in 1..P |-> NumberOf(parts[k])]
           Stop(k) == SpanEnd(s, cut(k) + 1, Digits)
           Value(k) == OctetValue(SubSeq(s, cut(k) + 1, Stop(k) - 1), OctetMax)
           Reached(n) == n < P /\ \A k \in 1..n : Good(k)
           Scan(n) == [cursor |-> cut(n + 1) + 1, values |-> SubSeq(N, 1, n)]
           result == ftpvita_parse_port_tuple(s, Fields, OctetMax)
<1>1. Fields \in Nat \ {0} /\ OctetMax \in Nat
  BY CheckAssumption
<1>2. /\ LineIs(s, m, LineEnds) /\ blank \in 0..m - 1 /\ m \in 1..Len(s) + 1 /\ Len(s) \in Nat
      /\ P \in Nat \ {0} /\ cut(1) = 0
  BY LenProperties DEF FieldsOf, LineIs
<1>3. /\ \A i \in blank + 1..m - 1 : s[i] \in Blanks
      /\ blank # 0 => s[blank] \notin Blanks
  BY DEF FieldsOf
<1>4. m \in Nat /\ blank \in Nat /\ blank + 1 <= m
  BY <1>2
<1> HIDE DEF cut, N
<1>5. ASSUME NEW k \in 1..P
      PROVE  /\ cut(k) + 1 \in Nat /\ cut(k) + 1 >= 1 /\ cut(k + 1) \in Nat /\ cut(k) + 1 <= cut(k + 1)
             /\ cut(k + 1) <= blank + 1 /\ (cut(k + 1) <= blank <=> k < P)
             /\ Stop(k) \in Nat /\ cut(k) + 1 <= Stop(k) /\ Stop(k) <= cut(k + 1)
             /\ At(s, Stop(k)) = comma <=> Stop(k) = cut(k + 1) /\ cut(k + 1) <= blank
             /\ Good(k) <=> Stop(k) # cut(k) + 1 /\ Value(k) # -1 /\ Stop(k) = cut(k + 1)
             /\ Good(k) => Value(k) = NumberOf(parts[k]) /\ NumberOf(parts[k]) \in Nat
             /\ Value(k) # -1 => Value(k) \in Nat
  <2> DEFINE c == cut(k) + 1
             b == cut(k + 1)
  <2>1. /\ FieldAt(s, c, b, blank, m, comma) /\ (b <= blank <=> k < P)
        /\ parts[k] = SubSeq(s, c, b - 1)
    BY DEF FieldsOf, cut
  <2> HIDE DEF c, b
  <2>2. c \in 1..blank + 1 /\ b \in c..blank + 1
    BY <2>1 DEF FieldAt
  <2>3. c \in Nat /\ c >= 1 /\ b \in Nat /\ c <= b /\ b <= blank + 1
    <3>1. c \in Nat /\ c >= 1
      BY <1>4, <2>2
    <3> QED
      BY <1>4, <2>2, <3>1
  <2> DEFINE stop == SpanEnd(s, c, Digits)
             value == OctetValue(SubSeq(s, c, stop - 1), OctetMax)
  <2>4. /\ stop \in c..b
        /\ At(s, stop) = comma <=> stop = b /\ b <= blank
        /\ Legal(SubSeq(s, c, b - 1), OctetMax) <=> stop # c /\ value # -1 /\ stop = b
        /\ Legal(SubSeq(s, c, b - 1), OctetMax) => value = NumberOf(SubSeq(s, c, b - 1))
        /\ value # -1 => value \in Nat
    BY <1>1, <2>1, FieldText
  <2> HIDE DEF stop, value
  <2>5. stop \in Nat /\ c <= stop /\ stop <= b
    BY <2>3, <2>4
  <2>6. /\ Good(k) <=> stop # c /\ value # -1 /\ stop = b
        /\ Good(k) => value = NumberOf(parts[k]) /\ NumberOf(parts[k]) \in Nat
    BY <2>1, <2>4
  <2> QED
    BY <2>1, <2>3, <2>4, <2>5, <2>6 DEF stop, value, c, b
<1> HIDE DEF Good, Stop, Value
<1>6. PICK g : /\ g[0] = FieldStart
               /\ \A n \in 0..Fields - 1 : g[n + 1] = FieldStep(s, g[n], n + 1 = Fields, OctetMax)
               /\ result = IF g[Fields] # Reject /\ EndsLine(s, g[Fields].cursor)
                           THEN g[Fields].values ELSE Reject
  <2>1. PICK g : IsScan(g, s, Fields, OctetMax)
    BY <1>1, FieldsDefined
  <2> QED
    BY <2>1 DEF IsScan
<1> HIDE DEF result
<1> DEFINE R == {NumberOf(parts[k]) : k \in 1..P}
<1>7. N \in Seq(R) /\ Len(N) = P /\ \A k \in 1..P : N[k] = NumberOf(parts[k])
  <2>1. N \in [1..P -> R] /\ DOMAIN N = 1..P
    BY DEF N
  <2> HIDE DEF R, P
  <2>2. N \in Seq(R)
    BY <1>2, <2>1, SeqDef
  <2>3. Len(N) = P
    BY <1>2, <2>1, <2>2, LenProperties
  <2> QED
    BY <2>2, <2>3 DEF N
<1> HIDE DEF R
<1>8. ASSUME NEW n \in 0..P, \A k \in 1..n : Good(k) PROVE SubSeq(N, 1, n) \in Seq(Nat)
  <2>1. \A k \in 1..n : N[k] \in Nat
    <3>1. \A k \in 1..n : k \in 1..P
      BY <1>2
    <3> QED
      BY <1>5, <1>7, <1>8, <3>1
  <2>2. 1 \in Int /\ n \in Int
    OBVIOUS
  <2> QED
    BY <2>1, <2>2, SubSeqProperties
<1>9. ASSUME NEW n \in 0..P - 1, \A k \in 1..n : Good(k)
      PROVE  SubSeq(N, 1, n + 1) = Append(SubSeq(N, 1, n), NumberOf(parts[n + 1]))
  <2>1. n + 1 \in 1..Len(N) /\ 1 \in 1..Len(N) /\ (n + 1) - 1 = n /\ n + 1 \in 1..P /\ n \in 0..Len(N)
    BY <1>2, <1>7
  <2>2. SubSeq(N, 1, n + 1) = SubSeq(N, 1, (n + 1) - 1) \o <<N[n + 1]>>
    BY <1>7, <2>1, SubSeqRecursiveSecond
  <2>3. SubSeq(N, 1, n) \in Seq(R)
    BY <1>7, <2>1, FirstPart
  <2>4. N[n + 1] = NumberOf(parts[n + 1]) /\ N[n + 1] \in R
    BY <1>7, <2>1, ElementOfSeq
  <2>5. Append(SubSeq(N, 1, n), N[n + 1]) = SubSeq(N, 1, n) \o <<N[n + 1]>>
    BY <2>3, <2>4, AppendIsConcat
  <2> QED
    BY <2>1, <2>2, <2>4, <2>5
<1>10. ASSUME NEW n \in Nat, Reached(n)
       PROVE  /\ n + 1 \in 1..P /\ n \in 0..P - 1 /\ n \in 0..P
              /\ Scan(n) # Reject /\ Scan(n).cursor = cut(n + 1) + 1 /\ Scan(n).values = SubSeq(N, 1, n)
              /\ SubSeq(N, 1, n) \in Seq(Nat)
  <2>1. n + 1 \in 1..P /\ n \in 0..P - 1 /\ n \in 0..P
    BY <1>2, <1>10
  <2>2. SubSeq(N, 1, n) \in Seq(Nat)
    BY <1>8, <1>10, <2>1
  <2>3. cut(n + 1) + 1 \in Nat
    BY <1>5, <2>1
  <2>4. Scan(n) \in [cursor : Nat, values : Seq(Nat)]
    BY <2>2, <2>3
  <2> QED
    BY <2>1, <2>2, <2>4, RejectAssumption
<1> DEFINE Claim(n) == g[n] = IF Reached(n) THEN Scan(n) ELSE Reject
           X == {n \in Nat : n < Fields => Claim(n)}
<1>11. ASSUME NEW n \in Nat, Reached(n), NEW last \in BOOLEAN
       PROVE  ReadField(s, Scan(n), last, OctetMax)
                = IF \/ Stop(n + 1) = cut(n + 1) + 1 \/ Value(n + 1) = -1
                     \/ ~last /\ At(s, Stop(n + 1)) # comma
                  THEN Reject
                  ELSE [cursor |-> IF last THEN Stop(n + 1) ELSE Stop(n + 1) + 1,
                        values |-> Append(SubSeq(N, 1, n), Value(n + 1))]
  <2> DEFINE c == Scan(n).cursor
             v == Scan(n).values
  <2>1. c = cut(n + 1) + 1 /\ v = SubSeq(N, 1, n)
    BY <1>10, <1>11
  <2>2. ReadField(s, Scan(n), last, OctetMax)
          = LET stop == SpanEnd(s, c, Digits)
                value == OctetValue(SubSeq(s, c, stop - 1), OctetMax)
            IN IF stop = c \/ value = -1 \/ (~last /\ At(s, stop) \notin FieldSeparators)
               THEN Reject
               ELSE [cursor |-> IF last THEN stop ELSE stop + 1, values |-> Append(v, value)]
    BY DEF ReadField
  <2> HIDE DEF c, v, Scan, Reached
  <2>3. Stop(n + 1) = SpanEnd(s, c, Digits) /\ Value(n + 1) = OctetValue(SubSeq(s, c, Stop(n + 1) - 1), OctetMax)
    BY <2>1 DEF Stop, Value
  <2>4. At(s, Stop(n + 1)) \notin FieldSeparators <=> At(s, Stop(n + 1)) # comma
    OBVIOUS
  <2> QED
    BY <2>1, <2>2, <2>3, <2>4
<1>12. 0 \in X
  <2>1. Reached(0)
    BY <1>2
  <2>2. Scan(0) = FieldStart
    <3>1. SubSeq(N, 1, 0) = <<>>
      BY SubSeqEmpty
    <3>2. cut(0 + 1) + 1 = 1
      BY <1>2
    <3> QED
      BY <3>1, <3>2 DEF FieldStart
  <2> HIDE DEF Reached, Scan
  <2> QED
    BY <1>6, <2>1, <2>2
<1>13. ASSUME NEW n \in Nat, n \in X PROVE n + 1 \in X
  <2> SUFFICES ASSUME n + 1 < Fields PROVE Claim(n + 1)
      OBVIOUS
  <2>1. Claim(n) /\ n \in 0..Fields - 1 /\ n + 1 # Fields
    BY <1>1, <1>13
  <2>2. g[n + 1] = FieldStep(s, g[n], FALSE, OctetMax)
    <3>1. g[n + 1] = FieldStep(s, g[n], n + 1 = Fields, OctetMax)
      BY <1>6, <2>1
    <3>2. (n + 1 = Fields) = FALSE
      BY <2>1
    <3> QED
      BY <3>1, <3>2
  <2>3. CASE ~Reached(n)
    <3>1. ~Reached(n + 1)
      BY <1>2, <2>3
    <3> HIDE DEF Reached, Scan
    <3>2. g[n] = Reject
      BY <2>1, <2>3
    <3> QED
      BY <2>2, <3>1, <3>2 DEF FieldStep
  <2>4. CASE Reached(n)
    <3>1. /\ n + 1 \in 1..P /\ n \in 0..P - 1 /\ Scan(n) # Reject
          /\ g[n] = Scan(n)
      BY <1>10, <2>1, <2>4
    <3>2. g[n + 1] = ReadField(s, Scan(n), FALSE, OctetMax)
      <4> HIDE DEF Scan
      <4> QED
        BY <2>2, <3>1 DEF FieldStep
    <3>3. g[n + 1] = IF \/ Stop(n + 1) = cut(n + 1) + 1 \/ Value(n + 1) = -1
                        \/ At(s, Stop(n + 1)) # comma
                     THEN Reject
                     ELSE [cursor |-> Stop(n + 1) + 1, values |-> Append(SubSeq(N, 1, n), Value(n + 1))]
      <4>1. FALSE \in BOOLEAN
        OBVIOUS
      <4>2. ReadField(s, Scan(n), FALSE, OctetMax)
                = IF \/ Stop(n + 1) = cut(n + 1) + 1 \/ Value(n + 1) = -1
                     \/ ~FALSE /\ At(s, Stop(n + 1)) # comma
                  THEN Reject
                  ELSE [cursor |-> IF FALSE THEN Stop(n + 1) ELSE Stop(n + 1) + 1,
                        values |-> Append(SubSeq(N, 1, n), Value(n + 1))]
        BY <1>11, <2>4, <4>1
      <4> HIDE DEF Scan, Reached
      <4> QED
        BY <3>2, <4>2
    <3>4. Reached(n + 1) <=> n + 1 < P /\ Good(n + 1)
      <4>1. \A k \in 1..n + 1 : k \in 1..n \/ k = n + 1
        OBVIOUS
      <4>2. n + 1 \in 1..n + 1 /\ \A k \in 1..n : k \in 1..n + 1
        OBVIOUS
      <4> QED
        BY <2>4, <4>1, <4>2
    <3> DEFINE k == n + 1
    <3>5. /\ cut(k + 1) <= blank <=> k < P
          /\ At(s, Stop(k)) = comma <=> Stop(k) = cut(k + 1) /\ cut(k + 1) <= blank
          /\ Good(k) <=> Stop(k) # cut(k) + 1 /\ Value(k) # -1 /\ Stop(k) = cut(k + 1)
          /\ Good(k) => Value(k) = NumberOf(parts[k]) /\ NumberOf(parts[k]) \in Nat
      BY <1>5, <3>1
    <3>6. Append(SubSeq(N, 1, n), NumberOf(parts[k])) = SubSeq(N, 1, k)
      BY <1>9, <2>4, <3>1
    <3>7. CASE Reached(k)
      <4>1. k < P /\ Good(k)
        BY <3>4, <3>7
      <4> HIDE DEF Reached, k
      <4>2. Stop(k) = cut(k + 1) /\ At(s, Stop(k)) = comma /\ Value(k) = NumberOf(parts[k])
            /\ Stop(k) # cut(k) + 1 /\ Value(k) # -1
        BY <3>5, <4>1
      <4>3. g[k] = [cursor |-> cut(k + 1) + 1, values |-> SubSeq(N, 1, k)]
        BY <3>3, <3>6, <4>2 DEF k
      <4> QED
        BY <3>7, <4>3 DEF k
    <3>8. CASE ~Reached(k)
      <4> HIDE DEF Reached, k
      <4>1. Stop(k) = cut(k) + 1 \/ Value(k) = -1 \/ At(s, Stop(k)) # comma
        BY <3>4, <3>5, <3>8 DEF k
      <4>2. g[k] = Reject
        BY <3>3, <4>1 DEF k
      <4> QED
        BY <3>8, <4>2 DEF k
    <3> QED
      BY <3>7, <3>8
  <2> QED
    BY <2>3, <2>4
<1> DEFINE n == Fields - 1
<1>14. n \in Nat /\ n + 1 = Fields /\ n \in 0..Fields - 1 /\ Claim(n)
  <2>1. Nat \subseteq X
    <3> HIDE DEF X
    <3> QED
      BY <1>12, <1>13, SetInduction
  <2>2. n \in Nat /\ n < Fields /\ n + 1 = Fields /\ n \in 0..Fields - 1
    BY <1>1
  <2> HIDE DEF n, Claim
  <2> QED
    BY <2>1, <2>2
<1> HIDE DEF X, n
<1>15. g[Fields] = FieldStep(s, g[n], TRUE, OctetMax)
  <2>1. g[n + 1] = FieldStep(s, g[n], n + 1 = Fields, OctetMax)
    BY <1>6, <1>14
  <2>2. (n + 1 = Fields) = TRUE
    BY <1>14
  <2> QED
    BY <1>14, <2>1, <2>2
<1> DEFINE legal == P = Fields /\ \A k \in 1..P : Good(k)
<1>16. CASE ~Reached(n)
  <2>1. ~legal
    BY <1>1, <1>2, <1>14, <1>16
  <2>2. result = Reject
    <3>1. g[n] = Reject
      BY <1>14, <1>16
    <3> QED
      BY <1>6, <1>15, <3>1 DEF FieldStep
  <2> QED
    BY <2>1, <2>2 DEF result, Good
<1>17. CASE Reached(n)
  <2> DEFINE k == n + 1
             v == SubSeq(N, 1, n)
  <2>1. k = Fields /\ k \in 1..P /\ n \in 0..P - 1 /\ Scan(n) # Reject /\ g[n] = Scan(n) /\ v \in Seq(Nat)
    BY <1>10, <1>14, <1>17
  <2>2. g[Fields] = IF Stop(k) = cut(k) + 1 \/ Value(k) = -1 THEN Reject
                    ELSE [cursor |-> Stop(k), values |-> Append(v, Value(k))]
    <3>1. g[Fields] = ReadField(s, Scan(n), TRUE, OctetMax)
      <4> HIDE DEF Scan, k
      <4> QED
        BY <1>15, <2>1 DEF FieldStep
    <3>2. TRUE \in BOOLEAN
      OBVIOUS
    <3>3. ReadField(s, Scan(n), TRUE, OctetMax)
                = IF \/ Stop(n + 1) = cut(n + 1) + 1 \/ Value(n + 1) = -1
                     \/ ~TRUE /\ At(s, Stop(n + 1)) # comma
                  THEN Reject
                  ELSE [cursor |-> IF TRUE THEN Stop(n + 1) ELSE Stop(n + 1) + 1,
                        values |-> Append(SubSeq(N, 1, n), Value(n + 1))]
      BY <1>11, <1>14, <1>17, <3>2
    <3> HIDE DEF Scan, Reached
    <3> QED
      BY <3>1, <3>3
  <2>3. /\ cut(k) + 1 \in Nat /\ cut(k) + 1 >= 1 /\ cut(k + 1) \in Nat /\ cut(k) + 1 <= cut(k + 1)
        /\ cut(k + 1) <= blank + 1 /\ (cut(k + 1) <= blank <=> k < P)
        /\ Stop(k) \in Nat /\ cut(k) + 1 <= Stop(k) /\ Stop(k) <= cut(k + 1)
        /\ Good(k) <=> Stop(k) # cut(k) + 1 /\ Value(k) # -1 /\ Stop(k) = cut(k + 1)
        /\ Good(k) => Value(k) = NumberOf(parts[k]) /\ NumberOf(parts[k]) \in Nat
        /\ Value(k) # -1 => Value(k) \in Nat
    BY <1>5, <2>1
  <2>4. Append(v, NumberOf(parts[k])) = SubSeq(N, 1, k)
    BY <1>9, <1>17, <2>1
  <2>5. legal <=> k = P /\ Good(k)
    <3>1. \A j \in 1..k : j \in 1..n \/ j = k
      BY <1>14
    <3>2. k \in 1..k /\ \A j \in 1..n : j \in 1..k
      BY <1>14
    <3> HIDE DEF k
    <3> QED
      BY <1>17, <2>1, <3>1, <3>2
  <2> HIDE DEF k, v, Reached, legal, Scan
  <2>6. EndsLine(s, Stop(k)) <=> Stop(k) = blank + 1
    <3>1. Stop(k) \in 1..m /\ Stop(k) <= blank + 1
      BY <1>4, <2>3
    <3>2. EndsLine(s, Stop(k)) <=> \A i \in Stop(k)..m - 1 : s[i] \in Blanks
      BY <1>2, <3>1, EndsLineIs
    <3>3. CASE Stop(k) = blank + 1
      BY <1>3, <3>2, <3>3
    <3>4. CASE Stop(k) # blank + 1
      <4>1. blank \in Stop(k)..m - 1 /\ blank # 0
        BY <1>4, <3>1, <3>4
      <4> QED
        BY <1>3, <3>2, <3>4, <4>1
    <3> QED
      BY <3>3, <3>4
  <2>7. CASE legal
    <3>1. k = P /\ Good(k) /\ ~(k < P)
      BY <1>2, <2>5, <2>7
    <3>2. Stop(k) # cut(k) + 1 /\ Value(k) # -1 /\ Stop(k) = cut(k + 1) /\ Value(k) = NumberOf(parts[k])
      BY <2>3, <3>1
    <3>3. Stop(k) = blank + 1
      BY <1>4, <2>3, <3>1, <3>2
    <3>4. g[Fields] = [cursor |-> Stop(k), values |-> SubSeq(N, 1, k)]
      BY <2>2, <2>4, <3>2
    <3>5. g[Fields] # Reject
      <4>1. SubSeq(N, 1, k) \in Seq(Nat)
        <5>1. P \in 0..P /\ \A j \in 1..P : Good(j)
          BY <1>2, <2>7 DEF legal
        <5> QED
          BY <1>8, <3>1, <5>1
      <4>2. g[Fields] \in [cursor : Nat, values : Seq(Nat)]
        BY <2>3, <3>4, <4>1
      <4> QED
        BY <4>2, RejectAssumption
    <3>6. g[Fields].cursor = Stop(k) /\ g[Fields].values = SubSeq(N, 1, k)
      <4> DEFINE u == SubSeq(N, 1, k)
                 stop == Stop(k)
      <4>1. g[Fields] = [cursor |-> stop, values |-> u]
        BY <3>4
      <4> HIDE DEF u, stop
      <4>2. g[Fields].cursor = stop /\ g[Fields].values = u
        BY <4>1
      <4> QED
        BY <4>2 DEF u, stop
    <3>7. SubSeq(N, 1, k) = N
      BY <1>7, <3>1, SubSeqFull
    <3>8. result = N
      BY <1>6, <2>6, <3>3, <3>5, <3>6, <3>7
    <3> QED
      BY <2>7, <3>8 DEF legal, result, N, Good
  <2>8. CASE ~legal
    <3>1. ASSUME g[Fields] # Reject, EndsLine(s, g[Fields].cursor) PROVE FALSE
      <4>1. /\ Stop(k) # cut(k) + 1 /\ Value(k) # -1
            /\ g[Fields] = [cursor |-> Stop(k), values |-> Append(v, Value(k))]
        BY <2>2, <3>1
      <4>2. g[Fields].cursor = Stop(k)
        BY <4>1
      <4>3. Stop(k) = blank + 1
        BY <2>6, <3>1, <4>2
      <4>4. Stop(k) = cut(k + 1) /\ ~(cut(k + 1) <= blank)
        BY <1>4, <2>3, <4>3
      <4>5. k = P /\ Good(k)
        BY <1>2, <2>1, <2>3, <4>1, <4>4
      <4> QED
        BY <2>5, <2>8, <4>5
    <3>2. result = Reject
      BY <1>6, <3>1
    <3> QED
      BY <2>8, <3>2 DEF legal, result, Good
  <2> QED
    BY <2>7, <2>8
<1> QED
  BY <1>16, <1>17

\* PORT takes the lines of its number of fields.
LEMMA PortText == line \in Seq(Chars) => PortIsTuple
<1> SUFFICES ASSUME line \in Seq(Chars) PROVE PortIsTuple
    OBVIOUS
<1> DEFINE comma == ","
           body == Before(line, LineEnds)
           blank == Max({0} \cup {i \in DOMAIN body : body[i] \notin Blanks})
           parts == SplitAt(SubSeq(body, 1, blank), comma)
           legal == /\ Len(parts) = Fields
                    /\ \A k \in DOMAIN parts :
                         /\ parts[k] # <<>> /\ All(parts[k], Digits)
                         /\ NumberOf(parts[k]) <= OctetMax
<1>1. /\ FieldSeparators = {comma} /\ comma \notin LineEnds
      /\ comma \notin Digits /\ comma \notin Blanks
  BY DigitsApart DEF FieldSeparators, LineEnds, Nul
<1>2. PortIsTuple <=> ftpvita_parse_port_tuple(line, Fields, OctetMax)
                        = IF legal THEN [k \in DOMAIN parts |-> NumberOf(parts[k])] ELSE Reject
  BY DEF PortIsTuple
<1> HIDE DEF comma
<1>3. parts \in Seq(Seq(Chars)) /\ \E m : FieldsOf(line, parts, m, blank, comma)
  BY FieldsExist
<1> HIDE DEF parts, blank, body
<1>4. PICK m : FieldsOf(line, parts, m, blank, comma)
  BY <1>3
<1>5. DOMAIN parts = 1..Len(parts)
  BY <1>3, LenProperties
<1>6. ftpvita_parse_port_tuple(line, Fields, OctetMax)
        = IF Len(parts) = Fields /\ \A k \in 1..Len(parts) : Legal(parts[k], OctetMax)
          THEN [k \in 1..Len(parts) |-> NumberOf(parts[k])] ELSE Reject
  BY <1>1, <1>3, <1>4, PortFields
<1>7. legal <=> Len(parts) = Fields /\ \A k \in 1..Len(parts) : Legal(parts[k], OctetMax)
  BY <1>5 DEF Legal
<1> HIDE DEF legal
<1> QED
  BY <1>2, <1>5, <1>6, <1>7

\* The FTP server splits a control line into its verb and its argument, takes the
\* number of REST when the line is one it can hold, and the tuple of PORT when the
\* line has its fields, each a decimal number of one octet (ftpvita_parse.h), for
\* every text and all sizes.
THEOREM ControlTextIsParsed == LineSpec => []ControlTextParsed
<1>1. Typed => ControlTextParsed
  BY ControlLineText, RestText, PortText DEF Typed, ControlTextParsed
<1> QED
  BY <1>1, LineTyped, PTL
=============================================================================
