---------------------------- MODULE Store_proofs ------------------------------
(***************************************************************************)
(* What holds of what the program stores, for every value of the           *)
(* constants of MCComponents: inductive invariants of the three            *)
(* components that read texts and lists, and with those of                 *)
(* Components_proofs the theorems about the run. The lemmas at the start   *)
(* are about lists: what is computed along a list by a recursive function  *)
(* is defined, and keeps what each of its steps keeps.                     *)
(***************************************************************************)
EXTENDS Components_proofs

\* What holds of 0 and of the next number with each number up to m holds up to m.
LEMMA UpTo ==
    ASSUME NEW m \in Nat, NEW P, 0 \in P, \A n \in 0 .. m - 1 : n \in P => n + 1 \in P
    PROVE  0 .. m \subseteq P
<1> DEFINE Q == {n \in 0 .. m : n \notin P}
<1>1. ASSUME Q # {} PROVE FALSE
  <2>1. Q \subseteq Nat
    OBVIOUS
  <2>2. PICK i \in Q : \A j \in Q : i <= j
    BY <1>1, <2>1, LeastOf
  <2>3. i # 0 /\ i - 1 \in 0 .. m - 1
    BY <2>2
  <2>4. i - 1 \in P
    BY <2>2, <2>3
  <2>5. (i - 1) + 1 \in P
    BY <2>3, <2>4
  <2> QED BY <2>2, <2>5
<1> QED BY <1>1

\* The two parts of a text of two.
LEMMA PartsOf ==
    ASSUME NEW S, NEW a \in Seq(S), NEW b \in Seq(S)
    PROVE  /\ SubSeq(a \o b, 1, Len(a)) = a
           /\ SubSeq(a \o b, Len(a) + 1, Len(a \o b)) = b
<1> DEFINE t == a \o b
           p == SubSeq(t, 1, Len(a))
           q == SubSeq(t, Len(a) + 1, Len(t))
<1>1. Len(a) \in Nat /\ Len(b) \in Nat
  BY LenProperties
<1>2. /\ t \in Seq(S) /\ Len(t) = Len(a) + Len(b)
      /\ \A i \in 1 .. Len(a) : t[i] = a[i]
      /\ \A i \in 1 .. Len(b) : t[Len(a) + i] = b[i]
  BY Joined
<1> HIDE DEF t
<1>3. /\ p \in Seq(S) /\ Len(p) = Len(a) - 1 + 1
      /\ \A i \in 1 .. Len(a) - 1 + 1 : p[i] = t[1 + i - 1]
  BY <1>1, <1>2, Cut
<1>4. /\ q \in Seq(S) /\ Len(q) = Len(t) - (Len(a) + 1) + 1
      /\ \A i \in 1 .. Len(t) - (Len(a) + 1) + 1 : q[i] = t[(Len(a) + 1) + i - 1]
  <2>1. Len(a) + 1 \in Nat \ {0} /\ Len(t) \in Nat /\ Len(t) <= Len(t)
        /\ Len(a) + 1 <= Len(t) + 1
    BY <1>1, <1>2
  <2> QED BY <1>2, <2>1, Cut
<1> HIDE DEF p, q
<1>5. Len(p) = Len(a) /\ \A i \in 1 .. Len(a) : p[i] = a[i]
  BY <1>1, <1>2, <1>3
<1>6. Len(q) = Len(b) /\ \A i \in 1 .. Len(b) : q[i] = b[i]
  <2>1. Len(q) = Len(b)
    BY <1>1, <1>2, <1>4
  <2>2. ASSUME NEW i \in 1 .. Len(b) PROVE q[i] = t[Len(a) + i]
    BY <1>1, <1>2, <1>4
  <2> QED BY <1>2, <2>1, <2>2
<1>7. p = a
  BY <1>3, <1>5, SeqEqual
<1>8. q = b
  BY <1>4, <1>6, SeqEqual
<1> QED BY <1>7, <1>8 DEF p, q, t
\* The first elements of a sequence, and one more.
LEMMA PrefixIs ==
    ASSUME NEW S, NEW s \in Seq(S), NEW k \in 0 .. Len(s) - 1
    PROVE  /\ SubSeq(s, 1, k) \in Seq(S) /\ s[k + 1] \in S
           /\ SubSeq(s, 1, k + 1) = Append(SubSeq(s, 1, k), s[k + 1])
<1> DEFINE a == SubSeq(s, 1, k)
           n == k + 1
           q == SubSeq(s, 1, n)
           x == s[n]
           t == Append(a, x)
<1>0. Len(s) \in Nat /\ k \in Nat /\ k <= Len(s) /\ n \in Nat /\ n <= Len(s)
      /\ 1 <= k + 1 /\ 1 <= n + 1 /\ n = k + 1
  BY LenProperties
<1>1. x \in S
  <2>1. n \in 1 .. Len(s)
    BY <1>0
  <2> HIDE DEF n
  <2> QED BY <2>1, LenProperties
<1> HIDE DEF n, x
<1>2. a \in Seq(S) /\ Len(a) = k /\ \A i \in 1 .. k : a[i] = s[i]
  <2>1. /\ a \in Seq(S) /\ Len(a) = k - 1 + 1
        /\ \A i \in 1 .. k - 1 + 1 : a[i] = s[1 + i - 1]
    BY <1>0, Cut
  <2> HIDE DEF a
  <2> QED BY <1>0, <2>1
<1>3. q \in Seq(S) /\ Len(q) = n /\ \A i \in 1 .. n : q[i] = s[i]
  <2>1. /\ q \in Seq(S) /\ Len(q) = n - 1 + 1
        /\ \A i \in 1 .. n - 1 + 1 : q[i] = s[1 + i - 1]
    BY <1>0, Cut
  <2> HIDE DEF q
  <2> QED BY <1>0, <2>1
<1> HIDE DEF a, q
<1>4. /\ t \in Seq(S) /\ Len(t) = Len(a) + 1 /\ t[Len(a) + 1] = x
      /\ \A i \in 1 .. Len(a) : t[i] = a[i]
  BY <1>1, <1>2, AppendProperties
<1> HIDE DEF t
<1>5. ASSUME NEW i \in 1 .. Len(q) PROVE q[i] = t[i]
  <2>1. CASE i = n
    BY <1>0, <1>2, <1>3, <1>4, <2>1 DEF x
  <2>2. CASE i # n
    <3>1. i \in 1 .. k
      BY <1>0, <1>3, <2>2
    <3> QED BY <1>2, <1>3, <1>4, <3>1
  <2> QED BY <2>1, <2>2
<1>6. q = t
  BY <1>0, <1>2, <1>3, <1>4, <1>5, SeqEqual
<1> QED BY <1>1, <1>2, <1>6 DEF a, q, t, x, n


\* What holds of no element, and with each sequence of the next longer ones.
LEMMA SeqInduct ==
    ASSUME NEW T, NEW P, <<>> \in P, \A s \in Seq(T) : s \in P
           => \A t \in T : Append(s, t) \in P
    PROVE  Seq(T) \subseteq P
<1> SUFFICES ASSUME NEW q \in Seq(T) PROVE q \in P
  OBVIOUS
<1> DEFINE m == Len(q)
           G == {k \in 0 .. m : \A s \in Seq(T) : Len(s) = k => s \in P}
<1>0. m \in Nat
  BY LenProperties
<1>1. 0 \in G
  <2>1. ASSUME NEW s \in Seq(T), Len(s) = 0 PROVE s \in P
    <3>1. s = <<>>
      BY <2>1, EmptySeq
    <3> QED BY <3>1
  <2> QED BY <1>0, <2>1
<1>2. ASSUME NEW k \in 0 .. m - 1, k \in G PROVE k + 1 \in G
  <2>1. ASSUME NEW s \in Seq(T), Len(s) = k + 1 PROVE s \in P
    <3> DEFINE p == SubSeq(s, 1, k)
               x == s[k + 1]
    <3>1. k \in 0 .. Len(s) - 1 /\ k \in Nat
      BY <1>0, <2>1
    <3>2. /\ p \in Seq(T) /\ x \in T
          /\ SubSeq(s, 1, k + 1) = Append(p, x)
      BY <3>1, PrefixIs
    <3>3. SubSeq(s, 1, k + 1) = s
      BY <2>1, SubSeqFull
    <3>4. Len(p) = k
      <4>1. 1 \in Nat \ {0} /\ k \in Nat /\ k <= Len(s) /\ 1 <= k + 1
        BY <2>1, <3>1
      <4>2. Len(p) = k - 1 + 1
        BY <4>1, Cut
      <4> QED BY <3>1, <4>2
    <3> HIDE DEF p, x
    <3>5. p \in P
      BY <1>2, <3>2, <3>4
    <3> QED BY <3>2, <3>3, <3>5
  <2> QED BY <1>0, <2>1
<1> HIDE DEF G
<1>3. 0 .. m \subseteq G
  BY <1>0, <1>1, <1>2, UpTo
<1>4. m \in G
  BY <1>0, <1>3
<1> QED BY <1>4 DEF G

\* What the elements of a sequence make, one after the other, of a first value.
Runs(s, D, b, G) ==
    {f \in [0 .. Len(s) -> D] : f[0] = b /\ \A n \in 1 .. Len(s) : f[n] = G[f[n - 1]][s[n]]}
FoldOf(s, D, b, G) == LET f == CHOOSE f \in Runs(s, D, b, G) : TRUE IN f[Len(s)]

Steps(D, T) == [D -> [T -> D]]

\* There is a run of the steps along a list, ...
LEMMA RunThere ==
    ASSUME NEW T, NEW D, NEW b \in D, NEW G \in Steps(D, T), NEW s \in Seq(T)
    PROVE  \E f : f \in Runs(s, D, b, G)
<1> DEFINE m == Len(s)
           Good(k) == \E f \in [0 .. k -> D] : f[0] = b
              /\ \A n \in 1 .. k : f[n] = G[f[n - 1]][s[n]]
           P == {k \in 0 .. m : Good(k)}
<1>0. m \in Nat /\ \A n \in 1 .. m : s[n] \in T
  BY LenProperties
<1>1. Good(0)
  <2> DEFINE f == [k \in 0 .. 0 |-> b]
  <2>1. f \in [0 .. 0 -> D] /\ f[0] = b
    OBVIOUS
  <2> HIDE DEF f
  <2> QED BY <2>1
<1>2. ASSUME NEW k \in 0 .. m - 1, Good(k) PROVE Good(k + 1)
  <2>1. PICK f \in [0 .. k -> D] : f[0] = b /\ \A n \in 1 .. k : f[n] = G[f[n - 1]][s[n]]
    BY <1>2
  <2> DEFINE g == [n \in 0 .. k + 1 |-> IF n = k + 1 THEN G[f[k]][s[n]] ELSE f[n]]
  <2>2. G[f[k]][s[k + 1]] \in D
    <3>1. k + 1 \in 1 .. m /\ k \in 0 .. k
      BY <1>0
    <3>2. f[k] \in D /\ s[k + 1] \in T
      BY <1>0, <3>1
    <3> QED BY <3>2 DEF Steps
  <2>3. /\ g \in [0 .. k + 1 -> D] /\ g[0] = f[0]
        /\ g[k + 1] = G[f[k]][s[k + 1]] /\ \A n \in 0 .. k : g[n] = f[n]
    BY <2>2
  <2> HIDE DEF g
  <2>4. ASSUME NEW n \in 1 .. k + 1 PROVE g[n] = G[g[n - 1]][s[n]]
    <3>1. CASE n = k + 1
      BY <2>3, <3>1
    <3>2. CASE n \in 1 .. k
      <4>1. n \in 0 .. k /\ n - 1 \in 0 .. k
        BY <3>2
      <4>2. g[n] = f[n] /\ g[n - 1] = f[n - 1]
        BY <2>3, <4>1
      <4> QED BY <2>1, <3>2, <4>2
    <3> QED BY <3>1, <3>2
  <2> QED BY <2>1, <2>3, <2>4
<1> HIDE DEF Good
<1>3. 0 .. m \subseteq P
  <2>1. 0 \in P /\ \A n \in 0 .. m - 1 : n \in P => n + 1 \in P
    BY <1>0, <1>1, <1>2
  <2> HIDE DEF P
  <2> QED BY <1>0, <2>1, UpTo
<1>4. Good(m)
  BY <1>0, <1>3
<1> QED BY <1>4 DEF Good, Runs

\* ... there is only one, ...
LEMMA RunsAlike ==
    ASSUME NEW T, NEW D, NEW b \in D, NEW G \in Steps(D, T), NEW s \in Seq(T),
           NEW f \in Runs(s, D, b, G), NEW g \in Runs(s, D, b, G)
    PROVE  f = g
<1> DEFINE m == Len(s)
           P == {k \in 0 .. m : f[k] = g[k]}
<1>0. m \in Nat
  BY LenProperties
<1>1. /\ f \in [0 .. m -> D] /\ f[0] = b /\ \A n \in 1 .. m : f[n] = G[f[n - 1]][s[n]]
      /\ g \in [0 .. m -> D] /\ g[0] = b /\ \A n \in 1 .. m : g[n] = G[g[n - 1]][s[n]]
  BY DEF Runs
<1> HIDE DEF m
<1>2. 0 \in P
  BY <1>0, <1>1
<1>3. ASSUME NEW k \in 0 .. m - 1, k \in P PROVE k + 1 \in P
  <2>1. k + 1 \in 1 .. m /\ k + 1 \in 0 .. m /\ (k + 1) - 1 = k
    BY <1>0
  <2>2. f[k] = g[k]
    BY <1>3
  <2>3. f[k + 1] = G[f[(k + 1) - 1]][s[k + 1]] /\ g[k + 1] = G[g[(k + 1) - 1]][s[k + 1]]
    BY <1>1, <2>1
  <2>4. f[k + 1] = g[k + 1]
    BY <2>1, <2>2, <2>3
  <2> QED BY <2>1, <2>4
<1> HIDE DEF P
<1>4. 0 .. m \subseteq P
  BY <1>0, <1>2, <1>3, UpTo
<1>5. \A k \in 0 .. m : f[k] = g[k]
  BY <1>4 DEF P
<1>6. f = [k \in 0 .. m |-> f[k]] /\ g = [k \in 0 .. m |-> g[k]]
  BY <1>1
<1> QED BY <1>5, <1>6

\* ... and it ends in what the fold gives.
LEMMA RunIs ==
    ASSUME NEW T, NEW D, NEW b \in D, NEW G \in Steps(D, T), NEW s \in Seq(T),
           NEW f \in Runs(s, D, b, G)
    PROVE  FoldOf(s, D, b, G) = f[Len(s)] /\ FoldOf(s, D, b, G) \in D
<1> DEFINE g == CHOOSE h \in Runs(s, D, b, G) : TRUE
<1>1. g \in Runs(s, D, b, G)
  OBVIOUS
<1>2. FoldOf(s, D, b, G) = g[Len(s)]
  BY DEF FoldOf
<1> HIDE DEF g
<1>3. g = f
  BY <1>1, RunsAlike
<1>4. f[Len(s)] \in D
  <2>1. Len(s) \in 0 .. Len(s)
    BY LenProperties
  <2> QED BY <2>1 DEF Runs
<1> QED BY <1>2, <1>3, <1>4

\* No element leaves the first value, one more takes one step more.
LEMMA FoldSteps ==
    ASSUME NEW T, NEW D, NEW b \in D, NEW G \in Steps(D, T)
    PROVE  /\ FoldOf(<<>>, D, b, G) = b
           /\ \A s \in Seq(T) : FoldOf(s, D, b, G) \in D
           /\ \A s \in Seq(T), t \in T : FoldOf(Append(s, t), D, b, G) = G[FoldOf(s, D, b,
              G)][t]
<1>1. FoldOf(<<>>, D, b, G) = b
  <2> DEFINE e == <<>>
  <2>1. e \in Seq(T) /\ Len(e) = 0
    BY EmptySeq
  <2> HIDE DEF e
  <2>2. PICK f : f \in Runs(e, D, b, G)
    BY <2>1, RunThere
  <2>3. FoldOf(e, D, b, G) = f[0]
    <3>1. e \in Seq(T)
      BY <2>1
    <3>2. FoldOf(e, D, b, G) = f[Len(e)]
      BY <2>2, <3>1, RunIs
    <3> QED BY <2>1, <3>2
  <2> QED BY <2>2, <2>3 DEF Runs, e
<1>2. ASSUME NEW s \in Seq(T) PROVE FoldOf(s, D, b, G) \in D
  <2>1. PICK f : f \in Runs(s, D, b, G)
    BY RunThere
  <2> QED BY <2>1, RunIs
<1>3. ASSUME NEW s \in Seq(T), NEW t \in T
      PROVE  FoldOf(Append(s, t), D, b, G) = G[FoldOf(s, D, b, G)][t]
  <2> DEFINE q == Append(s, t)
             m == Len(s)
  <2>0. m \in Nat
    BY LenProperties
  <2>1. /\ q \in Seq(T) /\ Len(q) = m + 1 /\ q[m + 1] = t
        /\ \A i \in 1 .. m : q[i] = s[i]
    BY AppendProperties
  <2> HIDE DEF q
  <2>2. PICK f : f \in Runs(q, D, b, G)
    BY <2>1, RunThere
  <2>3. /\ f \in [0 .. m + 1 -> D] /\ f[0] = b
        /\ \A n \in 1 .. m + 1 : f[n] = G[f[n - 1]][q[n]]
    BY <2>1, <2>2 DEF Runs
  <2>4. FoldOf(q, D, b, G) = f[m + 1]
    BY <2>1, <2>2, RunIs
  <2> DEFINE g == [n \in 0 .. m |-> f[n]]
  <2>5. g \in [0 .. m -> D] /\ \A n \in 0 .. m : g[n] = f[n]
    BY <2>0, <2>3
  <2> HIDE DEF g
  <2>6. ASSUME NEW n \in 1 .. m PROVE g[n] = G[g[n - 1]][s[n]]
    <3>1. n \in 1 .. m + 1 /\ n \in 0 .. m /\ n - 1 \in 0 .. m
      BY <2>0
    <3>2. f[n] = G[f[n - 1]][q[n]]
      BY <2>3, <3>1
    <3> QED BY <2>1, <2>5, <3>1, <3>2
  <2>7. g[0] = b
    BY <2>0, <2>3, <2>5
  <2>8. g \in Runs(s, D, b, G)
    BY <2>5, <2>6, <2>7 DEF Runs
  <2> HIDE DEF m
  <2>9. FoldOf(s, D, b, G) = g[m]
    BY <2>8, RunIs DEF m
  <2>10. m + 1 \in 1 .. m + 1 /\ (m + 1) - 1 = m /\ m \in 0 .. m
    BY <2>0
  <2> QED BY <2>1, <2>3, <2>4, <2>5, <2>9, <2>10 DEF q
<1> QED BY <1>1, <1>2, <1>3

\* A function that is defined by its steps is such a run.
LEMMA StepsRun ==
    ASSUME NEW T, NEW D, NEW b \in D, NEW G \in Steps(D, T), NEW s \in Seq(T), NEW h,
           h = [k \in 0 .. Len(s) |-> h[k]], h[0] = b,
           \A n \in 1 .. Len(s) : h[n - 1] \in D => h[n] = G[h[n - 1]][s[n]]
    PROVE  h[Len(s)] = FoldOf(s, D, b, G)
<1> DEFINE m == Len(s)
           P == {k \in 0 .. m : h[k] \in D}
<1>0. m \in Nat /\ \A n \in 1 .. m : s[n] \in T
  BY LenProperties
<1>1. h = [k \in 0 .. m |-> h[k]]
      /\ \A n \in 1 .. m : h[n - 1] \in D => h[n] = G[h[n - 1]][s[n]]
  OBVIOUS
<1> HIDE DEF m
<1>2. 0 \in P
  BY <1>0
<1>3. ASSUME NEW k \in 0 .. m - 1, k \in P PROVE k + 1 \in P
  <2>1. k + 1 \in 1 .. m /\ k + 1 \in 0 .. m /\ (k + 1) - 1 = k
    BY <1>0
  <2>2. h[k] \in D
    BY <1>3
  <2>3. h[k + 1] = G[h[k]][s[k + 1]] /\ s[k + 1] \in T
    BY <1>0, <1>1, <2>1, <2>2
  <2>4. h[k + 1] \in D
    BY <2>2, <2>3 DEF Steps
  <2> QED BY <2>1, <2>4
<1> HIDE DEF P
<1>4. 0 .. m \subseteq P
  BY <1>0, <1>2, <1>3, UpTo
<1>5. \A k \in 0 .. m : h[k] \in D
  BY <1>4 DEF P
<1>6. \A n \in 1 .. m : n - 1 \in 0 .. m
  BY <1>0
<1>7. h \in [0 .. m -> D]
  BY <1>1, <1>5
<1>8. h \in Runs(s, D, b, G)
  BY <1>1, <1>5, <1>6, <1>7 DEF Runs, m
<1> QED BY <1>8, RunIs

-----------------------------------------------------------------------------
(* The lists of texts (src/src/remmina_string_list.c).                     *)
(* The variables: s1 two_columns, s2 stored, s3 rows, s4 open, s5          *)
(* selected, s6 left, s7 fresh, s8 divided.                                *)

\* The texts a user enters are made of tokens.
LEMMA ListBounds == Texts \subseteq Seq(StringList!Tokens) /\ MaxRows \in Nat
BY ComponentBounds DEF ComponentBounds

\* The tokens of a row, and those of a row that nobody has divided
ListPlain == StringList!Tokens \ {","}
ListBare == ListPlain \ {"sep"}

ListRowsOf(T) == [d : Seq(T), v : Seq(T)]
\* The pieces of a text between its signs
ListPieceSet(T, sign) == Seq(Seq(T \ {sign})) \ {<<>>}
ListStep(T, sign) == [p \in ListPieceSet(T, sign) |-> [t \in T |-> StringList!Extended(p,
   t, sign)]]
ListPieces(s, T, sign) == FoldOf(s, ListPieceSet(T, sign), <<<<>>>>, ListStep(T, sign))

\* A list of one.
LEMMA ListOneIs ==
    ASSUME NEW S, NEW a \in S
    PROVE  <<a>> \in Seq(S) /\ Len(<<a>>) = 1 /\ <<a>>[1] = a /\ <<a>> # <<>>
           /\ Append(<<>>, a) = <<a>>
OBVIOUS

\* One more token in the pieces of a text.
LEMMA ListExtendedIs ==
    ASSUME NEW T, NEW sign, NEW p \in ListPieceSet(T, sign), NEW t \in T
    PROVE  StringList!Extended(p, t, sign) \in ListPieceSet(T, sign)
<1> DEFINE A == T \ {sign}
           S == Seq(A)
<1>1. p \in Seq(S) /\ p # <<>> /\ <<>> \in S
  BY EmptySeq DEF ListPieceSet
<1>2. ASSUME NEW q \in Seq(S), q # <<>> PROVE q \in ListPieceSet(T, sign)
  BY <1>2 DEF ListPieceSet
<1>3. CASE t = sign
  <2>1. Append(p, <<>>) \in Seq(S) /\ Append(p, <<>>) # <<>>
    <3> HIDE DEF S
    <3> QED BY <1>1, AppendProperties
  <2> HIDE DEF S
  <2> QED BY <1>2, <1>3, <2>1 DEF StringList!Extended
<1>4. CASE t # sign
  <2> DEFINE n == Len(p)
             e == Append(p[n], t)
             q == [p EXCEPT ![n] = e]
  <2>1. n \in 1 .. Len(p) /\ p[n] \in S
    <3> HIDE DEF S
    <3>1. n \in Nat \ {0}
      BY <1>1, EmptySeq
    <3> QED BY <1>1, <3>1, LenProperties
  <2>2. e \in S
    <3>1. p[n] \in Seq(A) /\ t \in A
      BY <1>4, <2>1
    <3> HIDE DEF A
    <3> QED BY <3>1, AppendProperties
  <2>3. StringList!Extended(p, t, sign) = q
    BY <1>4 DEF StringList!Extended
  <2>01. n = Len(p)
    OBVIOUS
  <2> HIDE DEF e, S, n
  <2>4. q \in Seq(S) /\ Len(q) = n
    BY <1>1, <2>1, <2>2, <2>01, ExceptSeq
  <2> HIDE DEF q
  <2>5. q # <<>>
    BY <2>1, <2>4, <2>01, EmptySeq
  <2> QED BY <1>2, <2>3, <2>4, <2>5
<1> QED BY <1>3, <1>4

\* The pieces of a text, token by token.
LEMMA ListPiecesAre ==
    ASSUME NEW T, NEW sign
    PROVE  /\ ListPieces(<<>>, T, sign) = <<<<>>>>
           /\ \A s \in Seq(T) : ListPieces(s, T, sign) \in ListPieceSet(T, sign)
           /\ \A s \in Seq(T), t \in T :
                 ListPieces(Append(s, t), T, sign) = StringList!Extended(ListPieces(s, T,
                    sign), t, sign)
           /\ \A s \in Seq(T) : StringList!Split(s, sign) = IF s = <<>> THEN <<>>
              ELSE ListPieces(s, T, sign)
<1> DEFINE D == ListPieceSet(T, sign)
           b == <<<<>>>>
           G == ListStep(T, sign)
<1>1. b \in D
  <2>1. <<>> \in Seq(T \ {sign})
    BY EmptySeq
  <2> HIDE DEF b
  <2>2. b \in Seq(Seq(T \ {sign})) /\ b # <<>>
    BY <2>1, ListOneIs DEF b
  <2> QED BY <2>2 DEF ListPieceSet
<1>2. G \in Steps(D, T) /\ \A p \in D, t \in T : G[p][t] = StringList!Extended(p, t, sign)
  BY ListExtendedIs DEF Steps, ListStep
<1>01. \A s : ListPieces(s, T, sign) = FoldOf(s, D, b, G)
  BY DEF ListPieces
<1>02. b = <<<<>>>>
  OBVIOUS
<1> HIDE DEF D, G, b
<1>3. /\ FoldOf(<<>>, D, b, G) = b
      /\ \A s \in Seq(T) : FoldOf(s, D, b, G) \in D
      /\ \A s \in Seq(T), t \in T : FoldOf(Append(s, t), D, b, G) = G[FoldOf(s, D, b, G)][t]
  BY <1>1, <1>2, FoldSteps
<1>4. \A s \in Seq(T), t \in T :
         ListPieces(Append(s, t), T, sign) = StringList!Extended(ListPieces(s, T, sign), t,
            sign)
  BY <1>01, <1>2, <1>3
<1>5. ASSUME NEW s \in Seq(T)
      PROVE  StringList!Split(s, sign) = IF s = <<>> THEN <<>> ELSE ListPieces(s, T, sign)
  <2> DEFINE m == Len(s)
             Body(h) == [k \in 0 .. m |-> IF k = 0 THEN b
                ELSE StringList!Extended(h[k - 1], s[k], sign)]
             h == CHOOSE x : x = Body(x)
  <2>0. m \in Nat /\ \A n \in 1 .. m : s[n] \in T
    BY LenProperties
  <2>1. StringList!Split(s, sign) = IF s = <<>> THEN <<>> ELSE h[m]
    BY <1>02 DEF StringList!Split
  <2>2. PICK f : f \in Runs(s, D, b, G)
    BY <1>1, <1>2, RunThere
  <2>3. /\ f \in [0 .. m -> D] /\ f[0] = b
        /\ \A n \in 1 .. m : f[n] = G[f[n - 1]][s[n]]
    BY <2>2 DEF Runs
  <2>4. \A n \in 1 .. m : f[n] = StringList!Extended(f[n - 1], s[n], sign)
    <3>1. \A n \in 1 .. m : n - 1 \in 0 .. m
      BY <2>0
    <3> QED BY <1>2, <2>0, <2>3, <3>1
  <2> HIDE DEF m
  <2>5. f = Body(f)
    <3>1. \A n \in 0 .. m : n = 0 \/ n \in 1 .. m
      BY <2>0
    <3>2. \A n \in 0 .. m : f[n] = IF n = 0 THEN b
          ELSE StringList!Extended(f[n - 1], s[n], sign)
      BY <2>3, <2>4, <3>1
    <3>3. f = [n \in 0 .. m |-> f[n]]
      BY <2>3
    <3> QED BY <3>2, <3>3
  <2>6. h = Body(h)
    BY <2>5
  <2> HIDE DEF h
  <2>7. h = [k \in 0 .. m |-> h[k]] /\ h[0] = b
    BY <2>0, <2>6
  <2>8. \A n \in 1 .. m : h[n] = StringList!Extended(h[n - 1], s[n], sign)
    <3>1. \A n \in 1 .. m : n \in 0 .. m /\ n # 0
      BY <2>0
    <3>2. \A n \in 0 .. m : h[n] = IF n = 0 THEN b
          ELSE StringList!Extended(h[n - 1], s[n], sign)
      BY <2>6
    <3> QED BY <3>1, <3>2
  <2>9. \A n \in 1 .. m : h[n - 1] \in D => h[n] = G[h[n - 1]][s[n]]
    BY <1>2, <2>0, <2>8
  <2> HIDE DEF Body
  <2>10. h[m] = FoldOf(s, D, b, G)
    BY <1>1, <1>2, <2>7, <2>9, StepsRun, SMTT(30) DEF m
  <2> QED BY <1>01, <2>1, <2>10
<1> QED BY <1>01, <1>02, <1>3, <1>4, <1>5 DEF D

\* A token at the end of two texts is one at the end of the second.
LEMMA ListAppendLater ==
    ASSUME NEW S, NEW x \in Seq(S), NEW a \in Seq(S), NEW t \in S
    PROVE  x \o Append(a, t) = Append(x \o a, t)
<1> DEFINE e == <<t>>
<1>1. e \in Seq(S)
  BY ListOneIs
<1>2. Append(a, t) = a \o e /\ x \o a \in Seq(S)
  BY AppendIsConcat, ConcatProperties
<1>3. Append(x \o a, t) = (x \o a) \o e
  BY <1>2, AppendIsConcat
<1> HIDE DEF e
<1>4. (x \o a) \o e = x \o (a \o e)
  BY <1>1, ConcatAssociative
<1> QED BY <1>2, <1>3, <1>4

\* A token that does not divide is put to the last piece.
ListTextLists(T) == Seq(Seq(T))

ListGrows(q, a, t, sign) == StringList!Extended(Append(q, a), t, sign) = Append(q, Append(a, t))

\* A token that is no sign goes to the last of the pieces.
LEMMA ListLastGrows ==
    ASSUME NEW T, NEW sign, NEW q \in ListTextLists(T), NEW a \in Seq(T), NEW t \in T, t # sign
    PROVE  ListGrows(q, a, t, sign)
<1> DEFINE S == Seq(T)
           n == Len(q) + 1
           p == Append(q, a)
           b == Append(a, t)
           r == [p EXCEPT ![n] = b]
           w == Append(q, b)
<1>0. q \in Seq(S) /\ Len(q) \in Nat
  BY LenProperties DEF ListTextLists
<1>1. b \in S
  BY AppendProperties
<1>01. p = Append(q, a) /\ w = Append(q, b) /\ b = Append(a, t) /\ n = Len(q) + 1
       /\ r = [p EXCEPT ![n] = b]
  OBVIOUS
<1> HIDE DEF b, S
<1>2. /\ p \in Seq(S) /\ Len(p) = n /\ p[n] = a
      /\ \A i \in 1 .. Len(q) : p[i] = q[i]
  <2> HIDE DEF p
  <2> QED BY <1>0, <1>01, AppendProperties DEF S
<1>3. /\ w \in Seq(S) /\ Len(w) = n /\ w[n] = b
      /\ \A i \in 1 .. Len(q) : w[i] = q[i]
  <2> HIDE DEF w
  <2> QED BY <1>0, <1>01, <1>1, AppendProperties DEF S
<1>4. StringList!Extended(p, t, sign) = r
  BY <1>01, <1>2 DEF StringList!Extended
<1> HIDE DEF p, w, n
<1>5. n \in 1 .. Len(p)
  BY <1>0, <1>01, <1>2
<1>6. r \in Seq(S) /\ Len(r) = Len(p) /\ \A j \in 1 .. Len(p) : r[j] = IF j = n THEN b ELSE p[j]
  BY <1>1, <1>2, <1>5, ExceptSeq
<1> HIDE DEF r
<1>7. ASSUME NEW i \in 1 .. Len(r) PROVE r[i] = w[i]
  <2>1. i = n \/ i \in 1 .. Len(q)
    BY <1>0, <1>01, <1>2, <1>6
  <2> QED BY <1>2, <1>3, <1>6, <2>1
<1>8. r = w
  BY <1>2, <1>3, <1>6, <1>7, SeqEqual
<1> QED BY <1>01, <1>4, <1>8 DEF ListGrows

\* A text without signs is one piece.
LEMMA ListOnePiece ==
    ASSUME NEW T, NEW sign, NEW a \in Seq(T \ {sign})
    PROVE  a \in Seq(T) /\ ListPieces(a, T, sign) = <<a>>
<1> DEFINE A == T \ {sign}
           P == {x \in Seq(A) : x \in Seq(T) /\ ListPieces(x, T, sign) = <<x>>}
<1>1. <<>> \in P
  <2>1. <<>> \in Seq(A) /\ <<>> \in Seq(T)
    BY EmptySeq
  <2> QED BY <2>1, ListPiecesAre
<1>2. ASSUME NEW x \in Seq(A), x \in P, NEW t \in A PROVE Append(x, t) \in P
  <2>1. x \in Seq(T) /\ t \in T /\ t # sign /\ ListPieces(x, T, sign) = <<x>>
    BY <1>2
  <2>2. Append(x, t) \in Seq(A) /\ Append(x, t) \in Seq(T)
    <3> HIDE DEF A
    <3> QED BY <1>2, <2>1, AppendProperties
  <2>3. ListPieces(Append(x, t), T, sign) = StringList!Extended(<<x>>, t, sign)
    BY <2>1, ListPiecesAre
  <2>4. <<>> \in ListTextLists(T)
    BY EmptySeq DEF ListTextLists
  <2>5. StringList!Extended(Append(<<>>, x), t, sign) = Append(<<>>, Append(x, t))
    <3> DEFINE e == <<>>
    <3>1. e \in ListTextLists(T)
      BY <2>4
    <3> HIDE DEF e
    <3>2. ListGrows(e, x, t, sign)
      BY <2>1, <3>1, ListLastGrows
    <3> QED BY <3>2 DEF e, ListGrows
  <2>6. Append(<<>>, x) = <<x>> /\ Append(<<>>, Append(x, t)) = <<Append(x, t)>>
    BY ListOneIs
  <2>7. ListPieces(Append(x, t), T, sign) = <<Append(x, t)>>
    BY <2>3, <2>5, <2>6
  <2> QED BY <2>2, <2>7
<1> HIDE DEF P
<1>3. Seq(A) \subseteq P
  BY <1>1, <1>2, SeqInduct
<1>4. a \in P
  BY <1>3
<1> QED BY <1>4 DEF P

\* A sign and a text without signs are one piece more.
LEMMA ListPieceMore ==
    ASSUME NEW T, NEW sign \in T, NEW y \in Seq(T), NEW a \in Seq(T \ {sign})
    PROVE  ListPieces(Append(y, sign) \o a, T, sign) = Append(ListPieces(y, T, sign), a)
<1> DEFINE A == T \ {sign}
           q == ListPieces(y, T, sign)
           z == Append(y, sign)
           P == {x \in Seq(A) : x \in Seq(T) /\ ListPieces(z \o x, T, sign) = Append(q, x)}
<1>0. q \in ListPieceSet(T, sign) /\ z \in Seq(T)
  BY ListPiecesAre, AppendProperties
<1>01. q \in Seq(Seq(A)) /\ q \in ListTextLists(T)
  <2>1. q \in Seq(Seq(A))
    BY <1>0 DEF ListPieceSet
  <2>2. \A x \in Seq(A) : x \in Seq(T)
    OBVIOUS
  <2>3. q \in ListTextLists(T)
    <3> DEFINE S == Seq(A)
               R == Seq(T)
    <3>1. q \in Seq(S) /\ \A x \in S : x \in R
      BY <2>1, <2>2
    <3> HIDE DEF S, R, q
    <3>2. q \in Seq(R)
      BY <3>1
    <3> QED BY <3>2 DEF R, ListTextLists
  <2> QED BY <2>1, <2>3
<1>02. ListPieces(z, T, sign) = Append(q, <<>>)
  <2>1. ListPieces(z, T, sign) = StringList!Extended(q, sign, sign)
    BY ListPiecesAre
  <2> QED BY <2>1 DEF StringList!Extended
<1> HIDE DEF q, z
<1>1. <<>> \in P
  <2>1. <<>> \in Seq(A) /\ <<>> \in Seq(T)
    BY EmptySeq
  <2>2. z \o <<>> = z
    BY <1>0, ConcatEmptySeq
  <2> QED BY <1>02, <2>1, <2>2
<1>2. ASSUME NEW x \in Seq(A), x \in P, NEW t \in A PROVE Append(x, t) \in P
  <2>1. x \in Seq(T) /\ t \in T /\ t # sign /\ ListPieces(z \o x, T, sign) = Append(q, x)
    BY <1>2
  <2>2. Append(x, t) \in Seq(A) /\ Append(x, t) \in Seq(T)
    <3> HIDE DEF A
    <3> QED BY <1>2, <2>1, AppendProperties
  <2>3. z \o x \in Seq(T) /\ z \o Append(x, t) = Append(z \o x, t)
    BY <1>0, <2>1, ConcatProperties, ListAppendLater
  <2>4. ListPieces(Append(z \o x, t), T, sign) = StringList!Extended(Append(q, x), t, sign)
    <3> DEFINE u == z \o x
    <3>1. u \in Seq(T) /\ ListPieces(u, T, sign) = Append(q, x)
      BY <2>1, <2>3
    <3> HIDE DEF u
    <3>2. ListPieces(Append(u, t), T, sign) = StringList!Extended(ListPieces(u, T, sign),
          t, sign)
      BY <2>1, <3>1, ListPiecesAre
    <3> QED BY <3>1, <3>2 DEF u
  <2>5. StringList!Extended(Append(q, x), t, sign) = Append(q, Append(x, t))
    <3>1. ListGrows(q, x, t, sign)
      BY <1>01, <2>1, ListLastGrows
    <3> QED BY <3>1 DEF ListGrows
  <2> QED BY <2>2, <2>3, <2>4, <2>5
<1> HIDE DEF P
<1>3. Seq(A) \subseteq P
  BY <1>1, <1>2, SeqInduct
<1>4. a \in P
  BY <1>3
<1> QED BY <1>4 DEF P, q, z

\* The text of a row.
LEMMA ListItemIs ==
    ASSUME NEW r \in ListRowsOf(ListPlain)
    PROVE  StringList!Item(r) \in Seq(ListPlain) /\ (r.v # <<>> => StringList!Item(r) # <<>>)
<1> DEFINE e == <<"sep">>
           d == r.d
           v == r.v
           p == IF s1 THEN d \o e ELSE <<>>
<1>1. d \in Seq(ListPlain) /\ v \in Seq(ListPlain) /\ <<>> \in Seq(ListPlain)
  BY EmptySeq DEF ListRowsOf
<1>2. e \in Seq(ListPlain)
  <2>1. "sep" \in ListPlain
    BY DEF ListPlain, StringList!Tokens
  <2> QED BY <2>1, ListOneIs
<1>01. StringList!Item(r) = p \o v /\ v = r.v
  BY DEF StringList!Item
<1> HIDE DEF d, e, v
<1>3. p \in Seq(ListPlain)
  <2>1. d \o e \in Seq(ListPlain)
    BY <1>1, <1>2, ConcatProperties
  <2> QED BY <1>1, <2>1
<1> HIDE DEF p
<1>4. p \o v \in Seq(ListPlain) /\ Len(p \o v) = Len(p) + Len(v)
  BY <1>1, <1>3, Joined
<1>5. v # <<>> => p \o v # <<>>
  BY <1>1, <1>3, ConcatEqualIffEmpty
<1> QED BY <1>01, <1>4, <1>5

\* The tokens without a comma.
LEMMA ListPlainIs == StringList!Tokens \ {","} = ListPlain
   /\ ListPlain \subseteq StringList!Tokens /\ "," \in StringList!Tokens
BY DEF ListPlain, StringList!Tokens

\* A list of some elements is one of more.
LEMMA ListSeqLarger ==
    ASSUME NEW S, NEW T, S \subseteq T, NEW s \in Seq(S)
    PROVE  s \in Seq(T)
OBVIOUS

\* A text with the text of one more row.
LEMMA ListAddedIs ==
    ASSUME NEW text \in Seq(StringList!Tokens), NEW r \in ListRowsOf(ListPlain)
    PROVE  StringList!Added(text, r) \in Seq(StringList!Tokens)
<1> DEFINE c == IF text = <<>> THEN <<>> ELSE <<",">>
           i == StringList!Item(r)
<1>1. c \in Seq(StringList!Tokens)
  <2>1. <<",">> \in Seq(StringList!Tokens) /\ <<>> \in Seq(StringList!Tokens)
    BY ListPlainIs, ListOneIs, EmptySeq
  <2> QED BY <2>1
<1>2. i \in Seq(StringList!Tokens)
  <2>1. i \in Seq(ListPlain)
    BY ListItemIs
  <2> QED BY <2>1, ListPlainIs, ListSeqLarger
<1>3. StringList!Added(text, r) = IF r.v = <<>> THEN text ELSE text \o c \o i
  BY DEF StringList!Added
<1> HIDE DEF c, i
<1>4. text \o c \in Seq(StringList!Tokens)
  BY <1>1, ConcatProperties
<1>5. (text \o c) \o i \in Seq(StringList!Tokens)
  BY <1>2, <1>4, ConcatProperties
<1> QED BY <1>3, <1>5

\* The text of a list, row by row.
LEMMA ListTextIs ==
    ASSUME NEW T, T = ListRowsOf(ListPlain)
    PROVE  /\ StringList!get_text(<<>>) = <<>>
           /\ \A s \in Seq(T) : StringList!get_text(s) \in Seq(StringList!Tokens)
           /\ \A s \in Seq(T), t \in T : StringList!get_text(Append(s,
              t)) = StringList!Added(StringList!get_text(s), t)
<1> DEFINE D == Seq(StringList!Tokens)
           b == <<>>
           G == [p \in D |-> [t \in T |-> StringList!Added(p, t)]]
<1>1. b \in D
  BY EmptySeq
<1>2. G \in Steps(D, T) /\ \A p \in D, t \in T : G[p][t] = StringList!Added(p, t)
  <2>1. \A p \in D, t \in T : StringList!Added(p, t) \in D
    BY ListAddedIs
  <2> HIDE DEF D
  <2> QED BY <2>1 DEF Steps
<1>01. b = <<>> /\ \A x : x \in D <=> x \in Seq(StringList!Tokens)
  OBVIOUS
<1> HIDE DEF D, G, b
<1>3. /\ FoldOf(<<>>, D, b, G) = b
      /\ \A s \in Seq(T) : FoldOf(s, D, b, G) \in D
      /\ \A s \in Seq(T), t \in T : FoldOf(Append(s, t), D, b, G) = G[FoldOf(s, D, b, G)][t]
  BY <1>1, <1>2, FoldSteps
<1>5. ASSUME NEW s \in Seq(T) PROVE StringList!get_text(s) = FoldOf(s, D, b, G)
  <2> DEFINE m == Len(s)
             Body(h) == [k \in 0 .. m |-> IF k = 0 THEN b ELSE StringList!Added(h[k - 1], s[k])]
             h == CHOOSE x : x = Body(x)
  <2>0. m \in Nat /\ \A n \in 1 .. m : s[n] \in T
    BY LenProperties
  <2>1. StringList!get_text(s) = h[m]
    BY <1>01 DEF StringList!get_text
  <2>2. PICK f : f \in Runs(s, D, b, G)
    BY <1>1, <1>2, RunThere
  <2>3. /\ f \in [0 .. m -> D] /\ f[0] = b
        /\ \A n \in 1 .. m : f[n] = G[f[n - 1]][s[n]]
    BY <2>2 DEF Runs
  <2>4. \A n \in 1 .. m : f[n] = StringList!Added(f[n - 1], s[n])
    <3>1. \A n \in 1 .. m : n - 1 \in 0 .. m
      BY <2>0
    <3> QED BY <1>2, <2>0, <2>3, <3>1
  <2> HIDE DEF m
  <2>5. f = Body(f)
    <3>1. \A n \in 0 .. m : n = 0 \/ n \in 1 .. m
      BY <2>0
    <3>2. \A n \in 0 .. m : f[n] = IF n = 0 THEN b ELSE StringList!Added(f[n - 1], s[n])
      BY <2>3, <2>4, <3>1
    <3>3. f = [n \in 0 .. m |-> f[n]]
      BY <2>3
    <3> QED BY <3>2, <3>3
  <2>6. h = Body(h)
    BY <2>5
  <2> HIDE DEF h
  <2>7. h = [k \in 0 .. m |-> h[k]] /\ h[0] = b
    BY <2>0, <2>6
  <2>8. \A n \in 1 .. m : h[n] = StringList!Added(h[n - 1], s[n])
    <3>1. \A n \in 1 .. m : n \in 0 .. m /\ n # 0
      BY <2>0
    <3>2. \A n \in 0 .. m : h[n] = IF n = 0 THEN b ELSE StringList!Added(h[n - 1], s[n])
      BY <2>6
    <3> QED BY <3>1, <3>2
  <2>9. \A n \in 1 .. m : h[n - 1] \in D => h[n] = G[h[n - 1]][s[n]]
    BY <1>2, <2>0, <2>8
  <2> HIDE DEF Body
  <2>10. h[m] = FoldOf(s, D, b, G)
    BY <1>1, <1>2, <2>7, <2>9, StepsRun, SMTT(30) DEF m
  <2> QED BY <2>1, <2>10
<1>6. StringList!get_text(<<>>) = <<>>
  <2> DEFINE e == <<>>
  <2>1. e \in Seq(T)
    BY EmptySeq
  <2>01. e = <<>>
    OBVIOUS
  <2> HIDE DEF e
  <2> QED BY <1>01, <1>3, <1>5, <2>1, <2>01
<1>7. \A s \in Seq(T) : StringList!get_text(s) \in D
  BY <1>3, <1>5
<1>8. ASSUME NEW s \in Seq(T), NEW t \in T PROVE StringList!get_text(Append(s,
             t)) = StringList!Added(StringList!get_text(s), t)
  <2>1. Append(s, t) \in Seq(T)
    BY AppendProperties
  <2> QED BY <1>2, <1>3, <1>5, <2>1, ZenonT(30)
<1> QED BY <1>01, <1>6, <1>7, <1>8

\* Rows with a value
ListPosRows(T) == {r \in T : r.v # <<>>}

\* A row is kept when it has a value.
LEMMA ListKeptIs ==
    ASSUME NEW T, NEW found \in Seq(ListPosRows(T)), NEW r \in T
    PROVE  StringList!Kept(found, r) \in Seq(ListPosRows(T))
<1>1. CASE r.v = <<>>
  BY <1>1 DEF StringList!Kept
<1>2. CASE r.v # <<>>
  <2>1. r \in ListPosRows(T)
    BY <1>2 DEF ListPosRows
  <2>2. Append(found, r) \in Seq(ListPosRows(T))
    BY <2>1, AppendProperties
  <2> QED BY <1>2, <2>2 DEF StringList!Kept
<1> QED BY <1>1, <1>2

\* The rows that have a value, row by row.
LEMMA ListValuesAre ==
    ASSUME NEW T
    PROVE  /\ StringList!WithValue(<<>>) = <<>>
           /\ \A s \in Seq(T) : StringList!WithValue(s) \in Seq(ListPosRows(T))
           /\ \A s \in Seq(T), t \in T : StringList!WithValue(Append(s,
              t)) = StringList!Kept(StringList!WithValue(s), t)
<1> DEFINE D == Seq(ListPosRows(T))
           b == <<>>
           G == [p \in D |-> [t \in T |-> StringList!Kept(p, t)]]
<1>1. b \in D
  BY EmptySeq
<1>2. G \in Steps(D, T) /\ \A p \in D, t \in T : G[p][t] = StringList!Kept(p, t)
  <2>1. \A p \in D, t \in T : StringList!Kept(p, t) \in D
    BY ListKeptIs
  <2> HIDE DEF D
  <2> QED BY <2>1 DEF Steps
<1>01. b = <<>> /\ \A x : x \in D <=> x \in Seq(ListPosRows(T))
  OBVIOUS
<1> HIDE DEF D, G, b
<1>3. /\ FoldOf(<<>>, D, b, G) = b
      /\ \A s \in Seq(T) : FoldOf(s, D, b, G) \in D
      /\ \A s \in Seq(T), t \in T : FoldOf(Append(s, t), D, b, G) = G[FoldOf(s, D, b, G)][t]
  BY <1>1, <1>2, FoldSteps
<1>5. ASSUME NEW s \in Seq(T) PROVE StringList!WithValue(s) = FoldOf(s, D, b, G)
  <2> DEFINE m == Len(s)
             Body(h) == [k \in 0 .. m |-> IF k = 0 THEN b ELSE StringList!Kept(h[k - 1], s[k])]
             h == CHOOSE x : x = Body(x)
  <2>0. m \in Nat /\ \A n \in 1 .. m : s[n] \in T
    BY LenProperties
  <2>1. StringList!WithValue(s) = h[m]
    BY <1>01 DEF StringList!WithValue
  <2>2. PICK f : f \in Runs(s, D, b, G)
    BY <1>1, <1>2, RunThere
  <2>3. /\ f \in [0 .. m -> D] /\ f[0] = b
        /\ \A n \in 1 .. m : f[n] = G[f[n - 1]][s[n]]
    BY <2>2 DEF Runs
  <2>4. \A n \in 1 .. m : f[n] = StringList!Kept(f[n - 1], s[n])
    <3>1. \A n \in 1 .. m : n - 1 \in 0 .. m
      BY <2>0
    <3> QED BY <1>2, <2>0, <2>3, <3>1
  <2> HIDE DEF m
  <2>5. f = Body(f)
    <3>1. \A n \in 0 .. m : n = 0 \/ n \in 1 .. m
      BY <2>0
    <3>2. \A n \in 0 .. m : f[n] = IF n = 0 THEN b ELSE StringList!Kept(f[n - 1], s[n])
      BY <2>3, <2>4, <3>1
    <3>3. f = [n \in 0 .. m |-> f[n]]
      BY <2>3
    <3> QED BY <3>2, <3>3
  <2>6. h = Body(h)
    BY <2>5
  <2> HIDE DEF h
  <2>7. h = [k \in 0 .. m |-> h[k]] /\ h[0] = b
    BY <2>0, <2>6
  <2>8. \A n \in 1 .. m : h[n] = StringList!Kept(h[n - 1], s[n])
    <3>1. \A n \in 1 .. m : n \in 0 .. m /\ n # 0
      BY <2>0
    <3>2. \A n \in 0 .. m : h[n] = IF n = 0 THEN b ELSE StringList!Kept(h[n - 1], s[n])
      BY <2>6
    <3> QED BY <3>1, <3>2
  <2>9. \A n \in 1 .. m : h[n - 1] \in D => h[n] = G[h[n - 1]][s[n]]
    BY <1>2, <2>0, <2>8
  <2> HIDE DEF Body
  <2>10. h[m] = FoldOf(s, D, b, G)
    BY <1>1, <1>2, <2>7, <2>9, StepsRun, SMTT(30) DEF m
  <2> QED BY <2>1, <2>10
<1>6. StringList!WithValue(<<>>) = <<>>
  <2> DEFINE e == <<>>
  <2>1. e \in Seq(T)
    BY EmptySeq
  <2>01. e = <<>>
    OBVIOUS
  <2> HIDE DEF e
  <2> QED BY <1>01, <1>3, <1>5, <2>1, <2>01
<1>7. \A s \in Seq(T) : StringList!WithValue(s) \in D
  BY <1>3, <1>5
<1>8. ASSUME NEW s \in Seq(T), NEW t \in T PROVE StringList!WithValue(Append(s,
             t)) = StringList!Kept(StringList!WithValue(s), t)
  <2>1. Append(s, t) \in Seq(T)
    BY AppendProperties
  <2> QED BY <1>2, <1>3, <1>5, <2>1
<1> QED BY <1>01, <1>6, <1>7, <1>8

\* The rows with a value are as many or fewer, and make the same text.
LEMMA ListValuesFewer ==
    ASSUME NEW T, NEW s \in Seq(T)
    PROVE  Len(StringList!WithValue(s)) <= Len(s)
<1> DEFINE P == {x \in Seq(T) : Len(StringList!WithValue(x)) <= Len(x)}
<1>1. <<>> \in P
  <2>1. <<>> \in Seq(T) /\ StringList!WithValue(<<>>) = <<>>
    BY EmptySeq, ListValuesAre
  <2> QED BY <2>1
<1>2. ASSUME NEW x \in Seq(T), x \in P, NEW t \in T PROVE Append(x, t) \in P
  <2>1. StringList!WithValue(x) \in Seq(ListPosRows(T))
        /\ StringList!WithValue(Append(x, t)) = StringList!Kept(StringList!WithValue(x), t)
    BY ListValuesAre
  <2>2. Append(x, t) \in Seq(T) /\ Len(Append(x, t)) = Len(x) + 1 /\ Len(x) \in Nat
    BY AppendProperties, LenProperties
  <2>3. Len(StringList!WithValue(x)) <= Len(x)
    BY <1>2
  <2> DEFINE w == StringList!WithValue(x)
  <2> HIDE DEF w
  <2>4. Len(StringList!Kept(w, t)) <= Len(w) + 1 /\ Len(w) \in Nat
    <3>1. w \in Seq(ListPosRows(T))
      BY <2>1 DEF w
    <3>2. Len(w) \in Nat
      BY <3>1, LenProperties
    <3>3. CASE t.v = <<>>
      BY <3>2, <3>3 DEF StringList!Kept
    <3>4. CASE t.v # <<>>
      <4>1. t \in ListPosRows(T)
        BY <3>4 DEF ListPosRows
      <4>2. Len(Append(w, t)) = Len(w) + 1
        BY <3>1, <4>1, AppendProperties
      <4> QED BY <3>2, <3>4, <4>2 DEF StringList!Kept
    <3> QED BY <3>2, <3>3, <3>4
  <2>5. Len(StringList!WithValue(Append(x, t))) <= Len(Append(x, t))
    BY <2>1, <2>2, <2>3, <2>4 DEF w
  <2> QED BY <2>2, <2>5
<1> HIDE DEF P
<1>3. Seq(T) \subseteq P
  BY <1>1, <1>2, SeqInduct
<1>4. s \in P
  BY <1>3
<1> QED BY <1>4 DEF P

\* The rows without a value leave nothing in the text.
LEMMA ListValuesSay ==
    ASSUME NEW s \in Seq(ListRowsOf(ListPlain))
    PROVE  StringList!get_text(StringList!WithValue(s)) = StringList!get_text(s)
<1> DEFINE T == ListRowsOf(ListPlain)
           P == {x \in Seq(T) : StringList!get_text(StringList!WithValue(x))
              = StringList!get_text(x)}
<1>1. <<>> \in P
  <2>1. <<>> \in Seq(T) /\ StringList!WithValue(<<>>) = <<>>
    BY EmptySeq, ListValuesAre
  <2> QED BY <2>1
<1>2. ASSUME NEW x \in Seq(T), x \in P, NEW t \in T PROVE Append(x, t) \in P
  <2>1. StringList!WithValue(x) \in Seq(ListPosRows(T))
        /\ StringList!WithValue(Append(x, t)) = StringList!Kept(StringList!WithValue(x), t)
    <3> HIDE DEF T
    <3> QED BY ListValuesAre
  <2>2. Append(x, t) \in Seq(T)
        /\ StringList!get_text(Append(x, t)) = StringList!Added(StringList!get_text(x), t)
    BY AppendProperties, ListTextIs
  <2>3. StringList!get_text(StringList!WithValue(x)) = StringList!get_text(x)
    BY <1>2
  <2>4. StringList!WithValue(x) \in Seq(T)
    <3>1. ListPosRows(T) \subseteq T
      BY DEF ListPosRows
    <3> HIDE DEF T
    <3> QED BY <2>1, <3>1, ListSeqLarger
  <2>5. StringList!get_text(StringList!Kept(StringList!WithValue(x),
        t)) = StringList!Added(StringList!get_text(x), t)
    <3>1. CASE t.v = <<>>
      BY <2>3, <3>1 DEF StringList!Kept, StringList!Added
    <3>2. CASE t.v # <<>>
      <4> DEFINE w == StringList!WithValue(x)
      <4>1. w \in Seq(T) /\ StringList!get_text(w) = StringList!get_text(x)
        BY <2>3, <2>4
      <4>2. StringList!Kept(w, t) = Append(w, t)
        BY <3>2 DEF StringList!Kept
      <4> HIDE DEF w
      <4>3. StringList!get_text(Append(w, t)) = StringList!Added(StringList!get_text(w), t)
        BY <4>1, ListTextIs
      <4> QED BY <4>1, <4>2, <4>3 DEF w
    <3> QED BY <3>1, <3>2
  <2> QED BY <2>1, <2>2, <2>5
<1> HIDE DEF P
<1>3. Seq(T) \subseteq P
  BY <1>1, <1>2, SeqInduct
<1>4. s \in P
  BY <1>3
<1> QED BY <1>4 DEF P

ListItems(rs) == [i \in 1 .. Len(rs) |-> StringList!Item(rs[i])]

\* The items of a list with one more row.
LEMMA ListItemsMore ==
    ASSUME NEW rs \in Seq(ListRowsOf(ListPlain)), NEW r \in ListRowsOf(ListPlain)
    PROVE  ListItems(Append(rs, r)) = Append(ListItems(rs), StringList!Item(r))
<1> DEFINE a == Append(rs, r)
           q == ListItems(rs)
           w == Append(q, StringList!Item(r))
           n == Len(rs)
           S == Seq(ListPlain)
<1>0. n \in Nat /\ \A i \in 1 .. n : rs[i] \in ListRowsOf(ListPlain)
  BY LenProperties
<1>1. /\ a \in Seq(ListRowsOf(ListPlain)) /\ Len(a) = n + 1 /\ a[n + 1] = r
      /\ \A i \in 1 .. n : a[i] = rs[i]
  BY AppendProperties
<1>2. q \in Seq(S) /\ Len(q) = n /\ \A i \in 1 .. n : q[i] = StringList!Item(rs[i])
  <2>1. \A i \in 1 .. n : StringList!Item(rs[i]) \in S
    BY <1>0, ListItemIs
  <2> HIDE DEF S
  <2> QED BY <1>0, <2>1 DEF ListItems
<1>3. StringList!Item(r) \in S
  BY ListItemIs
<1> HIDE DEF a, q, S
<1>4. w \in Seq(S) /\ Len(w) = n + 1 /\ w[n + 1] = StringList!Item(r)
      /\ \A i \in 1 .. n : w[i] = q[i]
  BY <1>2, <1>3, AppendProperties
<1> HIDE DEF w, n
<1>5. ListItems(a) = [i \in 1 .. n + 1 |-> StringList!Item(a[i])]
  BY <1>1 DEF ListItems
<1>6. ASSUME NEW i \in 1 .. n + 1 PROVE StringList!Item(a[i]) = w[i]
  <2>1. i = n + 1 \/ i \in 1 .. n
    BY <1>0
  <2> QED BY <1>1, <1>2, <1>4, <2>1
<1>7. w = [i \in 1 .. n + 1 |-> w[i]]
  BY <1>0, <1>4
<1> QED BY <1>5, <1>6, <1>7 DEF a, q, w

\* The pieces of the text are the rows with a value.
LEMMA ListTextPieces ==
    ASSUME NEW rs \in Seq(ListPosRows(ListRowsOf(ListPlain)))
    PROVE  /\ StringList!get_text(rs) \in Seq(StringList!Tokens)
           /\ rs = <<>> => StringList!get_text(rs) = <<>>
           /\ rs # <<>> => /\ StringList!get_text(rs) # <<>>
                           /\ ListPieces(StringList!get_text(rs), StringList!Tokens,
                              ",") = ListItems(rs)
<1> DEFINE R == ListRowsOf(ListPlain)
           T == ListPosRows(R)
           Says(x) == ListPieces(StringList!get_text(x), StringList!Tokens, ",") = ListItems(x)
           P == {x \in Seq(T) : x # <<>> => StringList!get_text(x) # <<>> /\ Says(x)}
<1>0. T \subseteq R /\ \A t \in T : t.v # <<>>
  BY DEF ListPosRows
<1>01. \A x \in Seq(T) : x \in Seq(R)
  <2> HIDE DEF T, R
  <2> QED BY <1>0, ListSeqLarger
<1>02. \A x \in Seq(T) : StringList!get_text(x) \in Seq(StringList!Tokens)
  BY <1>01, ListTextIs
<1>03. StringList!get_text(<<>>) = <<>>
  BY ListTextIs
<1>1. <<>> \in P
  BY EmptySeq
<1>2. ASSUME NEW x \in Seq(T), x \in P, NEW t \in T PROVE Append(x, t) \in P
  <2> DEFINE y == StringList!get_text(x)
             i == StringList!Item(t)
             c == <<",">>
  <2>1. x \in Seq(R) /\ y \in Seq(StringList!Tokens) /\ t \in R /\ t.v # <<>>
    BY <1>0, <1>01, <1>02
  <2>2. StringList!get_text(Append(x, t)) = y \o (IF y = <<>> THEN <<>> ELSE c) \o i
    <3>1. StringList!get_text(Append(x, t)) = StringList!Added(y, t)
      BY <2>1, ListTextIs
    <3> QED BY <2>1, <3>1 DEF StringList!Added
  <2>3. i \in Seq(StringList!Tokens \ {","}) /\ i \in Seq(StringList!Tokens) /\ i # <<>>
    <3>1. i \in Seq(ListPlain) /\ i # <<>>
      BY <2>1, ListItemIs
    <3>2. i \in Seq(StringList!Tokens)
      BY <3>1, ListPlainIs, ListSeqLarger
    <3> QED BY <3>1, <3>2, ListPlainIs
  <2>4. Append(x, t) \in Seq(T)
    <3> HIDE DEF T
    <3> QED BY AppendProperties
  <2>5. ListItems(Append(x, t)) = Append(ListItems(x), i)
    BY <2>1, ListItemsMore
  <2>6. c \in Seq(StringList!Tokens)
    BY ListPlainIs, ListOneIs
  <2>7. CASE x = <<>>
    <3>1. y = <<>>
      BY <1>03, <2>7
    <3>2. y \o <<>> \o i = i
      <4>1. <<>> \o <<>> = <<>>
        BY EmptySeq, ConcatEmptySeq
      <4> HIDE DEF i
      <4>2. <<>> \o i = i
        BY <2>3, ConcatEmptySeq
      <4> QED BY <3>1, <4>1, <4>2
    <3>3. StringList!get_text(Append(x, t)) = i
      BY <2>2, <3>1, <3>2
    <3>4. ListPieces(i, StringList!Tokens, ",") = <<i>>
      BY <2>3, ListOnePiece
    <3>5. ListItems(x) = <<>>
      BY <2>7 DEF ListItems
    <3>6. Append(<<>>, i) = <<i>>
      BY ListOneIs
    <3>7. ListItems(Append(x, t)) = <<i>>
      BY <2>5, <3>5, <3>6
    <3> HIDE DEF i
    <3>8. StringList!get_text(Append(x, t)) # <<>> /\ Says(Append(x, t))
      BY <2>3, <3>3, <3>4, <3>7
    <3> HIDE DEF Says
    <3> QED BY <2>4, <3>8
  <2>8. CASE x # <<>>
    <3>1. y # <<>> /\ ListPieces(y, StringList!Tokens, ",") = ListItems(x)
      BY <1>2, <2>8
    <3>2. StringList!get_text(Append(x, t)) = (y \o c) \o i
      BY <2>2, <3>1
    <3>3. y \o c = Append(y, ",")
      BY <2>1, ListPlainIs, AppendIsConcat
    <3>4. ListPieces(Append(y, ",") \o i, StringList!Tokens, ",") = Append(ListPieces(y,
          StringList!Tokens, ","), i)
      BY <2>1, <2>3, ListPlainIs, ListPieceMore
    <3> HIDE DEF y, i, c
    <3>5. y \o c \in Seq(StringList!Tokens)
      BY <2>1, <2>6, ConcatProperties
    <3>6. (y \o c) \o i # <<>>
      <4> DEFINE z == y \o c
      <4>1. z \in Seq(StringList!Tokens) /\ i \in Seq(StringList!Tokens) /\ i # <<>>
        BY <2>3, <3>5
      <4> HIDE DEF z
      <4>2. z \o i # <<>>
        BY <4>1, ConcatEqualIffEmpty
      <4> QED BY <4>2 DEF z
    <3>7. StringList!get_text(Append(x, t)) # <<>> /\ Says(Append(x, t))
      BY <2>5, <3>1, <3>2, <3>3, <3>4, <3>6
    <3> HIDE DEF Says
    <3> QED BY <2>4, <3>7
  <2> QED BY <2>7, <2>8
<1> HIDE DEF P
<1>3. Seq(T) \subseteq P
  BY <1>1, <1>2, SeqInduct
<1>4. rs \in P
  BY <1>3
<1> QED BY <1>02, <1>03, <1>4 DEF P

\* A row of the text
LEMMA ListRowOfIs ==
    ASSUME NEW item \in Seq(ListPlain)
    PROVE  StringList!RowOf(item) \in ListRowsOf(ListPlain)
<1> DEFINE values == StringList!Split(item, "sep")
<1>1. values \in Seq(Seq(ListPlain))
  <2>1. values = IF item = <<>> THEN <<>> ELSE ListPieces(item, ListPlain, "sep")
    BY ListPiecesAre
  <2>2. ListPieces(item, ListPlain, "sep") \in ListPieceSet(ListPlain, "sep")
    BY ListPiecesAre
  <2>3. ListPieces(item, ListPlain, "sep") \in Seq(Seq(ListBare))
    BY <2>2 DEF ListPieceSet, ListBare
  <2>4. Seq(ListBare) \subseteq Seq(ListPlain)
    <3>1. ListBare \subseteq ListPlain
      BY DEF ListBare
    <3> QED BY <3>1, ListSeqLarger
  <2> DEFINE S == Seq(ListBare)
             R == Seq(ListPlain)
  <2> HIDE DEF values
  <2>5. ListPieces(item, ListPlain, "sep") \in Seq(S) /\ S \subseteq R
    BY <2>3, <2>4
  <2> HIDE DEF S, R
  <2>6. ListPieces(item, ListPlain, "sep") \in Seq(R)
    BY <2>5, ListSeqLarger
  <2>7. <<>> \in Seq(R)
    BY EmptySeq
  <2> QED BY <2>1, <2>6, <2>7 DEF R
<1> DEFINE R == Seq(ListPlain)
<1>2. StringList!RowOf(item) = CASE Len(values) = 0 -> StringList!Row(<<>>, <<>>)
                      [] Len(values) = 1 -> StringList!Row(<<>>, values[1])
                      [] Len(values) > 1 -> StringList!Row(values[1], values[2])
  BY DEF StringList!RowOf
<1> HIDE DEF values
<1>3. <<>> \in R
  BY EmptySeq
<1>4. ASSUME NEW d \in R, NEW v \in R PROVE StringList!Row(d, v) \in ListRowsOf(ListPlain)
  BY DEF StringList!Row, ListRowsOf
<1> HIDE DEF R
<1>5. Len(values) \in Nat /\ \A i \in 1 .. Len(values) : values[i] \in R
  BY <1>1, LenProperties DEF R
<1>6. CASE Len(values) = 0
  BY <1>2, <1>3, <1>4, <1>6
<1>7. CASE Len(values) = 1
  <2>1. values[1] \in R
    BY <1>5, <1>7
  <2>2. StringList!RowOf(item) = StringList!Row(<<>>, values[1])
    BY <1>2, <1>7
  <2> QED BY <1>3, <1>4, <2>1, <2>2
<1>8. CASE Len(values) > 1
  <2>1. values[1] \in R /\ values[2] \in R
    BY <1>5, <1>8
  <2>2. StringList!RowOf(item) = StringList!Row(values[1], values[2])
    BY <1>2, <1>5, <1>8
  <2> QED BY <1>4, <2>1, <2>2
<1>9. Len(values) = 0 \/ Len(values) = 1 \/ Len(values) > 1
  <2> DEFINE n == Len(values)
  <2>1. n \in Nat
    BY <1>5
  <2> HIDE DEF n
  <2>2. n = 0 \/ n = 1 \/ n > 1
    BY <2>1
  <2> QED BY <2>2 DEF n
<1> QED BY <1>6, <1>7, <1>8, <1>9

\* Rows that nobody has divided
ListCleanRows == {r \in ListRowsOf(ListBare) : ~s1 => r.d = <<>>}

\* A row that nobody has divided is one.
LEMMA ListCleanPlain == ListCleanRows \subseteq ListRowsOf(ListPlain)
<1>1. ListBare \subseteq ListPlain
  BY DEF ListBare
<1>2. \A s \in Seq(ListBare) : s \in Seq(ListPlain)
  BY <1>1, ListSeqLarger
<1> QED BY <1>2 DEF ListCleanRows, ListRowsOf

\* Such a row comes back.
LEMMA ListRowBack ==
    ASSUME NEW r \in ListCleanRows, r.v # <<>>
    PROVE  StringList!RowOf(StringList!Item(r)) = r
<1> DEFINE d == r.d
           v == r.v
           c == <<"sep">>
           item == StringList!Item(r)
           values == StringList!Split(item, "sep")
<1>1. d \in Seq(ListBare) /\ v \in Seq(ListBare) /\ v # <<>> /\ (~s1 => d = <<>>)
      /\ r = StringList!Row(d, v)
  BY DEF ListCleanRows, ListRowsOf, StringList!Row
<1>2. d \in Seq(ListPlain) /\ v \in Seq(ListPlain) /\ "sep" \in ListPlain
      /\ ListPlain \ {"sep"} = ListBare
  <2>1. ListBare \subseteq ListPlain
    BY DEF ListBare
  <2> HIDE DEF d, v
  <2>2. d \in Seq(ListPlain) /\ v \in Seq(ListPlain)
    BY <1>1, <2>1, ListSeqLarger
  <2> QED BY <2>2 DEF ListBare, ListPlain, StringList!Tokens
<1>3. item \in Seq(ListPlain) /\ item # <<>>
  <2>1. r \in ListRowsOf(ListPlain)
    BY ListCleanPlain
  <2> QED BY <1>1, <2>1, ListItemIs
<1>4. values = ListPieces(item, ListPlain, "sep")
  BY <1>3, ListPiecesAre
<1>5. item = (IF s1 THEN d \o c ELSE <<>>) \o v
  BY DEF StringList!Item
<1>6. StringList!RowOf(item) = CASE Len(values) = 0 -> StringList!Row(<<>>, <<>>)
                      [] Len(values) = 1 -> StringList!Row(<<>>, values[1])
                      [] Len(values) > 1 -> StringList!Row(values[1], values[2])
  BY DEF StringList!RowOf
<1> HIDE DEF d, v, c, item, values
<1>7. CASE s1
  <2>1. item = Append(d, "sep") \o v
    <3>1. d \o c = Append(d, "sep")
      BY <1>2, AppendIsConcat DEF c
    <3> QED BY <1>5, <1>7, <3>1
  <2>2. v \in Seq(ListPlain \ {"sep"}) /\ d \in Seq(ListPlain \ {"sep"})
    BY <1>1, <1>2
  <2>3. ListPieces(Append(d, "sep") \o v, ListPlain, "sep") = Append(ListPieces(d,
        ListPlain, "sep"), v)
    BY <1>2, <2>2, ListPieceMore
  <2>4. ListPieces(d, ListPlain, "sep") = <<d>>
    BY <2>2, ListOnePiece
  <2>5. values = Append(<<d>>, v)
    BY <1>4, <2>1, <2>3, <2>4
  <2> DEFINE q == <<d>>
             S == Seq(ListPlain)
  <2>6. d \in S /\ v \in S
    BY <1>2
  <2> HIDE DEF S
  <2>7. q \in Seq(S) /\ Len(q) = 1 /\ q[1] = d
    BY <2>6
  <2> HIDE DEF q
  <2>8. Len(values) = 2 /\ values[1] = d /\ values[2] = v
    <3>1. values = Append(q, v)
      BY <2>5 DEF q
    <3>2. /\ Len(Append(q, v)) = Len(q) + 1 /\ Append(q, v)[Len(q) + 1] = v
          /\ \A i \in 1 .. Len(q) : Append(q, v)[i] = q[i]
      <4>1. q \in Seq(S)
        BY <2>7
      <4>2. v \in S
        BY <2>6
      <4> DEFINE w == Append(q, v)
      <4>3. w[Len(q) + 1] = v
        BY <4>1, <4>2, AppendProperties
      <4>4. Len(w) = Len(q) + 1
        BY <4>1, <4>2, AppendProperties
      <4>5. \A i \in 1 .. Len(q) : w[i] = q[i]
        BY <4>1, <4>2, AppendProperties
      <4> QED BY <4>3, <4>4, <4>5
    <3>3. 1 \in 1 .. Len(q) /\ Len(q) + 1 = 2
      BY <2>7
    <3> QED BY <2>7, <3>1, <3>2, <3>3
  <2>9. StringList!RowOf(item) = StringList!Row(d, v)
    BY <1>6, <2>8
  <2> QED BY <1>1, <2>9 DEF item
<1>8. CASE ~s1
  <2>1. item = v
    <3>1. item = <<>> \o v
      BY <1>5, <1>8
    <3>2. <<>> \o v = v
      BY <1>1, ConcatEmptySeq
    <3> QED BY <3>1, <3>2
  <2>2. v \in Seq(ListPlain \ {"sep"})
    BY <1>1, <1>2
  <2>3. ListPieces(v, ListPlain, "sep") = <<v>>
    BY <2>2, ListOnePiece
  <2>4. Len(<<v>>) = 1 /\ <<v>>[1] = v
    OBVIOUS
  <2>5. Len(values) = 1 /\ values[1] = v
    BY <1>4, <2>1, <2>3, <2>4
  <2>6. StringList!RowOf(item) = StringList!Row(<<>>, v)
    BY <1>6, <2>5
  <2> QED BY <1>1, <1>8, <2>6 DEF item
<1> QED BY <1>7, <1>8

\* The rows that are made of the text of rows with a value
LEMMA ListRowsBack ==
    ASSUME NEW rs \in Seq(ListPosRows(ListRowsOf(ListPlain)))
    PROVE  /\ StringList!set_text(StringList!get_text(rs)) \in Seq(ListRowsOf(ListPlain))
           /\ Len(StringList!set_text(StringList!get_text(rs))) = Len(rs)
           /\ rs \in Seq(ListCleanRows) => StringList!set_text(StringList!get_text(rs)) = rs
<1> DEFINE R == ListRowsOf(ListPlain)
           m == Len(rs)
           w == [i \in 1 .. m |-> StringList!RowOf(StringList!Item(rs[i]))]
<1>0. m \in Nat /\ \A i \in 1 .. m : rs[i] \in R /\ rs[i].v # <<>>
  <2>1. m \in Nat /\ \A i \in 1 .. m : rs[i] \in ListPosRows(R)
    <3>1. rs \in Seq(ListPosRows(R))
      OBVIOUS
    <3> HIDE DEF R
    <3> QED BY <3>1, LenProperties
  <2> QED BY <2>1 DEF ListPosRows
<1>1. StringList!set_text(StringList!get_text(rs)) = w
  <2> DEFINE items == StringList!Split(StringList!get_text(rs), ",")
  <2>1. items = IF StringList!get_text(rs) = <<>> THEN <<>>
        ELSE ListPieces(StringList!get_text(rs), StringList!Tokens, ",")
    BY ListTextPieces, ListPiecesAre
  <2>2. items = ListItems(rs)
    <3>1. CASE rs = <<>>
      <4>1. items = <<>>
        BY <2>1, <3>1, ListTextPieces
      <4>2. ListItems(rs) = <<>>
        BY <3>1 DEF ListItems
      <4> QED BY <4>1, <4>2
    <3>2. CASE rs # <<>>
      BY <2>1, <3>2, ListTextPieces
    <3> QED BY <3>1, <3>2
  <2>3. StringList!set_text(StringList!get_text(rs))
        = [i \in DOMAIN items |-> StringList!RowOf(items[i])]
    BY DEF StringList!set_text
  <2> HIDE DEF items
  <2> QED BY <2>2, <2>3 DEF ListItems
<1>2. \A i \in 1 .. m : StringList!RowOf(StringList!Item(rs[i])) \in R
  BY <1>0, ListItemIs, ListRowOfIs
<1>3. rs \in Seq(ListCleanRows)
      => \A i \in 1 .. m : StringList!RowOf(StringList!Item(rs[i])) = rs[i]
  <2>1. ASSUME rs \in Seq(ListCleanRows),
               NEW i \in 1 .. m PROVE StringList!RowOf(StringList!Item(rs[i])) = rs[i]
    <3>1. rs[i] \in ListCleanRows
      BY <2>1, LenProperties
    <3> QED BY <1>0, <3>1, ListRowBack
  <2> QED BY <2>1
<1>4. rs = [i \in 1 .. m |-> rs[i]]
  OBVIOUS
<1> HIDE DEF R
<1>5. w \in Seq(R) /\ Len(w) = m
  BY <1>0, <1>2
<1>6. rs \in Seq(ListCleanRows) => w = rs
  BY <1>3, <1>4
<1> QED BY <1>1, <1>5, <1>6 DEF R

-----------------------------------------------------------------------------

\* The rows while the dialog is open and those it left
ListHeld ==
    /\ s3 \in Seq(ListRowsOf(ListPlain)) /\ s6 \in Seq(ListPosRows(ListRowsOf(ListPlain)))
    /\ Len(s3) <= MaxRows /\ Len(s6) <= MaxRows
    /\ ~s8 => s3 \in Seq(ListCleanRows) /\ s6 \in Seq(ListCleanRows)

ListInv ==
    /\ s1 \in BOOLEAN /\ s4 \in BOOLEAN /\ s7 \in BOOLEAN /\ s8 \in BOOLEAN
    /\ ListHeld /\ s5 \in 0 .. Len(s3)
    /\ ~s4 => s3 = <<>>
    /\ s2 = StringList!get_text(s6)
    /\ StringList!RowsReturn

\* What it says of the rows.
LEMMA ListInvMeans == ListInv => StringList!TypeOK /\ StringList!RowsReturn
BY DEF ListInv, ListHeld, StringList!TypeOK

\* It holds before the dialog.
LEMMA ListInitInv == StringList!Init => ListInv
<1> SUFFICES ASSUME StringList!Init PROVE ListInv
  OBVIOUS
<1>1. s3 = <<>> /\ s6 = <<>> /\ s2 = <<>> /\ s5 = 0 /\ ~s4 /\ ~s7
      /\ s1 \in BOOLEAN /\ s8 \in BOOLEAN /\ s4 \in BOOLEAN /\ s7 \in BOOLEAN
  BY DEF StringList!Init
<1>2. StringList!get_text(<<>>) = <<>>
  BY ListTextIs
<1>3. MaxRows \in Nat
  BY ListBounds
<1>4. ListHeld
  BY <1>1, <1>3, EmptySeq DEF ListHeld
<1> QED BY <1>1, <1>2, <1>4 DEF ListInv, StringList!RowsReturn

\* A function on 1 .. n is a list.
LEMMA ListIsSeq ==
    ASSUME NEW S, NEW n \in Nat, NEW f, f = [k \in 1 .. n |-> f[k]],
           \A k \in 1 .. n : f[k] \in S
    PROVE  f \in Seq(S)
<1>1. [k \in 1 .. n |-> f[k]] \in Seq(S)
  OBVIOUS
<1> QED BY <1>1

\* A text that is entered, without its commas
LEMMA ListEntered ==
    ASSUME NEW t \in Texts,
           NEW text, text = [k \in DOMAIN t |-> IF t[k] = "," THEN " " ELSE t[k]]
    PROVE  text \in Seq(ListPlain)
           /\ ("sep" \notin StringList!ToSet(text) => text \in Seq(ListBare))
<1>1. t \in Seq(StringList!Tokens)
  BY ListBounds
<1>2. DOMAIN t = 1 .. Len(t) /\ Len(t) \in Nat
      /\ \A k \in 1 .. Len(t) : t[k] \in StringList!Tokens
  BY <1>1, LenProperties
<1>3. text = [k \in 1 .. Len(t) |-> text[k]] /\ \A k \in 1 .. Len(t) : text[k] \in ListPlain
  BY <1>2 DEF ListPlain, StringList!Tokens
<1> DEFINE n == Len(t)
<1>01. n \in Nat /\ text = [k \in 1 .. n |-> text[k]] /\ \A k \in 1 .. n : text[k] \in ListPlain
  BY <1>2, <1>3
<1> HIDE DEF n
<1>4. text \in Seq(ListPlain)
  BY <1>01, ListIsSeq
<1>5. ASSUME "sep" \notin StringList!ToSet(text) PROVE \A k \in 1 .. Len(t) : text[k] \in ListBare
  BY <1>2, <1>3, <1>5 DEF StringList!ToSet, ListBare
<1>6. ASSUME "sep" \notin StringList!ToSet(text) PROVE text \in Seq(ListBare)
  <2>1. \A k \in 1 .. n : text[k] \in ListBare
    BY <1>5, <1>6 DEF n
  <2> QED BY <1>01, <2>1, ListIsSeq
<1> QED BY <1>4, <1>6

\* A cell of a row is edited ...
LEMMA ListRowIs ==
    ASSUME NEW T, NEW r \in ListRowsOf(T), NEW x \in Seq(T)
    PROVE  [r EXCEPT !.d = x] \in ListRowsOf(T) /\ [r EXCEPT !.v = x] \in ListRowsOf(T)
BY DEF ListRowsOf

\* ... without the sign that divides.
LEMMA ListCleanRowIs ==
    ASSUME NEW r \in ListCleanRows, NEW x \in Seq(ListBare)
    PROVE  (s1 => [r EXCEPT !.d = x] \in ListCleanRows) /\ [r EXCEPT !.v = x] \in ListCleanRows
BY DEF ListCleanRows, ListRowsOf

\* An edit, a swap and a removal keep the rows in their set.
LEMMA ListEditKeeps ==
    ASSUME NEW T, NEW rs \in Seq(T), NEW i \in 1 .. Len(rs), NEW r \in T, NEW q,
           q = [rs EXCEPT ![i] = r]
    PROVE  q \in Seq(T) /\ Len(q) = Len(rs)
BY ExceptSeq

\* Two rows change places.
LEMMA ListSwapKeeps ==
    ASSUME NEW T, NEW rs \in Seq(T), NEW i \in 1 .. Len(rs), NEW j \in 1 .. Len(rs)
    PROVE  /\ [rs EXCEPT ![i] = rs[j], ![j] = rs[i]] \in Seq(T)
           /\ Len([rs EXCEPT ![i] = rs[j], ![j] = rs[i]]) = Len(rs)
<1> DEFINE p == [rs EXCEPT ![i] = rs[j]]
           q == [p EXCEPT ![j] = rs[i]]
<1>1. rs[i] \in T /\ rs[j] \in T
  BY LenProperties
<1>2. p \in Seq(T) /\ Len(p) = Len(rs)
  BY <1>1, ExceptSeq
<1> HIDE DEF p
<1>3. q \in Seq(T) /\ Len(q) = Len(rs)
  BY <1>1, <1>2, ExceptSeq
<1> QED BY <1>3 DEF p

\* A row is removed.
LEMMA ListRemoveKeeps ==
    ASSUME NEW T, NEW rs \in Seq(T), NEW i \in 1 .. Len(rs)
    PROVE  StringList!RemoveAt(rs, i) \in Seq(T)
           /\ Len(StringList!RemoveAt(rs, i)) = Len(rs) - 1
<1> DEFINE n == Len(rs)
           k == i - 1
           j == i + 1
           a == SubSeq(rs, 1, k)
           c == SubSeq(rs, j, n)
<1>0. n \in Nat /\ k \in Nat /\ j \in Nat \ {0} /\ k <= n /\ j <= n + 1 /\ n - j + 1 = n - i
      /\ k - 1 + 1 = i - 1 /\ 1 <= k + 1 /\ n = Len(rs) /\ i \in Nat /\ i <= n
  BY LenProperties
<1>01. StringList!RemoveAt(rs, i) = a \o c
  BY DEF StringList!RemoveAt
<1> HIDE DEF n, k, j
<1>1. a \in Seq(T) /\ Len(a) = k - 1 + 1
  <2>1. k <= Len(rs) /\ 1 \in Nat \ {0}
    BY <1>0
  <2> QED BY <1>0, <2>1, Cut
<1>2. c \in Seq(T) /\ Len(c) = n - j + 1
  <2>1. n <= Len(rs)
    BY <1>0
  <2> QED BY <1>0, <2>1, Cut
<1> HIDE DEF a, c
<1>3. a \o c \in Seq(T) /\ Len(a \o c) = Len(a) + Len(c)
  BY <1>1, <1>2, Joined
<1>4. Len(a) = i - 1 /\ Len(c) = n - i /\ n \in Nat /\ i \in Nat
  BY <1>0, <1>1, <1>2
<1>5. Len(a \o c) = n - 1
  BY <1>3, <1>4
<1> QED BY <1>0, <1>01, <1>3, <1>5

\* A change of the rows
LEMMA ListChangeKeeps ==
    ASSUME ListInv, s4, NEW rs, NEW k, StringList!Change(rs, k), Len(rs) <= MaxRows,
           k \in 0 .. Len(rs),
           rs \in Seq(ListRowsOf(ListPlain)), s8' \in BOOLEAN, s8 => s8',
           ~s8' => rs \in Seq(ListCleanRows)
    PROVE  ListInv'
<1>1. /\ s3' = rs /\ s5' = k /\ s7' = FALSE
      /\ s1' = s1 /\ s2' = s2 /\ s4' = s4 /\ s6' = s6
  BY DEF StringList!Change
<1>2. ListCleanRows' = ListCleanRows
  BY <1>1 DEF ListCleanRows
<1>3. ListHeld'
  BY <1>1, <1>2 DEF ListHeld, ListInv
<1>4. (s2 = StringList!get_text(s6))'
  <2>1. StringList!get_text(s6)' = StringList!get_text(s6)
    BY <1>1 DEF StringList!get_text, StringList!Added, StringList!Item
  <2> QED BY <1>1, <2>1 DEF ListInv
<1>5. StringList!RowsReturn'
  BY <1>1 DEF StringList!RowsReturn
<1> QED BY <1>1, <1>3, <1>4, <1>5 DEF ListInv

\* Every step keeps it.
LEMMA ListStepInv == ListInv /\ [StringList!Next]_(StringList!vars) => ListInv'
<1> SUFFICES ASSUME ListInv, [StringList!Next]_(StringList!vars) PROVE ListInv'
  OBVIOUS
<1>0. /\ s1 \in BOOLEAN /\ s4 \in BOOLEAN /\ s7 \in BOOLEAN /\ s8 \in BOOLEAN
      /\ s3 \in Seq(ListRowsOf(ListPlain)) /\ s6 \in Seq(ListPosRows(ListRowsOf(ListPlain)))
      /\ Len(s3) <= MaxRows /\ Len(s6) <= MaxRows
      /\ ~s8 => s3 \in Seq(ListCleanRows) /\ s6 \in Seq(ListCleanRows)
      /\ s5 \in 0 .. Len(s3)
      /\ ~s4 => s3 = <<>>
      /\ s2 = StringList!get_text(s6)
      /\ MaxRows \in Nat /\ Len(s3) \in Nat
  BY ListBounds, LenProperties DEF ListInv, ListHeld
<1>1. CASE StringList!Open
  <2>1. /\ s4' = TRUE /\ s7' = TRUE /\ s3' = StringList!set_text(s2) /\ s5' = 0
        /\ UNCHANGED <<s1, s2, s6, s8>>
    BY <1>1 DEF StringList!Open
  <2>2. /\ s3' \in Seq(ListRowsOf(ListPlain)) /\ Len(s3') = Len(s6)
        /\ s6 \in Seq(ListCleanRows) => s3' = s6
    BY <1>0, <2>1, ListRowsBack
  <2>3. ListCleanRows' = ListCleanRows
    BY <2>1 DEF ListCleanRows
  <2>4. ListHeld'
    BY <1>0, <2>1, <2>2, <2>3 DEF ListHeld
  <2>5. (s2 = StringList!get_text(s6))'
    <3>1. StringList!get_text(s6)' = StringList!get_text(s6)
      BY <2>1 DEF StringList!get_text, StringList!Added, StringList!Item
    <3> QED BY <1>0, <2>1, <3>1
  <2>6. StringList!RowsReturn'
    BY <1>0, <2>1, <2>2 DEF StringList!RowsReturn
  <2>7. s5' \in 0 .. Len(s3')
    <3>1. Len(s3') \in Nat
      BY <2>2, LenProperties
    <3> QED BY <2>1, <3>1
  <2> QED BY <1>0, <2>1, <2>4, <2>5, <2>6, <2>7 DEF ListInv
<1>2. CASE StringList!remmina_string_list_on_action_add
  <2> DEFINE rs == Append(s3, StringList!Row(<<>>, <<>>))
             k == Len(s3) + 1
  <2>1. s4 /\ Len(s3) < MaxRows /\ StringList!Change(rs, k) /\ s8' = s8
    BY <1>2 DEF StringList!remmina_string_list_on_action_add
  <2>2. StringList!Row(<<>>, <<>>) \in ListRowsOf(ListPlain)
        /\ StringList!Row(<<>>, <<>>) \in ListCleanRows
    BY EmptySeq DEF StringList!Row, ListRowsOf, ListCleanRows
  <2>3. rs \in Seq(ListRowsOf(ListPlain)) /\ Len(rs) = Len(s3) + 1
    BY <1>0, <2>2, AppendProperties
  <2>4. ~s8 => rs \in Seq(ListCleanRows)
    BY <1>0, <2>2, AppendProperties
  <2> HIDE DEF rs
  <2>5. Len(rs) <= MaxRows /\ k \in 0 .. Len(rs)
    BY <1>0, <2>1, <2>3
  <2> HIDE DEF k
  <2> QED BY <1>0, <2>1, <2>3, <2>4, <2>5, ListChangeKeeps
<1>3. ASSUME NEW i \in 1 .. Len(s3), NEW j \in 1 .. Len(s3), s4, StringList!Swap(i,
             j) PROVE ListInv'
  <2> DEFINE rs == [s3 EXCEPT ![i] = s3[j], ![j] = s3[i]]
  <2>1. StringList!Change(rs, j) /\ s8' = s8
    BY <1>3 DEF StringList!Swap
  <2>2. rs \in Seq(ListRowsOf(ListPlain)) /\ Len(rs) = Len(s3)
    BY <1>0, ListSwapKeeps
  <2>3. ~s8 => rs \in Seq(ListCleanRows)
    BY <1>0, ListSwapKeeps
  <2> HIDE DEF rs
  <2>4. j \in 0 .. Len(rs)
    BY <2>2
  <2> QED BY <1>0, <1>3, <2>1, <2>2, <2>3, <2>4, ListChangeKeeps
<1>4. CASE StringList!remmina_string_list_on_action_down
  <2>1. s4 /\ s5 \in 1 .. Len(s3) - 1 /\ StringList!Swap(s5, s5 + 1)
    BY <1>4 DEF StringList!remmina_string_list_on_action_down
  <2>2. s5 \in 1 .. Len(s3) /\ s5 + 1 \in 1 .. Len(s3)
    BY <1>0, <2>1
  <2> QED BY <1>3, <2>1, <2>2
<1>5. CASE StringList!remmina_string_list_on_action_up
  <2>1. s4 /\ s5 > 1 /\ StringList!Swap(s5, s5 - 1)
    BY <1>5 DEF StringList!remmina_string_list_on_action_up
  <2>2. s5 \in 1 .. Len(s3) /\ s5 - 1 \in 1 .. Len(s3)
    BY <1>0, <2>1
  <2> QED BY <1>3, <2>1, <2>2
<1>6. CASE StringList!remmina_string_list_on_action_remove
  <2> DEFINE rs == StringList!RemoveAt(s3, s5)
  <2>1. s4 /\ s5 \in 1 .. Len(s3) /\ StringList!Change(rs, 0) /\ s8' = s8
    BY <1>0, <1>6 DEF StringList!remmina_string_list_on_action_remove
  <2>2. rs \in Seq(ListRowsOf(ListPlain)) /\ Len(rs) = Len(s3) - 1
    BY <1>0, <2>1, ListRemoveKeeps
  <2>3. ~s8 => rs \in Seq(ListCleanRows)
    BY <1>0, <2>1, ListRemoveKeeps
  <2> HIDE DEF rs
  <2>4. 0 \in 0 .. Len(rs) /\ Len(rs) <= MaxRows
    BY <1>0, <2>1, <2>2
  <2> QED BY <1>0, <2>1, <2>2, <2>3, <2>4, ListChangeKeeps
<1>7. CASE StringList!Close
  <2>1. /\ s4' = FALSE /\ s7' = FALSE /\ s2' = StringList!get_text(s3)
           /\ s6' = StringList!WithValue(s3)
        /\ s3' = <<>> /\ s5' = 0 /\ UNCHANGED <<s1, s8>>
    BY <1>7 DEF StringList!Close
  <2>2. s6' \in Seq(ListPosRows(ListRowsOf(ListPlain))) /\ Len(s6') <= Len(s3)
    BY <1>0, <2>1, ListValuesAre, ListValuesFewer
  <2>3. ~s8 => s6' \in Seq(ListCleanRows)
    <3>1. ASSUME s3 \in Seq(ListCleanRows) PROVE s6' \in Seq(ListCleanRows)
      <4>1. s6' \in Seq(ListPosRows(ListCleanRows))
        BY <2>1, <3>1, ListValuesAre
      <4>2. ListPosRows(ListCleanRows) \subseteq ListCleanRows
        BY DEF ListPosRows
      <4> QED BY <4>1, <4>2, ListSeqLarger
    <3> QED BY <1>0, <3>1
  <2>4. ListCleanRows' = ListCleanRows
    BY <2>1 DEF ListCleanRows
  <2>5. StringList!get_text(s6') = StringList!get_text(s3)
    BY <1>0, <2>1, ListValuesSay
  <2>6. (StringList!get_text(s6))' = StringList!get_text(s6')
    BY <2>1, ZenonT(30) DEF StringList!get_text, StringList!Added, StringList!Item
  <2>7. Len(s6') <= MaxRows
    <3>1. Len(s6') \in Nat
      BY <2>2, LenProperties
    <3> QED BY <1>0, <2>2, <3>1
  <2>8. ListHeld'
    BY <1>0, <2>1, <2>2, <2>3, <2>4, <2>7, EmptySeq DEF ListHeld
  <2>9. StringList!RowsReturn'
    BY <2>1 DEF StringList!RowsReturn
  <2>10. s5' \in 0 .. Len(s3')
    BY <2>1
  <2> QED BY <1>0, <2>1, <2>5, <2>6, <2>8, <2>9, <2>10 DEF ListInv
<1>8. ASSUME NEW i \in 1 .. Len(s3), StringList!Select(i) PROVE ListInv'
  <2>1. s4 /\ StringList!Change(s3, i) /\ s8' = s8 /\ i \in 0 .. Len(s3)
    BY <1>8 DEF StringList!Select
  <2> QED BY <1>0, <2>1, ListChangeKeeps
<1>9. ASSUME NEW i \in 1 .. Len(s3), NEW c \in {"d", "v"}, NEW t \in Texts,
             StringList!remmina_string_list_on_cell_edited(i, c, t)
      PROVE  ListInv'
  <2> DEFINE text == [k \in DOMAIN t |-> IF t[k] = "," THEN " " ELSE t[k]]
             sd == [s3 EXCEPT ![i].d = text]
             sv == [s3 EXCEPT ![i].v = text]
             rd == [s3[i] EXCEPT !.d = text]
             rv == [s3[i] EXCEPT !.v = text]
  <2>1. /\ s4 /\ s8' = (s8 \/ "sep" \in StringList!ToSet(text))
        /\ \/ s1 /\ StringList!Change(sd, s5)
           \/ StringList!Change(sv, s5)
    BY <1>9 DEF StringList!remmina_string_list_on_cell_edited
  <2>2. text \in Seq(ListPlain)
        /\ ("sep" \notin StringList!ToSet(text) => text \in Seq(ListBare))
    BY ListEntered
  <2>3. sd = [s3 EXCEPT ![i] = rd] /\ sv = [s3 EXCEPT ![i] = rv]
    BY <1>0
  <2>01. rd = [s3[i] EXCEPT !.d = text] /\ rv = [s3[i] EXCEPT !.v = text]
    OBVIOUS
  <2> HIDE DEF text, rd, rv, sd, sv
  <2>4. s3[i] \in ListRowsOf(ListPlain) /\ (~s8 => s3[i] \in ListCleanRows)
    BY <1>0, LenProperties
  <2>5. rd \in ListRowsOf(ListPlain) /\ rv \in ListRowsOf(ListPlain)
    BY <2>01, <2>2, <2>4, ListRowIs
  <2>6. ~s8' => (s1 => rd \in ListCleanRows) /\ rv \in ListCleanRows
    BY <2>01, <2>1, <2>2, <2>4, ListCleanRowIs
  <2>7. /\ sd \in Seq(ListRowsOf(ListPlain)) /\ Len(sd) = Len(s3)
        /\ sv \in Seq(ListRowsOf(ListPlain)) /\ Len(sv) = Len(s3)
    BY <1>0, <2>3, <2>5, ListEditKeeps
  <2>8. ~s8' => (s1 => sd \in Seq(ListCleanRows)) /\ sv \in Seq(ListCleanRows)
    <3>1. ~s8' => s3 \in Seq(ListCleanRows)
      BY <1>0, <2>1
    <3> QED BY <2>3, <2>6, <3>1, ListEditKeeps
  <2>9. s8' \in BOOLEAN /\ (s8 => s8')
    BY <1>0, <2>1
  <2>10. CASE s1 /\ StringList!Change(sd, s5)
    BY <1>0, <2>1, <2>7, <2>8, <2>9, <2>10, ListChangeKeeps
  <2>11. CASE StringList!Change(sv, s5)
    BY <1>0, <2>1, <2>7, <2>8, <2>9, <2>11, ListChangeKeeps
  <2> QED BY <2>1, <2>10, <2>11
<1>10. CASE UNCHANGED StringList!vars
  <2>1. /\ s1' = s1 /\ s2' = s2 /\ s3' = s3 /\ s4' = s4
        /\ s5' = s5 /\ s6' = s6 /\ s7' = s7 /\ s8' = s8
    BY <1>10 DEF StringList!vars
  <2>2. ListCleanRows' = ListCleanRows /\ (StringList!get_text(s6))' = StringList!get_text(s6)
    BY <2>1 DEF ListCleanRows, StringList!get_text, StringList!Added, StringList!Item
  <2> QED BY <2>1, <2>2 DEF ListInv, ListHeld, StringList!RowsReturn
<1> QED BY <1>1, <1>2, <1>4, <1>5, <1>6, <1>7, <1>8, <1>9, <1>10 DEF StringList!Next

-----------------------------------------------------------------------------
(* The folder of the profiles and their groups                             *)
(* (src/src/remmina_file_manager.c).                                       *)
(* The variables: s1 run, s2 chosen, s3 there, s4 file, s5 saved, s6       *)
(* moved, s7 read, s8 list, s9 tree.                                       *)

\* The group of a profile is a name with at least one part.
LEMMA FileGroupsAssumption == Groups \subseteq Seq(Nat) \ {<<>>}
BY ComponentBounds DEF ComponentBounds

-----------------------------------------------------------------------------
(* The profile.                                                            *)

FileFolderTyped ==
    /\ s1 \in BOOLEAN /\ s2 \in BOOLEAN /\ s3 \subseteq FileManager!Dirs
    /\ s4 \in [FileManager!Dirs -> FileManager!Contents]
    /\ \A d \in FileManager!Dirs \ s3 : s4[d] = "none"
    /\ s5 \in {"nothing", "edited", "deleted"} /\ s6 \in BOOLEAN

FileFolderInv == FileFolderTyped /\ FileManager!ProfilesKept

FileMoves == \/ FileManager!remmina_file_manager_init \/ FileManager!Quit \/ FileManager!Choose
         \/ \E c \in {"edited", "none"} : FileManager!Save(c)
         \/ \E d \in FileManager!Dirs : FileManager!FolderGone(d)

\* The folder taken is one of the four, and is there unless it is that of the user.
LEMMA FileDirIs ==
    ASSUME NEW c \in BOOLEAN, NEW t, t \subseteq FileManager!Dirs
    PROVE  /\ FileManager!remmina_file_get_datadir(c, t) \in FileManager!Dirs
           /\ FileManager!remmina_file_get_datadir(c, t) \in t
              \/ FileManager!remmina_file_get_datadir(c, t) = "user"
           /\ "user" \in t => FileManager!remmina_file_get_datadir(c, t) # "system"
BY DEF FileManager!remmina_file_get_datadir, FileManager!Dirs

\* What becomes of the folder and of the profile keeps what is known of them.
LEMMA FileFolderStep == ASSUME FileFolderInv, FileMoves PROVE FileFolderInv'
<1>0. /\ s1 \in BOOLEAN /\ s2 \in BOOLEAN /\ s3 \subseteq FileManager!Dirs
      /\ s4 \in [FileManager!Dirs -> FileManager!Contents]
         /\ \A d \in FileManager!Dirs \ s3 : s4[d] = "none"
      /\ s5 \in {"nothing", "edited", "deleted"} /\ s6 \in BOOLEAN
  BY DEF FileFolderInv, FileFolderTyped
<1>d. FileManager!Here \in FileManager!Dirs
      /\ (FileManager!Here \in s3 \/ FileManager!Here = "user")
      /\ "user" \in FileManager!Dirs /\ "system" \in FileManager!Dirs
      /\ "legacy" \in FileManager!Dirs
  BY <1>0, FileDirIs DEF FileManager!Here, FileManager!Dirs
<1>1. CASE FileManager!remmina_file_manager_init
  <2>1. /\ s1' = TRUE /\ UNCHANGED <<s2, s5>>
        /\ s3' \in {s3 \cup {IF s2 THEN "pref" ELSE "user"}, s3 \cup {"user"}, s3}
        /\ s4' = IF "user" \notin s3' THEN s4
               ELSE [s4 EXCEPT !["user"] = FileManager!do_copy(s4["system"],
                  FileManager!do_copy(s4["legacy"], @))]
        /\ s6' = (s6 \/ FileManager!remmina_file_get_datadir(s2, s3')
                              # FileManager!remmina_file_get_datadir(s2, s3))
    BY <1>1 DEF FileManager!remmina_file_manager_init
  <2>2. s3' \subseteq FileManager!Dirs /\ s3 \subseteq s3'
    BY <1>0, <2>1 DEF FileManager!Dirs
  <2>3. /\ s4' \in [FileManager!Dirs -> FileManager!Contents]
        /\ \A d \in FileManager!Dirs : d # "user" \/ "user" \notin s3' => s4'[d] = s4[d]
        /\ s4'["user"] # s4["user"] => /\ s4["user"] = "none" /\ "user" \in s3'
        /\ s4["user"] # "none" => s4'["user"] = s4["user"]
        /\ s4'["user"] = "none" => s4["user"] = "none"
        /\ "user" \in s3' /\ s4["user"] = "none"
           /\ s4["legacy"] = "none" => s4'["user"] = s4["system"]
    BY <1>0, <1>d, <2>1 DEF FileManager!do_copy
  <2>4. \A d \in FileManager!Dirs \ s3' : s4'[d] = "none"
    BY <1>0, <2>2, <2>3
  <2>5. s6' \in BOOLEAN
    BY <2>1
  <2>6. FileManager!ProfilesKept'
    <3>0. CASE s6'
      BY <3>0 DEF FileManager!ProfilesKept
    <3>1. CASE ~s6'
      <4>1. ~s6 /\ FileManager!Here' = FileManager!Here
        BY <2>1, <3>1 DEF FileManager!Here
      <4>2. /\ s5 = "edited" => s4[FileManager!Here] = "edited"
            /\ s5 = "deleted" => s4[FileManager!Here] = "none" \/ s4["system"] # "none"
        BY <4>1 DEF FileFolderInv, FileManager!ProfilesKept
      <4>3. s4'["system"] = s4["system"]
        BY <1>d, <2>3
      <4>4. s5 = "edited" => s4'[FileManager!Here] = "edited"
        BY <1>d, <2>3, <4>2
      <4>5. ASSUME s5 = "deleted", s4'[FileManager!Here] # "none",
                   s4["system"] = "none" PROVE FALSE
        <5>1. s4[FileManager!Here] = "none"
          BY <4>2, <4>5
        <5>2. FileManager!Here = "user" /\ "user" \in s3'
          BY <1>d, <2>3, <4>5, <5>1
        <5>3. "legacy" \notin s3'
          BY <4>1, <5>2 DEF FileManager!Here, FileManager!remmina_file_get_datadir
        <5>4. s4["legacy"] = "none"
          BY <1>0, <1>d, <2>2, <5>3
        <5> QED BY <2>3, <4>5, <5>1, <5>2, <5>4
      <4>6. FileManager!ProfilesKept'
        BY <2>1, <4>1, <4>3, <4>4, <4>5 DEF FileManager!ProfilesKept
      <4> QED BY <4>6
    <3> QED BY <3>0, <3>1
  <2> QED BY <1>0, <2>1, <2>2, <2>3, <2>4, <2>5, <2>6 DEF FileFolderInv, FileFolderTyped
<1>2. CASE FileManager!Quit
  BY <1>2 DEF FileManager!Quit, FileFolderInv, FileFolderTyped, FileManager!ProfilesKept,
     FileManager!Here
<1>3. CASE FileManager!Choose
  BY <1>3 DEF FileManager!Choose, FileFolderInv, FileFolderTyped, FileManager!ProfilesKept,
     FileManager!Here
<1>4. ASSUME NEW c \in {"edited", "none"}, FileManager!Save(c) PROVE FileFolderInv'
  <2>1. /\ s1 /\ FileManager!Here \in s3 /\ FileManager!Here # "system"
        /\ s4' = [s4 EXCEPT ![FileManager!Here] = c]
        /\ s5' = IF c = "none" THEN "deleted" ELSE "edited"
        /\ s6' = FALSE
        /\ UNCHANGED <<s1, s2, s3>>
    BY <1>4 DEF FileManager!Save
  <2>2. s4' \in [FileManager!Dirs -> FileManager!Contents] /\ s4'[FileManager!Here] = c
        /\ \A d \in FileManager!Dirs : d # FileManager!Here => s4'[d] = s4[d]
    <3>1. c \in FileManager!Contents
      BY DEF FileManager!Contents
    <3> QED BY <1>0, <1>d, <2>1, <3>1
  <2>3. FileManager!Here' = FileManager!Here
    BY <2>1 DEF FileManager!Here
  <2>4. FileFolderTyped'
    BY <1>0, <1>d, <2>1, <2>2 DEF FileFolderTyped
  <2> QED BY <2>1, <2>2, <2>3, <2>4 DEF FileFolderInv, FileManager!ProfilesKept
<1>5. ASSUME NEW d \in FileManager!Dirs, FileManager!FolderGone(d) PROVE FileFolderInv'
  <2>1. /\ s3' = s3 \ {d} /\ s4' = [s4 EXCEPT ![d] = "none"]
        /\ s6' = TRUE /\ UNCHANGED <<s1, s2, s5>>
    BY <1>5 DEF FileManager!FolderGone
  <2>2. "none" \in FileManager!Contents
    BY DEF FileManager!Contents
  <2>3. FileFolderTyped'
    BY <1>0, <2>1, <2>2 DEF FileFolderTyped
  <2> QED BY <2>1, <2>3 DEF FileFolderInv, FileManager!ProfilesKept
<1> QED BY <1>1, <1>2, <1>3, <1>4, <1>5 DEF FileMoves

-----------------------------------------------------------------------------
(* The children of a node.                                                 *)

FileIncreasing(s) == \A i, j \in DOMAIN s : i < j => s[i] < s[j]

\* The module counts as the library does.
LEMMA FileCardinality == \A S : FileManager!Cardinality(S) = Cardinality(S)
BY DEF FileManager!Cardinality, Cardinality

\* A new child goes behind those that are smaller.
LEMMA FilePlaceIs ==
    ASSUME NEW s \in Seq(Nat), NEW part \in Nat
    PROVE  \E m \in 0 .. Len(s) : /\ FileManager!Place(s, part) = m + 1
                                  /\ \A i \in 1 .. m : s[i] < part
                                  /\ m < Len(s) => ~(s[m + 1] < part)
<1> DEFINE B == {i \in 1 .. Len(s) : ~(s[i] < part)}
           I == {i \in DOMAIN s : \A j \in 1 .. i : s[j] < part}
<1>0. Len(s) \in Nat /\ DOMAIN s = 1 .. Len(s)
  BY LenProperties
<1>1. \E m \in 0 .. Len(s) : /\ I = 1 .. m /\ (\A i \in 1 .. m : s[i] < part)
                             /\ (m < Len(s) => ~(s[m + 1] < part))
  <2>1. CASE B = {}
    <3>1. I = 1 .. Len(s)
      BY <1>0, <2>1
    <3>2. \A i \in 1 .. Len(s) : s[i] < part
      BY <2>1
    <3> DEFINE n == Len(s)
    <3>3. n \in 0 .. Len(s) /\ I = 1 .. n /\ (\A i \in 1 .. n : s[i] < part) /\ ~(n < Len(s))
      BY <1>0, <3>1, <3>2
    <3> HIDE DEF I, n
    <3> QED BY <3>3
  <2>2. CASE B # {}
    <3>1. B \subseteq Nat
      BY <1>0
    <3>2. PICK b \in B : \A j \in B : b <= j
      BY <2>2, <3>1, LeastOf
    <3>3. b \in 1 .. Len(s) /\ ~(s[b] < part)
      BY <3>2
    <3>4. \A j \in 1 .. b - 1 : s[j] < part
      BY <1>0, <3>2, <3>3
    <3>5. I = 1 .. b - 1
      BY <1>0, <3>3, <3>4
    <3>6. b - 1 \in 0 .. Len(s) /\ (b - 1) + 1 = b
      BY <1>0, <3>3
    <3> HIDE DEF I
    <3> QED BY <3>3, <3>4, <3>5, <3>6
  <2> QED BY <2>1, <2>2
<1>2. PICK m \in 0 .. Len(s) : /\ I = 1 .. m /\ (\A i \in 1 .. m : s[i] < part)
                               /\ (m < Len(s) => ~(s[m + 1] < part))
  BY <1>1
<1>3. FileManager!Cardinality(1 .. m) = m
  BY FileCardinality, <1>0, FS_Interval
<1> QED BY <1>2, <1>3 DEF FileManager!Place

\* The children with a new one among them.
LEMMA FileWithChildIs ==
    ASSUME NEW s \in Seq(Nat), FileIncreasing(s), NEW part \in Nat
    PROVE  /\ FileManager!WithChild(s, part) \in Seq(Nat)
              /\ FileIncreasing(FileManager!WithChild(s, part))
           /\ FileManager!ToSet(FileManager!WithChild(s,
              part)) = FileManager!ToSet(s) \cup {part}
           /\ part \in FileManager!ToSet(s) => FileManager!WithChild(s, part) = s
<1>0. Len(s) \in Nat /\ DOMAIN s = 1 .. Len(s) /\ \A i \in DOMAIN s : s[i] \in Nat
  BY LenProperties
<1>1. CASE part \in FileManager!ToSet(s)
  BY <1>1 DEF FileManager!WithChild
<1>2. CASE part \notin FileManager!ToSet(s)
  <2>1. PICK m \in 0 .. Len(s) : /\ FileManager!Place(s, part) = m + 1
                                 /\ \A i \in 1 .. m : s[i] < part
                                 /\ m < Len(s) => ~(s[m + 1] < part)
    BY FilePlaceIs
  <2> DEFINE a == SubSeq(s, 1, m)
             c == SubSeq(s, m + 1, Len(s))
             e == <<part>>
             r == (a \o e) \o c
  <2>2. FileManager!WithChild(s, part) = r
    <3>1. (m + 1) - 1 = m
      BY <1>0
    <3> QED BY <1>2, <2>1, <3>1 DEF FileManager!WithChild, FileManager!InsertAt
  <2>3. e \in Seq(Nat) /\ Len(e) = 1 /\ e[1] = part
    OBVIOUS
  <2>4. a \in Seq(Nat) /\ Len(a) = m /\ \A i \in 1 .. m : a[i] = s[i]
    <3>1. m \in Nat /\ m <= Len(s) /\ 1 <= m + 1
      BY <1>0
    <3>2. /\ a \in Seq(Nat) /\ Len(a) = m - 1 + 1
          /\ \A i \in 1 .. m - 1 + 1 : a[i] = s[1 + i - 1]
      BY <3>1, Cut
    <3> HIDE DEF a
    <3> QED BY <3>1, <3>2
  <2>5. c \in Seq(Nat) /\ Len(c) = Len(s) - m /\ \A i \in 1 .. Len(s) - m : c[i] = s[m + i]
    <3> DEFINE k == m + 1
               n == Len(s)
    <3>1. k \in Nat \ {0} /\ n \in Nat /\ n <= Len(s) /\ k <= n + 1 /\ c = SubSeq(s, k, n)
      BY <1>0
    <3> HIDE DEF k, n, c
    <3>2. /\ c \in Seq(Nat) /\ Len(c) = n - k + 1
          /\ \A i \in 1 .. n - k + 1 : c[i] = s[k + i - 1]
      BY <3>1, Cut
    <3>3. n - k + 1 = Len(s) - m /\ \A i \in Nat : k + i - 1 = m + i
      BY <1>0 DEF k, n
    <3> QED BY <3>2, <3>3
  <2> HIDE DEF a, c, e
  <2> DEFINE ae == a \o e
  <2>6. /\ ae \in Seq(Nat) /\ Len(ae) = m + 1
        /\ \A i \in 1 .. m : ae[i] = s[i]
        /\ ae[m + 1] = part
    <3>1. /\ ae \in Seq(Nat) /\ Len(ae) = Len(a) + Len(e)
          /\ \A i \in 1 .. Len(a) : ae[i] = a[i]
          /\ \A i \in 1 .. Len(e) : ae[Len(a) + i] = e[i]
      <4>1. a \in Seq(Nat) /\ e \in Seq(Nat)
        BY <2>3, <2>4
      <4> QED BY <4>1, Joined
    <3> HIDE DEF ae
    <3> QED BY <2>3, <2>4, <3>1
  <2>7. r = ae \o c
    OBVIOUS
  <2> HIDE DEF ae, r
  <2>8. /\ r \in Seq(Nat) /\ DOMAIN r = 1 .. Len(s) + 1
        /\ \A i \in 1 .. m : r[i] = s[i]
        /\ r[m + 1] = part
        /\ \A i \in 1 .. Len(s) - m : r[(m + 1) + i] = s[m + i]
    <3>1. /\ r \in Seq(Nat) /\ DOMAIN r = 1 .. Len(ae) + Len(c)
          /\ \A i \in 1 .. Len(ae) : r[i] = ae[i]
          /\ \A i \in 1 .. Len(c) : r[Len(ae) + i] = c[i]
      <4>1. ae \in Seq(Nat) /\ c \in Seq(Nat)
        BY <2>5, <2>6
      <4> QED BY <2>7, <4>1, Joined
    <3>2. DOMAIN r = 1 .. Len(s) + 1
      BY <1>0, <2>5, <2>6, <3>1
    <3>3. ASSUME NEW i \in 1 .. m PROVE r[i] = s[i]
      <4>1. i \in 1 .. Len(ae)
        BY <2>6
      <4> QED BY <2>6, <3>1, <4>1
    <3>4. r[m + 1] = part
      <4>1. m + 1 \in 1 .. Len(ae)
        BY <2>6
      <4> QED BY <2>6, <3>1, <4>1
    <3>5. \A i \in 1 .. Len(s) - m : r[(m + 1) + i] = s[m + i]
      BY <2>5, <2>6, <3>1
    <3> QED BY <3>1, <3>2, <3>3, <3>4, <3>5
  <2> DEFINE at(i) == IF i <= m THEN i ELSE i - 1
  <2>9. ASSUME NEW i \in DOMAIN r, i # m + 1 PROVE at(i) \in DOMAIN s /\ r[i] = s[at(i)]
    <3>1. CASE i <= m
      <4>1. i \in 1 .. m
        BY <1>0, <2>8, <3>1
      <4> QED BY <1>0, <2>8, <3>1, <4>1
    <3>2. CASE i > m
      <4>0. /\ i \in Int /\ m \in Int /\ Len(s) \in Int /\ i <= Len(s) + 1 /\ i >= m + 2
        BY <1>0, <2>8, <2>9, <3>2
      <4>1. /\ i - (m + 1) \in 1 .. Len(s) - m
            /\ (m + 1) + (i - (m + 1)) = i
            /\ m + (i - (m + 1)) = i - 1
        <5> DEFINE n == Len(s)
        <5>1. i \in Int /\ m \in Int /\ n \in Int /\ i <= n + 1 /\ i >= m + 2
          BY <4>0
        <5> HIDE DEF n
        <5>2. i - (m + 1) \in 1 .. n - m
          BY <5>1
        <5>3. (m + 1) + (i - (m + 1)) = i
          BY <5>1
        <5>4. m + (i - (m + 1)) = i - 1
          BY <5>1
        <5> QED BY <5>2, <5>3, <5>4 DEF n
      <4>2. r[(m + 1) + (i - (m + 1))] = s[m + (i - (m + 1))]
        BY <2>8, <4>1
      <4>3. r[i] = s[i - 1]
        BY <4>1, <4>2
      <4>4. at(i) = i - 1 /\ i - 1 \in DOMAIN s
        BY <1>0, <2>8, <2>9, <3>2
      <4> QED BY <4>3, <4>4
    <3> QED BY <1>0, <2>8, <3>1, <3>2
  <2>10. ASSUME NEW i \in DOMAIN s, i > m PROVE part < s[i]
    <3>1. m + 1 \in DOMAIN s /\ ~(s[m + 1] < part)
      BY <1>0, <2>1, <2>10
    <3>2. s[m + 1] # part
      BY <1>2, <3>1 DEF FileManager!ToSet
    <3>3. s[m + 1] <= s[i]
      <4>1. CASE i = m + 1
        BY <1>0, <4>1
      <4>2. CASE i # m + 1
        <5>1. m + 1 < i
          BY <1>0, <2>10, <4>2
        <5> QED BY <1>0, <3>1, <5>1 DEF FileIncreasing
      <4> QED BY <4>1, <4>2
    <3> QED BY <1>0, <3>1, <3>2, <3>3
  <2>11. FileIncreasing(r)
    <3> SUFFICES ASSUME NEW i \in DOMAIN r, NEW j \in DOMAIN r, i < j PROVE r[i] < r[j]
      BY DEF FileIncreasing
    <3>1. CASE i = m + 1
      <4>1. j # m + 1 /\ at(j) > m
        BY <1>0, <2>8, <3>1
      <4> QED BY <2>8, <2>9, <2>10, <3>1, <4>1
    <3>2. CASE j = m + 1
      <4>1. i \in 1 .. m
        BY <1>0, <2>8, <3>2
      <4> QED BY <2>1, <2>8, <3>2, <4>1
    <3>3. CASE i # m + 1 /\ j # m + 1
      <4>1. at(i) < at(j)
        BY <1>0, <2>8, <3>3, SMTT(30)
      <4> QED BY <2>9, <3>3, <4>1 DEF FileIncreasing
    <3> QED BY <3>1, <3>2, <3>3
  <2>12. FileManager!ToSet(r) = FileManager!ToSet(s) \cup {part}
    <3>1. ASSUME NEW i \in DOMAIN r PROVE r[i] \in FileManager!ToSet(s) \cup {part}
      BY <2>8, <2>9 DEF FileManager!ToSet
    <3>2. ASSUME NEW i \in DOMAIN s PROVE s[i] \in FileManager!ToSet(r)
      <4>1. CASE i <= m
        <5>1. i \in 1 .. m /\ i \in DOMAIN r
          BY <1>0, <2>8, <4>1
        <5> QED BY <2>8, <5>1 DEF FileManager!ToSet
      <4>2. CASE i > m
        <5>0. i \in 1 .. Len(s) /\ m \in Nat
          BY <1>0
        <5>1. i - m \in 1 .. Len(s) - m /\ (m + 1) + (i - m) = i + 1 /\ m + (i - m) = i
              /\ i + 1 \in DOMAIN r
          <6>1. i - m \in 1 .. Len(s) - m
            BY <1>0, <4>2, <5>0
          <6>2. (m + 1) + (i - m) = i + 1 /\ m + (i - m) = i
            BY <5>0
          <6>3. i + 1 \in DOMAIN r
            BY <1>0, <2>8, <5>0
          <6> QED BY <6>1, <6>2, <6>3
        <5>2. r[i + 1] = s[i]
          BY <2>8, <5>1
        <5> QED BY <5>1, <5>2 DEF FileManager!ToSet
      <4> QED BY <1>0, <4>1, <4>2
    <3>3. part \in FileManager!ToSet(r)
      <4>1. m + 1 \in DOMAIN r
        BY <1>0, <2>8
      <4> QED BY <2>8, <4>1 DEF FileManager!ToSet
    <3> QED BY <3>1, <3>2, <3>3 DEF FileManager!ToSet
  <2> QED BY <1>2, <2>2, <2>8, <2>11, <2>12
<1> QED BY <1>1, <1>2

-----------------------------------------------------------------------------
(* The s9.                                                               *)

FileChildrenIn(nodes, p) == {q \in DOMAIN nodes : q # FileManager!Root
   /\ FileManager!Front(q) = p}

\* Every node has those of the tree that are one part longer for its children, in order.
FileTreeOk(nodes) ==
    /\ DOMAIN nodes \subseteq Seq(Nat) /\ FileManager!Root \in DOMAIN nodes
    /\ nodes = [p \in DOMAIN nodes |-> nodes[p]]
    /\ \A p \in DOMAIN nodes : nodes[p] \in Seq(Nat) /\ FileIncreasing(nodes[p])
    /\ \A p \in DOMAIN nodes : \A c \in Nat :
          c \in FileManager!ToSet(nodes[p]) <=> Append(p, c) \in DOMAIN nodes
    /\ \A q \in DOMAIN nodes : q # FileManager!Root => FileManager!Front(q) \in DOMAIN nodes

\* A path and what it is made of.
LEMMA FilePathIs ==
    ASSUME NEW p \in Seq(Nat), NEW c \in Nat
    PROVE  /\ Append(p, c) \in Seq(Nat) /\ Append(p, c) # FileManager!Root
           /\ FileManager!Front(Append(p, c)) = p /\ FileManager!Last(Append(p, c)) = c
              /\ Append(p, c) # p
<1> DEFINE e == <<c>>
           q == p \o e
<1>1. e \in Seq(Nat) /\ Len(e) = 1
  OBVIOUS
<1>2. /\ Append(p, c) \in Seq(Nat) /\ Len(Append(p, c)) = Len(p) + 1 /\ Append(p, c) # <<>>
      /\ Append(p, c)[Len(p) + 1] = c
  BY AppendProperties
<1>3. Append(p, c) = q
  BY AppendIsConcat
<1>4. Len(p) \in Nat
  BY LenProperties
<1>5. SubSeq(q, 1, Len(p)) = p
  <2> HIDE DEF e
  <2> QED BY <1>1, PartsOf
<1>6. Len(q) - 1 = Len(p) /\ Len(q) # Len(p) /\ Len(q) = Len(p) + 1
  BY <1>2, <1>3, <1>4
<1> HIDE DEF q
<1>7. FileManager!Front(q) = p
  BY <1>5, <1>6 DEF FileManager!Front
<1>8. FileManager!Last(q) = c
  BY <1>2, <1>3, <1>6 DEF FileManager!Last
<1> QED BY <1>2, <1>3, <1>6, <1>7, <1>8 DEF FileManager!Root

\* A path is that of its parent and its last part.
LEMMA FilePathOf ==
    ASSUME NEW q \in Seq(Nat), q # FileManager!Root
    PROVE  FileManager!Front(q) \in Seq(Nat) /\ FileManager!Last(q) \in Nat
           /\ q = Append(FileManager!Front(q), FileManager!Last(q))
<1>1. Len(q) \in Nat /\ Len(q) # 0 /\ FileManager!Last(q) \in Nat
  BY LenProperties, EmptySeq DEF FileManager!Root, FileManager!Last
<1> DEFINE n == Len(q) - 1
           f == SubSeq(q, 1, n)
           t == Append(f, FileManager!Last(q))
<1>2. n \in Nat /\ n <= Len(q) /\ 1 <= n + 1
  BY <1>1
<1>3. f \in Seq(Nat) /\ Len(f) = n /\ \A i \in 1 .. n : f[i] = q[i]
  <2>1. /\ f \in Seq(Nat) /\ Len(f) = n - 1 + 1
        /\ \A i \in 1 .. n - 1 + 1 : f[i] = q[1 + i - 1]
    <3> HIDE DEF n
    <3> QED BY <1>2, Cut
  <2> HIDE DEF f
  <2> QED BY <1>2, <2>1
<1>4. FileManager!Front(q) = f
  BY DEF FileManager!Front
<1> HIDE DEF f
<1>5. /\ t \in Seq(Nat) /\ Len(t) = n + 1 /\ t[n + 1] = FileManager!Last(q)
      /\ \A i \in 1 .. n : t[i] = f[i]
  BY <1>1, <1>3, AppendProperties
<1> HIDE DEF t
<1>6. Len(t) = Len(q) /\ n + 1 = Len(q)
  BY <1>1, <1>5
<1>7. ASSUME NEW i \in 1 .. Len(t) PROVE t[i] = q[i]
  <2>1. CASE i = Len(q)
    BY <1>5, <1>6, <2>1 DEF FileManager!Last
  <2>2. CASE i # Len(q)
    <3>1. i \in 1 .. n
      BY <1>1, <1>6, <2>2
    <3> QED BY <1>3, <1>5, <3>1
  <2> QED BY <2>1, <2>2
<1>8. t = q
  BY <1>5, <1>6, <1>7, SeqEqual
<1> QED BY <1>1, <1>3, <1>4, <1>8 DEF t

\* A tree with the child of one node.
FileAdded(nodes, node, part, path) ==
    [p \in DOMAIN nodes \cup {path} |->
        IF p = node THEN FileManager!WithChild(nodes[node], part)
        ELSE IF p \in DOMAIN nodes THEN nodes[p] ELSE <<>>]

\* A node that is added to a tree that is right.
LEMMA FileNodeAdded ==
    ASSUME NEW nodes, FileTreeOk(nodes), NEW node \in DOMAIN nodes, NEW part \in Nat
    PROVE  /\ FileTreeOk(FileAdded(nodes, node, part, Append(node, part)))
           /\ DOMAIN FileAdded(nodes, node, part, Append(node, part)) =
                 DOMAIN nodes \cup {Append(node, part)}
<1> DEFINE path == Append(node, part)
           r == FileAdded(nodes, node, part, path)
<1>01. path = Append(node, part) /\ r = FileAdded(nodes, node, part, path)
  OBVIOUS
<1> SUFFICES FileTreeOk(r) /\ DOMAIN r = DOMAIN nodes \cup {path}
  OBVIOUS
<1> HIDE DEF path, r
<1>0. /\ DOMAIN nodes \subseteq Seq(Nat) /\ FileManager!Root \in DOMAIN nodes
      /\ \A p \in DOMAIN nodes : nodes[p] \in Seq(Nat) /\ FileIncreasing(nodes[p])
      /\ \A p \in DOMAIN nodes : \A c \in Nat :
            c \in FileManager!ToSet(nodes[p]) <=> Append(p, c) \in DOMAIN nodes
      /\ \A q \in DOMAIN nodes : q # FileManager!Root => FileManager!Front(q) \in DOMAIN nodes
  BY DEF FileTreeOk
<1>1. /\ path \in Seq(Nat) /\ path # FileManager!Root /\ FileManager!Front(path) = node
         /\ FileManager!Last(path) = part /\ path # node
  BY <1>0, <1>01, FilePathIs
<1> DEFINE w == FileManager!WithChild(nodes[node], part)
<1>2. /\ w \in Seq(Nat) /\ FileIncreasing(w)
         /\ FileManager!ToSet(w) = FileManager!ToSet(nodes[node]) \cup {part}
      /\ part \in FileManager!ToSet(nodes[node]) => w = nodes[node]
  BY <1>0, FileWithChildIs
<1> HIDE DEF w
<1>3. /\ DOMAIN r = DOMAIN nodes \cup {path} /\ r = [p \in DOMAIN r |-> r[p]]
      /\ r[node] = w
      /\ \A p \in DOMAIN nodes : p # node => r[p] = nodes[p]
      /\ path \notin DOMAIN nodes => r[path] = <<>>
  BY <1>01, <1>1 DEF w, FileAdded
<1>4. path \in DOMAIN nodes => r[path] = nodes[path]
  BY <1>1, <1>3
<1>5. <<>> \in Seq(Nat) /\ DOMAIN <<>> = {}
  BY EmptySeq
<1>6. \A p \in DOMAIN r : r[p] \in Seq(Nat) /\ FileIncreasing(r[p])
  <2>1. FileIncreasing(<<>>)
    BY <1>5 DEF FileIncreasing
  <2> QED BY <1>0, <1>2, <1>3, <1>5, <2>1
<1>7. ASSUME NEW p \in DOMAIN r, NEW c \in Nat
      PROVE  c \in FileManager!ToSet(r[p]) <=> Append(p, c) \in DOMAIN r
  <2>0. p \in Seq(Nat)
    BY <1>0, <1>1, <1>3
  <2>1. Append(p, c) = path <=> p = node /\ c = part
    <3>1. FileManager!Front(Append(p, c)) = p /\ FileManager!Last(Append(p, c)) = c
      BY <2>0, FilePathIs
    <3> QED BY <1>01, <1>1, <3>1
  <2>2. CASE p = node
    BY <1>0, <1>2, <1>3, <2>1, <2>2
  <2>3. CASE p # node /\ p \in DOMAIN nodes
    BY <1>0, <1>3, <2>1, <2>3
  <2>4. CASE p \notin DOMAIN nodes
    <3>1. p = path /\ r[p] = <<>>
      BY <1>3, <2>4
    <3>2. c \notin FileManager!ToSet(<<>>)
      BY <1>5 DEF FileManager!ToSet
    <3>3. FileManager!Front(Append(p, c)) = p /\ Append(p, c) # FileManager!Root
      BY <2>0, FilePathIs
    <3>4. Append(p, c) \notin DOMAIN nodes
      BY <1>0, <2>4, <3>3
    <3>5. Append(p, c) # path
      BY <2>0, <3>1, FilePathIs
    <3> QED BY <1>3, <3>1, <3>2, <3>4, <3>5
  <2> QED BY <2>2, <2>3, <2>4
<1>8. \A q \in DOMAIN r : q # FileManager!Root => FileManager!Front(q) \in DOMAIN r
  BY <1>0, <1>1, <1>3
<1>9. DOMAIN r \subseteq Seq(Nat) /\ FileManager!Root \in DOMAIN r
  BY <1>0, <1>1, <1>3
<1> QED BY <1>3, <1>6, <1>7, <1>8, <1>9 DEF FileTreeOk

\* The nodes of the first k parts of a group
FileNodesTo(group, k) ==
    {SubSeq(group, 1, n) : n \in {i \in 1 .. k : ~(i = Len(group) /\ group[i] = 0)}}

\* One level of add_group: the node of the next part, unless that is empty and the last.
LEMMA FileLevelIs ==
    ASSUME NEW group \in Seq(Nat), NEW k \in 0 .. Len(group) - 1,
           NEW nodes, FileTreeOk(nodes), SubSeq(group, 1, k) \in DOMAIN nodes
    PROVE  /\ FileTreeOk(FileManager!Level(nodes, group, k + 1))
           /\ DOMAIN FileManager!Level(nodes, group, k + 1) =
                 DOMAIN nodes \cup {SubSeq(group, 1, n) :
                    n \in {i \in {k + 1} : ~(i = Len(group) /\ group[i] = 0)}}
<1> DEFINE n == k + 1
           node == SubSeq(group, 1, k)
           path == SubSeq(group, 1, n)
           part == group[n]
           r == FileAdded(nodes, node, part, path)
<1>0. n - 1 = k
  BY LenProperties
<1>1. CASE n = Len(group) /\ group[n] = 0
  <2>1. FileManager!Level(nodes, group, n) = nodes
    BY <1>1 DEF FileManager!Level
  <2> QED BY <1>1, <2>1
<1>2. CASE ~(n = Len(group) /\ group[n] = 0)
  <2>1. FileManager!Level(nodes, group, n) = r
    BY <1>0, <1>2 DEF FileManager!Level, FileAdded
  <2>2. node \in DOMAIN nodes /\ part \in Nat /\ path = Append(node, part)
    BY PrefixIs
  <2>3. r = FileAdded(nodes, node, part, path)
    OBVIOUS
  <2> HIDE DEF node, path, part, r
  <2>4. FileTreeOk(r) /\ DOMAIN r = DOMAIN nodes \cup {path}
    <3>1. /\ FileTreeOk(FileAdded(nodes, node, part, Append(node, part)))
          /\ DOMAIN FileAdded(nodes, node, part, Append(node, part)) =
                DOMAIN nodes \cup {Append(node, part)}
      BY <2>2, FileNodeAdded
    <3>2. FileAdded(nodes, node, part, path) = FileAdded(nodes, node, part, Append(node, part))
      BY <2>2
    <3> QED BY <2>2, <2>3, <3>1, <3>2
  <2>5. {SubSeq(group, 1, m) : m \in {i \in {n} : ~(i = Len(group) /\ group[i] = 0)}} = {path}
    BY <1>2 DEF path
  <2> QED BY <2>1, <2>4, <2>5
<1> QED BY <1>1, <1>2

\* A group adds its nodes.
LEMMA FileAddGroup ==
    ASSUME NEW t, FileTreeOk(t), NEW group \in Seq(Nat)
    PROVE  /\ FileTreeOk(FileManager!add_group(t, group))
           /\ DOMAIN FileManager!add_group(t, group) = DOMAIN t \cup FileNodesTo(group,
              Len(group))
<1> DEFINE N == Len(group)
           Body(h) == [k \in 0 .. N |-> IF k = 0 THEN t
              ELSE FileManager!Level(h[k - 1], group, k)]
           f == CHOOSE h : h = Body(h)
           Good(k) == \E h : /\ h = [n \in 0 .. k |-> h[n]] /\ h[0] = t
                             /\ \A n \in 1 .. k : h[n] = FileManager!Level(h[n - 1], group, n)
           G == {k \in 0 .. N : Good(k)}
<1>0. N \in Nat
  BY LenProperties
<1>1. FileManager!add_group(t, group) = f[N]
  BY DEF FileManager!add_group
<1>2. Good(0)
  <2> DEFINE h == [n \in 0 .. 0 |-> t]
  <2>1. h = [n \in 0 .. 0 |-> h[n]] /\ h[0] = t
        /\ \A n \in 1 .. 0 : h[n] = FileManager!Level(h[n - 1], group, n)
    OBVIOUS
  <2> HIDE DEF h
  <2> QED BY <2>1
<1>3. ASSUME NEW k \in 0 .. N - 1, Good(k) PROVE Good(k + 1)
  <2>1. PICK h : /\ h = [n \in 0 .. k |-> h[n]] /\ h[0] = t
                 /\ \A n \in 1 .. k : h[n] = FileManager!Level(h[n - 1], group, n)
    BY <1>3
  <2> DEFINE g == [n \in 0 .. k + 1 |-> IF n = k + 1
      THEN FileManager!Level(h[k], group, n) ELSE h[n]]
  <2>2. g = [n \in 0 .. k + 1 |-> g[n]] /\ g[k + 1] = FileManager!Level(h[k], group, k + 1)
        /\ \A n \in 0 .. k : g[n] = h[n]
    BY <1>0
  <2> HIDE DEF g
  <2>3. ASSUME NEW n \in 1 .. k + 1 PROVE g[n] = FileManager!Level(g[n - 1], group, n)
    <3>1. CASE n = k + 1
      <4>1. n - 1 = k /\ k \in 0 .. k
        BY <1>0, <3>1
      <4> QED BY <2>2, <3>1, <4>1
    <3>2. CASE n # k + 1
      <4>1. n \in 1 .. k /\ n \in 0 .. k /\ n - 1 \in 0 .. k
        BY <1>0, <3>2
      <4> QED BY <2>1, <2>2, <4>1
    <3> QED BY <3>1, <3>2
  <2>4. g[0] = t
    <3>1. 0 \in 0 .. k
      BY <1>0
    <3> QED BY <2>1, <2>2, <3>1
  <2> QED BY <2>2, <2>3, <2>4
<1>4. Good(N)
  <2>1. 0 \in G /\ \A k \in 0 .. N - 1 : k \in G => k + 1 \in G
    <3> HIDE DEF Good
    <3> QED BY <1>0, <1>2, <1>3
  <2>2. N \in 0 .. N
    BY <1>0
  <2> HIDE DEF G
  <2>3. 0 .. N \subseteq G
    BY <1>0, <2>1, UpTo
  <2>4. N \in G
    BY <2>2, <2>3
  <2> HIDE DEF Good, N
  <2> QED BY <2>4 DEF G
<1>5. PICK g : /\ g = [n \in 0 .. N |-> g[n]] /\ g[0] = t
               /\ \A n \in 1 .. N : g[n] = FileManager!Level(g[n - 1], group, n)
  BY <1>4
<1> HIDE DEF N
<1>6. g = Body(g)
  <2>1. \A n \in 0 .. N : g[n] = IF n = 0 THEN t ELSE FileManager!Level(g[n - 1], group, n)
    <3>1. ASSUME NEW n \in 0 .. N, n # 0 PROVE g[n] = FileManager!Level(g[n - 1], group, n)
      <4>1. n \in 1 .. N
        BY <1>0, <3>1
      <4> QED BY <1>5, <4>1
    <3> QED BY <1>5, <3>1
  <2> QED BY <1>5, <2>1
<1>7. f = Body(f)
  BY <1>6
<1> HIDE DEF f
<1>8. f[0] = t /\ \A n \in 1 .. N : f[n] = FileManager!Level(f[n - 1], group, n)
  <2>1. \A n \in 0 .. N : f[n] = IF n = 0 THEN t ELSE FileManager!Level(f[n - 1], group, n)
    BY <1>7
  <2> QED BY <1>0, <2>1
<1> DEFINE P == {k \in 0 .. N : FileTreeOk(f[k])
    /\ DOMAIN f[k] = DOMAIN t \cup FileNodesTo(group, k)}
<1>9. 0 \in P
  <2>1. FileNodesTo(group, 0) = {}
    BY DEF FileNodesTo
  <2> QED BY <1>0, <1>8, <2>1
<1>10. ASSUME NEW k \in 0 .. N - 1, k \in P PROVE k + 1 \in P
  <2>1. FileTreeOk(f[k]) /\ DOMAIN f[k] = DOMAIN t \cup FileNodesTo(group, k)
    BY <1>10
  <2>2. SubSeq(group, 1, k) \in DOMAIN f[k]
    <3>1. CASE k = 0
      <4>1. SubSeq(group, 1, k) = FileManager!Root
        BY <3>1, SubSeqEmpty DEF FileManager!Root
      <4> QED BY <2>1, <4>1 DEF FileTreeOk
    <3>2. CASE k # 0
      <4>1. k \in 1 .. k /\ ~(k = Len(group))
        BY <1>0, <3>2 DEF N
      <4>2. SubSeq(group, 1, k) \in FileNodesTo(group, k)
        BY <4>1 DEF FileNodesTo
      <4> QED BY <2>1, <4>2
    <3> QED BY <3>1, <3>2
  <2>3. k + 1 \in 1 .. N /\ (k + 1) - 1 = k /\ k \in 0 .. Len(group) - 1
    BY <1>0 DEF N
  <2>4. f[k + 1] = FileManager!Level(f[k], group, k + 1)
    BY <1>8, <2>3
  <2>5. /\ FileTreeOk(f[k + 1])
        /\ DOMAIN f[k + 1] = DOMAIN f[k] \cup {SubSeq(group, 1, n) :
                    n \in {i \in {k + 1} : ~(i = Len(group) /\ group[i] = 0)}}
    BY <2>1, <2>2, <2>3, <2>4, FileLevelIs
  <2>6. {i \in 1 .. k + 1 : ~(i = Len(group) /\ group[i] = 0)} =
           {i \in 1 .. k : ~(i = Len(group) /\ group[i] = 0)}
              \cup {i \in {k + 1} : ~(i = Len(group) /\ group[i] = 0)}
    BY <1>0
  <2>7. FileNodesTo(group, k + 1) = FileNodesTo(group, k) \cup {SubSeq(group, 1, n) :
                    n \in {i \in {k + 1} : ~(i = Len(group) /\ group[i] = 0)}}
    BY <2>6 DEF FileNodesTo
  <2>8. k + 1 \in 0 .. N
    BY <1>0
  <2> QED BY <2>1, <2>5, <2>7, <2>8
<1>11. FileTreeOk(f[N]) /\ DOMAIN f[N] = DOMAIN t \cup FileNodesTo(group, N)
  <2>1. N \in 0 .. N
    BY <1>0
  <2>2. 0 \in P /\ \A k \in 0 .. N - 1 : k \in P => k + 1 \in P
    BY <1>9, <1>10
  <2> HIDE DEF P
  <2>3. 0 .. N \subseteq P
    BY <1>0, <2>2, UpTo
  <2>4. N \in P
    BY <2>1, <2>3
  <2> QED BY <2>4 DEF P
<1> QED BY <1>1, <1>11 DEF N

-----------------------------------------------------------------------------
(* The invariant.                                                          *)

FileListRight == s8 \in Seq(Groups) /\ FileManager!ToSet(s8) = s7 /\ FileManager!IsInjective(s8)

FileGroupsInv ==
    /\ s7 \subseteq Groups
    /\ FileTreeOk(s9)
    /\ DOMAIN s9 = {FileManager!Root} \cup UNION {FileManager!Nodes(g) : g \in s7}
    /\ FileListRight

\* The nodes of a group are those of its parts.
LEMMA FileNodesAre ==
    ASSUME NEW g \in Groups
    PROVE  g \in Seq(Nat) /\ FileManager!Nodes(g) = FileNodesTo(g, Len(g))
<1>1. g \in Seq(Nat) /\ g # <<>>
  BY FileGroupsAssumption
<1>2. Len(g) \in Nat /\ Len(g) # 0
  BY <1>1, LenProperties, EmptySeq
<1>3. {i \in 1 .. Len(g) : ~(i = Len(g) /\ g[i] = 0)} =
         1 .. IF FileManager!Last(g) = 0 THEN Len(g) - 1 ELSE Len(g)
  BY <1>2 DEF FileManager!Last
<1> QED BY <1>1, <1>3 DEF FileManager!Nodes, FileNodesTo

\* The tree starts with its root.
LEMMA FileGroupsInit == ASSUME s7 = {}, s8 = <<>>, s9 = FileManager!Bare PROVE FileGroupsInv
<1>1. <<>> \in Seq(Nat) /\ <<>> \in Seq(Groups) /\ DOMAIN <<>> = {}
  BY EmptySeq
<1>2. DOMAIN s9 = {FileManager!Root} /\ s9[FileManager!Root] = <<>> /\ FileManager!Root = <<>>
  BY DEF FileManager!Bare, FileManager!Root
<1>3. s9 = [p \in (DOMAIN s9) |-> s9[p]]
  BY <1>2 DEF FileManager!Bare
<1>4. FileIncreasing(<<>>) /\ \A c \in Nat : c \notin FileManager!ToSet(<<>>)
  BY <1>1 DEF FileIncreasing, FileManager!ToSet
<1>5. \A c \in Nat : Append(FileManager!Root, c) \notin DOMAIN s9
  BY <1>1, <1>2, FilePathIs
<1>6. FileTreeOk(s9)
  BY <1>1, <1>2, <1>3, <1>4, <1>5 DEF FileTreeOk
<1>7. FileListRight
  BY <1>1 DEF FileListRight, FileManager!ToSet, FileManager!IsInjective
<1> QED BY <1>2, <1>6, <1>7 DEF FileGroupsInv

\* A group that is read goes to the list and to the tree.
LEMMA FileGroupsRead ==
    ASSUME FileGroupsInv, NEW g \in Groups \ s7, s7' = s7 \cup {g},
           s8' = FileManager!get_groups(s8, g), s9' = FileManager!add_group(s9, g)
    PROVE  FileGroupsInv'
<1>1. g \in Seq(Nat) /\ FileManager!Nodes(g) = FileNodesTo(g, Len(g))
  BY FileNodesAre
<1>2. FileTreeOk(s9)
      /\ DOMAIN s9 = {FileManager!Root} \cup UNION {FileManager!Nodes(h) : h \in s7}
  BY DEF FileGroupsInv
<1>3. FileTreeOk(s9') /\ DOMAIN s9' = DOMAIN s9 \cup FileManager!Nodes(g)
  BY <1>1, <1>2, FileAddGroup
<1>4. DOMAIN s9' = {FileManager!Root} \cup UNION {FileManager!Nodes(h) : h \in s7'}
  BY <1>2, <1>3
<1>5. s8 \in Seq(Groups) /\ FileManager!ToSet(s8) = s7 /\ FileManager!IsInjective(s8)
  BY DEF FileGroupsInv, FileListRight
<1>6. s8' = Append(s8, g)
  BY <1>5 DEF FileManager!get_groups
<1>7. /\ s8' \in Seq(Groups) /\ Len(s8') = Len(s8) + 1
      /\ s8'[Len(s8) + 1] = g /\ \A i \in 1 .. Len(s8) : s8'[i] = s8[i]
  BY <1>5, <1>6, AppendProperties
<1>8. /\ Len(s8) \in Nat /\ DOMAIN s8 = 1 .. Len(s8)
      /\ DOMAIN s8' = 1 .. Len(s8) + 1
  BY <1>5, <1>7, LenProperties
<1>9. \A i \in DOMAIN s8 : s8[i] \in s7
  BY <1>5 DEF FileManager!ToSet
<1>10. FileManager!ToSet(s8') = s7 \cup {g}
  <2>1. ASSUME NEW i \in DOMAIN s8' PROVE s8'[i] \in s7 \cup {g}
    <3>1. CASE i = Len(s8) + 1
      BY <1>7, <3>1
    <3>2. CASE i # Len(s8) + 1
      <4>1. i \in 1 .. Len(s8)
        BY <1>8, <3>2
      <4> QED BY <1>7, <1>8, <1>9, <4>1
    <3> QED BY <3>1, <3>2
  <2>2. ASSUME NEW x \in s7 PROVE x \in FileManager!ToSet(s8')
    <3>1. PICK i \in DOMAIN s8 : s8[i] = x
      BY <1>5 DEF FileManager!ToSet
    <3>2. i \in DOMAIN s8' /\ s8'[i] = x
      BY <1>7, <1>8, <3>1
    <3> QED BY <3>2 DEF FileManager!ToSet
  <2>3. g \in FileManager!ToSet(s8')
    <3>1. Len(s8) + 1 \in DOMAIN s8'
      BY <1>8
    <3> QED BY <1>7, <3>1 DEF FileManager!ToSet
  <2> QED BY <2>1, <2>2, <2>3 DEF FileManager!ToSet
<1>11. FileManager!IsInjective(s8')
  <2> SUFFICES ASSUME NEW i \in DOMAIN s8', NEW j \in DOMAIN s8', s8'[i] = s8'[j] PROVE i = j
    BY DEF FileManager!IsInjective
  <2>1. ASSUME NEW n \in DOMAIN s8' PROVE n = Len(s8) + 1 \/ (n \in DOMAIN s8 /\ s8'[n] = s8[n])
    BY <1>7, <1>8
  <2>2. CASE i = Len(s8) + 1
    BY <1>7, <1>9, <2>1, <2>2
  <2>3. CASE j = Len(s8) + 1
    BY <1>7, <1>9, <2>1, <2>3
  <2>4. CASE i \in DOMAIN s8 /\ j \in DOMAIN s8
    BY <1>5, <2>1, <2>2, <2>3, <2>4 DEF FileManager!IsInjective
  <2> QED BY <2>1, <2>2, <2>3, <2>4
<1>12. FileListRight'
  BY <1>7, <1>10, <1>11 DEF FileListRight
<1> QED BY <1>3, <1>4, <1>12 DEF FileGroupsInv

\* A tree and a list that are right are what TreeRight says.
LEMMA FileTreeIs == ASSUME FileGroupsInv PROVE FileManager!TreeRight
   /\ FileManager!Root \in DOMAIN s9 /\ FileManager!ToSet(s8) \subseteq Groups
<1>1. FileTreeOk(s9)
      /\ DOMAIN s9 = {FileManager!Root} \cup UNION {FileManager!Nodes(g) : g \in s7}
      /\ FileListRight
      /\ s7 \subseteq Groups
  BY DEF FileGroupsInv
<1>2. ASSUME NEW p \in DOMAIN s9
      PROVE  /\ \A i, j \in DOMAIN s9[p] : i < j => s9[p][i] < s9[p][j]
             /\ {Append(p,
                c) : c \in FileManager!ToSet(s9[p])}
                = {q \in DOMAIN s9 : q # FileManager!Root /\ FileManager!Front(q) = p}
  <2>1. p \in Seq(Nat) /\ s9[p] \in Seq(Nat) /\ FileIncreasing(s9[p])
        /\ \A c \in Nat : c \in FileManager!ToSet(s9[p]) <=> Append(p, c) \in DOMAIN s9
    BY <1>1 DEF FileTreeOk
  <2>2. FileManager!ToSet(s9[p]) \subseteq Nat
    BY <2>1, LenProperties DEF FileManager!ToSet
  <2>3. ASSUME NEW c \in FileManager!ToSet(s9[p])
        PROVE  Append(p, c) \in DOMAIN s9 /\ Append(p, c) # FileManager!Root
               /\ FileManager!Front(Append(p, c)) = p
    BY <2>1, <2>2, FilePathIs
  <2>4. ASSUME NEW q \in DOMAIN s9, q # FileManager!Root, FileManager!Front(q) = p
        PROVE  \E c \in FileManager!ToSet(s9[p]) : q = Append(p, c)
    <3>1. q \in Seq(Nat)
      BY <1>1 DEF FileTreeOk
    <3>2. FileManager!Last(q) \in Nat /\ q = Append(p, FileManager!Last(q))
      BY <2>4, <3>1, FilePathOf
    <3> QED BY <2>1, <3>2
  <2> QED BY <2>1, <2>3, <2>4, ZenonT(30) DEF FileIncreasing
<1>3. FileManager!Root \in DOMAIN s9
  BY <1>1
<1> QED BY <1>1, <1>2, <1>3 DEF FileManager!TreeRight, FileListRight

FileInv == FileFolderInv /\ FileGroupsInv

\* It holds at the start of the program.
LEMMA FileInitInv == ASSUME FileManager!Init PROVE FileInv
<1>1. FileGroupsInv
  BY FileGroupsInit DEF FileManager!Init
<1>2. FileFolderTyped
  BY DEF FileManager!Init, FileFolderTyped, FileManager!Dirs, FileManager!Contents
<1> QED BY <1>1, <1>2 DEF FileManager!Init, FileInv, FileFolderInv, FileManager!ProfilesKept

\* Every step keeps it.
LEMMA FileStepInv == ASSUME FileInv, [FileManager!Next]_(FileManager!vars) PROVE FileInv'
<1>1. CASE FileMoves /\ UNCHANGED FileManager!groups
  <2>1. FileFolderInv'
    BY <1>1, FileFolderStep DEF FileInv
  <2> QED BY <1>1, <2>1 DEF FileInv, FileManager!groups, FileGroupsInv, FileListRight
<1>2. CASE FileManager!Read
  <2>1. PICK g \in Groups \ s7 : s7' = s7 \cup {g} /\ s8' = FileManager!get_groups(s8, g)
                                   /\ s9' = FileManager!add_group(s9, g)
    BY <1>2 DEF FileManager!Read
  <2>2. UNCHANGED FileManager!folder
    BY <1>2 DEF FileManager!Read
  <2>3. FileGroupsInv'
    BY <2>1, FileGroupsRead DEF FileInv
  <2> QED BY <2>2, <2>3 DEF FileInv, FileManager!folder, FileFolderInv, FileFolderTyped,
     FileManager!ProfilesKept, FileManager!Here
<1>3. CASE FileManager!ReadEnd
  <2>1. s7' = {} /\ s8' = <<>> /\ s9' = FileManager!Bare /\ UNCHANGED FileManager!folder
    BY <1>3 DEF FileManager!ReadEnd
  <2>2. FileGroupsInv'
    <3>1. (s7 = {} /\ s8 = <<>> /\ s9 = FileManager!Bare => FileGroupsInv)'
      BY FileGroupsInit, PTL
    <3> QED BY <2>1, <3>1 DEF FileManager!Bare, FileManager!Root
  <2> QED BY <2>1, <2>2 DEF FileInv, FileManager!folder, FileFolderInv, FileFolderTyped,
     FileManager!ProfilesKept, FileManager!Here
<1>4. CASE UNCHANGED FileManager!vars
  BY <1>4 DEF FileManager!vars, FileManager!folder, FileManager!groups, FileInv,
     FileFolderInv, FileFolderTyped, FileManager!ProfilesKept, FileManager!Here,
     FileGroupsInv, FileListRight
<1> QED BY <1>1, <1>2, <1>3, <1>4 DEF FileManager!Next, FileMoves

\* What it says of the profile and of the tree.
LEMMA FileInvMeans == ASSUME FileInv PROVE FileManager!TypeOK
   /\ FileManager!ProfilesKept /\ FileManager!TreeRight
<1>1. FileManager!TreeRight /\ FileManager!Root \in DOMAIN s9
      /\ FileManager!ToSet(s8) \subseteq Groups
  BY FileTreeIs DEF FileInv
<1> QED BY <1>1 DEF FileInv, FileFolderInv, FileFolderTyped, FileGroupsInv,
   FileManager!TypeOK

-----------------------------------------------------------------------------
(* What is typed or imported (src/src/remmina_exec.c, remmina_main.c).     *)
(* The variables: s1 meant, s2 opened, s3 typed, s4 protocol, s5 import.   *)

\* What is in a text of two parts, or of one word.
LEMMA QuickHasJoined ==
    ASSUME NEW S, NEW a \in Seq(S), NEW b \in Seq(S), NEW c
    PROVE  QuickConnect!Has(a \o b, c) <=> QuickConnect!Has(a, c) \/ QuickConnect!Has(b, c)
<1> DEFINE t == a \o b
<1>1. Len(a) \in Nat /\ Len(b) \in Nat
  BY LenProperties
<1>2. /\ t \in Seq(S) /\ Len(t) = Len(a) + Len(b)
      /\ \A i \in 1 .. Len(a) : t[i] = a[i]
      /\ \A i \in 1 .. Len(b) : t[Len(a) + i] = b[i]
  BY Joined
<1> HIDE DEF t
<1>3. ASSUME NEW i \in 1 .. Len(t), t[i] = c PROVE QuickConnect!Has(a, c)
             \/ QuickConnect!Has(b, c)
  <2>1. CASE i <= Len(a)
    <3>1. i \in 1 .. Len(a)
      BY <1>1, <1>2, <2>1
    <3> QED BY <1>2, <1>3, <3>1 DEF QuickConnect!Has, QuickConnect!Contains
  <2>2. CASE i > Len(a)
    <3>1. i - Len(a) \in 1 .. Len(b) /\ Len(a) + (i - Len(a)) = i
      BY <1>1, <1>2, <2>2
    <3> QED BY <1>2, <1>3, <3>1 DEF QuickConnect!Has, QuickConnect!Contains
  <2> QED BY <1>1, <1>2, <2>1, <2>2
<1>4. ASSUME NEW i \in 1 .. Len(a), a[i] = c PROVE QuickConnect!Has(t, c)
  <2>1. i \in 1 .. Len(t)
    BY <1>1, <1>2
  <2> QED BY <1>2, <1>4, <2>1 DEF QuickConnect!Has, QuickConnect!Contains
<1>5. ASSUME NEW i \in 1 .. Len(b), b[i] = c PROVE QuickConnect!Has(t, c)
  <2>1. Len(a) + i \in 1 .. Len(t)
    BY <1>1, <1>2
  <2> QED BY <1>2, <1>5, <2>1 DEF QuickConnect!Has, QuickConnect!Contains
<1> QED BY <1>3, <1>4, <1>5 DEF QuickConnect!Has, QuickConnect!Contains, t

\* A sign that is in neither of two texts is not in both.
LEMMA QuickHasNot ==
    ASSUME NEW S, NEW a \in Seq(S), NEW b \in Seq(S), NEW c, ~QuickConnect!Has(a, c),
           ~QuickConnect!Has(b, c)
    PROVE  ~QuickConnect!Has(a \o b, c)
BY QuickHasJoined

\* The signs of a text of one word ...
LEMMA QuickHasOne == ASSUME NEW x, NEW c PROVE QuickConnect!Has(<<x>>, c) <=> x = c
BY DEF QuickConnect!Has, QuickConnect!Contains

\* ... and of no text.
LEMMA QuickHasNone == ASSUME NEW c PROVE ~QuickConnect!Has(QuickConnect!NULL, c)
BY DEF QuickConnect!Has, QuickConnect!Contains, QuickConnect!NULL

\* A text that is divided at a character the first part does not have.
LEMMA QuickSplitAt ==
    ASSUME NEW S, NEW a \in Seq(S), NEW b \in Seq(S), NEW c \in S, ~QuickConnect!Has(a, c)
    PROVE  LET t == (a \o <<c>>) \o b
           IN  QuickConnect!Has(t, c) /\ QuickConnect!At(t, c) = Len(a) + 1
              /\ QuickConnect!Before(t, c) = a /\ QuickConnect!After(t, c) = b
<1> DEFINE h == a \o <<c>>
           t == h \o b
           I == {i \in 1 .. Len(t) : t[i] = c}
<1>0. <<c>> \in Seq(S) /\ Len(<<c>>) = 1 /\ <<c>>[1] = c
  OBVIOUS
<1>1. Len(a) \in Nat /\ Len(b) \in Nat
  BY LenProperties
<1>2. /\ h \in Seq(S) /\ Len(h) = Len(a) + 1
      /\ \A i \in 1 .. Len(a) : h[i] = a[i]
      /\ h[Len(a) + 1] = c
  BY <1>0, <1>1, Joined
<1>3. t = a \o (<<c>> \o b)
  BY <1>0, ConcatAssociative
<1>4. <<c>> \o b \in Seq(S)
  BY <1>0, Joined
<1>5. QuickConnect!Has(t, c)
  <2>1. QuickConnect!Has(<<c>>, c)
    BY QuickHasOne
  <2>2. QuickConnect!Has(<<c>> \o b, c)
    BY <1>0, <2>1, QuickHasJoined
  <2> QED BY <1>3, <1>4, <2>2, QuickHasJoined
<1> HIDE DEF h
<1>6. /\ t \in Seq(S) /\ Len(t) = Len(h) + Len(b)
      /\ \A i \in 1 .. Len(h) : t[i] = h[i]
  BY <1>2, Joined
<1>7. SubSeq(t, 1, Len(a)) = a
  BY <1>3, <1>4, PartsOf
<1>8. SubSeq(t, Len(h) + 1, Len(t)) = b
  BY <1>2, PartsOf
<1> HIDE DEF t
<1>9. Len(a) + 1 \in I
  BY <1>1, <1>2, <1>6
<1>10. ASSUME NEW j \in I PROVE Len(a) + 1 <= j
  <2>1. CASE j \in 1 .. Len(a)
    <3>1. t[j] = a[j]
      BY <1>1, <1>2, <1>6, <2>1
    <3> QED BY <2>1, <3>1 DEF QuickConnect!Has, QuickConnect!Contains
  <2> QED BY <1>1, <2>1
<1>11. I \subseteq Nat
  BY <1>6, LenProperties
<1> HIDE DEF I
<1>12. QuickConnect!Min(I) = Len(a) + 1
  <2>1. QuickConnect!Min(I) \in I /\ \A j \in I : QuickConnect!Min(I) <= j
    BY <1>9, <1>10 DEF QuickConnect!Min
  <2> DEFINE m == QuickConnect!Min(I)
  <2>2. m \in Nat /\ Len(a) + 1 <= m /\ m <= Len(a) + 1
    BY <1>9, <1>10, <1>11, <2>1
  <2> HIDE DEF m
  <2>3. m = Len(a) + 1
    BY <1>1, <2>2
  <2> QED BY <2>3 DEF m
<1>13. QuickConnect!At(t, c) = Len(a) + 1
  BY <1>9, <1>12 DEF QuickConnect!At, QuickConnect!SelectInSeq, I
<1>14. QuickConnect!Before(t, c) = a
  <2>1. (Len(a) + 1) - 1 = Len(a)
    BY <1>1
  <2> QED BY <1>5, <1>7, <1>13, <2>1 DEF QuickConnect!Before
<1>15. QuickConnect!After(t, c) = b
  BY <1>2, <1>5, <1>8, <1>13 DEF QuickConnect!After
<1> QED BY <1>5, <1>13, <1>14, <1>15 DEF t, h

\* A text of two words.
LEMMA QuickPair ==
    ASSUME NEW S, NEW x \in S, NEW y \in S
    PROVE  <<x, y>> = <<x>> \o <<y>>
<1> DEFINE s == <<x>> \o <<y>>
<1>1. <<x>> \in Seq(S) /\ <<y>> \in Seq(S) /\ <<x, y>> \in Seq(S)
  OBVIOUS
<1>2. Len(<<x>>) = 1 /\ Len(<<y>>) = 1 /\ Len(<<x, y>>) = 2
  OBVIOUS
<1>3. /\ s \in Seq(S) /\ Len(s) = Len(<<x>>) + Len(<<y>>)
      /\ \A i \in 1 .. Len(<<x>>) : s[i] = <<x>>[i]
      /\ \A i \in 1 .. Len(<<y>>) : s[Len(<<x>>) + i] = <<y>>[i]
  BY <1>1, Joined
<1> HIDE DEF s
<1>4. Len(s) = 2 /\ s[1] = x /\ s[2] = y
  <2>1. Len(s) = 2
    BY <1>2, <1>3
  <2>2. 1 \in 1 .. Len(<<x>>) /\ 1 \in 1 .. Len(<<y>>)
    BY <1>2
  <2>3. s[1] = <<x>>[1]
    BY <1>3, <2>2
  <2>4. s[1 + 1] = <<y>>[1]
    BY <1>2, <1>3, <2>2
  <2> QED BY <2>1, <2>3, <2>4
<1>5. \A i \in 1 .. Len(s) : s[i] = <<x, y>>[i]
  BY <1>4
<1>6. s = <<x, y>>
  BY <1>1, <1>2, <1>3, <1>4, <1>5, SeqEqual
<1> QED BY <1>6 DEF s

\* A text of three words.
LEMMA QuickTriple ==
    ASSUME NEW S, NEW x \in S, NEW y \in S, NEW z \in S
    PROVE  <<x, y, z>> = <<x>> \o <<y, z>>
<1> DEFINE s == <<x>> \o <<y, z>>
<1>1. <<x>> \in Seq(S) /\ <<y, z>> \in Seq(S) /\ <<x, y, z>> \in Seq(S)
  OBVIOUS
<1>2. Len(<<x>>) = 1 /\ Len(<<y, z>>) = 2 /\ Len(<<x, y, z>>) = 3
  OBVIOUS
<1>3. /\ s \in Seq(S) /\ Len(s) = Len(<<x>>) + Len(<<y, z>>)
      /\ \A i \in 1 .. Len(<<x>>) : s[i] = <<x>>[i]
      /\ \A i \in 1 .. Len(<<y, z>>) : s[Len(<<x>>) + i] = <<y, z>>[i]
  BY <1>1, Joined
<1> HIDE DEF s
<1>4. Len(s) = 3 /\ s[1] = x /\ s[2] = y /\ s[3] = z
  BY <1>2, <1>3
<1>5. \A i \in 1 .. Len(s) : s[i] = <<x, y, z>>[i]
  BY <1>4
<1>6. s = <<x, y, z>>
  BY <1>1, <1>2, <1>3, <1>4, <1>5, SeqEqual
<1> QED BY <1>6 DEF s

\* The words of a URI, and the characters that it is split at.
QuickWords == {"domain", "user", "us", "er", "cipher", "plain", "32 letters", "pass",
   "word", "host",
          "22", "saved", ".remmina", "name", "3D", "dir", "file",
          "@", ":", "=", "?", "&", "%", "\\", "VncUsername", "VncPassword"}
QuickSigns == {"@", ":", "=", "?", "&", "%", "\\", "VncUsername", "VncPassword"}

\* A text with none of the signs, or with those of a port only
QuickBare(s) == s \in Seq(QuickWords) /\ \A c \in QuickSigns : ~QuickConnect!Has(s, c)
QuickHost(s) == s \in Seq(QuickWords) /\ \A c \in QuickSigns \ {":"} : ~QuickConnect!Has(s, c)

\* The signs are words, and no text is one without a sign.
LEMMA QuickWordsAre == QuickSigns \subseteq QuickWords
   /\ QuickConnect!NULL \in Seq(QuickWords) /\ QuickBare(QuickConnect!NULL)
BY EmptySeq, QuickHasNone DEF QuickSigns, QuickWords, QuickConnect!NULL, QuickBare

\* A word without a sign.
LEMMA QuickBareOne == ASSUME NEW x \in QuickWords \ QuickSigns PROVE QuickBare(<<x>>)
<1>1. <<x>> \in Seq(QuickWords)
  OBVIOUS
<1>2. \A c \in QuickSigns : ~QuickConnect!Has(<<x>>, c)
  BY QuickHasOne
<1> QED BY <1>1, <1>2 DEF QuickBare

\* The servers that a user can say.
LEMMA QuickHostIs == QuickHost(<<"host">>) /\ QuickHost(<<"host", ":", "22">>)
<1>1. "host" \in QuickWords /\ ":" \in QuickWords /\ "22" \in QuickWords
  BY DEF QuickWords
<1>2. <<"host">> \in Seq(QuickWords) /\ <<"host", ":", "22">> \in Seq(QuickWords)
  BY <1>1
<1>3. ASSUME NEW c \in QuickSigns \ {":"} PROVE ~QuickConnect!Has(<<"host">>, c)
             /\ ~QuickConnect!Has(<<"host", ":", "22">>, c)
  BY <1>3 DEF QuickSigns, QuickConnect!Has, QuickConnect!Contains
<1> QED BY <1>2, <1>3 DEF QuickHost

\* What is cut off a text.
LEMMA QuickWhole ==
    ASSUME NEW s, NEW c, ~QuickConnect!Has(s, c)
    PROVE  QuickConnect!Before(s, c) = s /\ QuickConnect!After(s, c) = QuickConnect!NULL
BY DEF QuickConnect!Before, QuickConnect!After

\* The name at the end of a URI.
LEMMA QuickNameCut ==
    ASSUME NEW data \in Seq(QuickWords), ~QuickConnect!Has(data, "%"),
           NEW name \in Seq(QuickWords)
    PROVE  LET text == data \o QuickConnect!Mark("%", name)
           IN  /\ QuickConnect!CutName(text) = data
               /\ name = QuickConnect!NULL => ~QuickConnect!Has(text, "%")
               /\ name # QuickConnect!NULL => QuickConnect!Has(text, "%")
                  /\ QuickConnect!After(text, "%") = name
<1>1. CASE name = QuickConnect!NULL
  <2>1. data \o QuickConnect!Mark("%", name) = data
    BY <1>1, ConcatEmptySeq DEF QuickConnect!Mark, QuickConnect!NULL
  <2> QED BY <1>1, <2>1, QuickWhole DEF QuickConnect!CutName
<1>2. CASE name # QuickConnect!NULL
  <2>0. "%" \in QuickWords
    BY DEF QuickWords
  <2>1. <<"%">> \in Seq(QuickWords)
    BY <2>0
  <2>2. data \o QuickConnect!Mark("%", name) = (data \o <<"%">>) \o name
    BY <1>2, <2>1, ConcatAssociative DEF QuickConnect!Mark
  <2> DEFINE t == (data \o <<"%">>) \o name
  <2>3. QuickConnect!Has(t, "%") /\ QuickConnect!Before(t, "%") = data
        /\ QuickConnect!After(t, "%") = name
    BY <2>0, QuickSplitAt
  <2> HIDE DEF t
  <2> QED BY <1>2, <2>2, <2>3 DEF QuickConnect!CutName, t
<1> QED BY <1>1, <1>2

\* A server is not the name of a file.
LEMMA QuickLastWord ==
    ASSUME NEW a \in Seq(QuickWords), NEW b \in Seq(QuickWords), b # QuickConnect!NULL
    PROVE  (a \o b) # QuickConnect!NULL /\ (a \o b)[Len(a \o b)] = b[Len(b)]
<1> DEFINE t == a \o b
<1>1. Len(a) \in Nat /\ Len(b) \in Nat /\ Len(b) # 0
  BY LenProperties, EmptySeq DEF QuickConnect!NULL
<1>2. /\ t \in Seq(QuickWords) /\ Len(t) = Len(a) + Len(b)
      /\ \A i \in 1 .. Len(b) : t[Len(a) + i] = b[i]
  BY Joined
<1> HIDE DEF t
<1>3. Len(b) \in 1 .. Len(b) /\ Len(t) # 0
  BY <1>1, <1>2
<1>4. t # QuickConnect!NULL
  BY <1>3 DEF QuickConnect!NULL
<1> QED BY <1>2, <1>3, <1>4 DEF t

\* The texts of the three forms.
QuickServerText(server, name) == server \o QuickConnect!Mark("%", name)
QuickUserText(domain, user, password, server, name) ==
    (((((IF domain = QuickConnect!NULL THEN QuickConnect!NULL ELSE domain \o <<"\\">>) \o user)
           \o QuickConnect!Mark(":",
              password)) \o <<"@">>) \o server) \o QuickConnect!Mark("%", name)
QuickQueryData(server, user, password) ==
    ((server \o <<"?", "VncUsername", "=">>) \o user)
       \o (IF password = QuickConnect!NULL THEN QuickConnect!NULL
          ELSE <<"&", "VncPassword", "=">> \o password)

\* A URI without a user.
LEMMA QuickOfServer ==
    ASSUME NEW p \in QuickConnect!Protocols, NEW server \in Seq(QuickWords),
           QuickHost(server), server # QuickConnect!NULL,
           server[Len(server)] # ".remmina",
           NEW name \in Seq(QuickWords),
           NEW text, text = QuickServerText(server, name)
    PROVE  QuickConnect!Connect(p, text) =
              [protocol |-> p, domain |-> QuickConnect!NULL,
                 username |-> QuickConnect!NULL, password |-> QuickConnect!NULL,
               server |-> server, name |-> IF name = QuickConnect!NULL THEN server ELSE name]
<1>1. QuickConnect!CutName(text) = server
      /\ (name = QuickConnect!NULL => ~QuickConnect!Has(text, "%"))
      /\ (name # QuickConnect!NULL => QuickConnect!Has(text, "%")
         /\ QuickConnect!After(text, "%") = name)
  <2>1. ~QuickConnect!Has(server, "%")
    BY DEF QuickHost, QuickSigns
  <2> QED BY <2>1, QuickNameCut DEF QuickServerText
<1>2. ~QuickConnect!Has(server, "@") /\ ~QuickConnect!Has(server, "?")
  BY DEF QuickHost, QuickSigns
<1>3. QuickConnect!After(server, "?") = QuickConnect!NULL
      /\ QuickConnect!Before(server, "?") = server
  BY <1>2, QuickWhole
<1>4. \A c : ~QuickConnect!Has(QuickConnect!NULL, c)
      /\ QuickConnect!Before(QuickConnect!NULL, c) = QuickConnect!NULL
      /\ QuickConnect!After(QuickConnect!NULL, c) = QuickConnect!NULL
  BY QuickHasNone, QuickWhole
<1>5. QuickConnect!Decrypt(QuickConnect!NULL) = QuickConnect!NULL
  BY DEF QuickConnect!Decrypt, QuickConnect!NULL, QuickConnect!Encrypted
<1> QED BY <1>1, <1>2, <1>3, <1>4, <1>5 DEF QuickConnect!Connect

\* A URI with a user, that has no query.
LEMMA QuickOfUser ==
    ASSUME NEW p \in {"RDP", "VNC", "SSH"},
           NEW domain \in Seq(QuickWords), QuickBare(domain), p # "RDP"
              => domain = QuickConnect!NULL,
           NEW user \in Seq(QuickWords), QuickBare(user),
           NEW password \in Seq(QuickWords), ~QuickConnect!Has(password, "@"),
              ~QuickConnect!Has(password, "%"),
           NEW server \in Seq(QuickWords), QuickHost(server), server # QuickConnect!NULL,
              server[Len(server)] # ".remmina",
           NEW name \in Seq(QuickWords),
           NEW text,
           text = QuickUserText(domain, user, password, server, name)
    PROVE  QuickConnect!Connect(p, text) =
              [protocol |-> p, domain |-> domain, username |-> user,
               password |-> QuickConnect!Decrypt(password), server |-> server,
               name |-> IF name = QuickConnect!NULL THEN server ELSE name]
<1> DEFINE full == (IF domain = QuickConnect!NULL THEN QuickConnect!NULL
    ELSE domain \o <<"\\">>) \o user
           up == full \o QuickConnect!Mark(":", password)
           data == (up \o <<"@">>) \o server
<1>0. /\ "\\" \in QuickWords /\ ":" \in QuickWords /\ "@" \in QuickWords /\ "%" \in QuickWords
      /\ "\\" \in QuickSigns /\ ":" \in QuickSigns /\ "@" \in QuickSigns
         /\ "%" \in QuickSigns /\ "?" \in QuickSigns
  BY DEF QuickWords, QuickSigns
<1>1. <<"\\">> \in Seq(QuickWords) /\ <<":">> \in Seq(QuickWords) /\ <<"@">> \in Seq(QuickWords)
  BY <1>0
<1>2. /\ full \in Seq(QuickWords)
      /\ ~QuickConnect!Has(full, ":") /\ ~QuickConnect!Has(full, "@")
         /\ ~QuickConnect!Has(full, "%")
      /\ domain = QuickConnect!NULL => full = user /\ ~QuickConnect!Has(full, "\\")
      /\ domain # QuickConnect!NULL => /\ QuickConnect!Has(full, "\\")
         /\ QuickConnect!Before(full, "\\") = domain
                          /\ QuickConnect!After(full, "\\") = user
  <2>1. CASE domain = QuickConnect!NULL
    <3>1. full = user
      BY <2>1, ConcatEmptySeq DEF QuickConnect!NULL
    <3> HIDE DEF full
    <3> QED BY <1>0, <2>1, <3>1 DEF QuickBare
  <2>2. CASE domain # QuickConnect!NULL
    <3>1. full = (domain \o <<"\\">>) \o user
      BY <2>2
    <3>2. (domain \o <<"\\">>) \in Seq(QuickWords)
      BY <1>1, Joined
    <3>3. full \in Seq(QuickWords)
      BY <3>1, <3>2, Joined
    <3>4. QuickConnect!Has(full, "\\") /\ QuickConnect!Before(full, "\\") = domain
          /\ QuickConnect!After(full, "\\") = user
      <4>1. ~QuickConnect!Has(domain, "\\")
        BY <1>0 DEF QuickBare
      <4> DEFINE t == (domain \o <<"\\">>) \o user
      <4>2. QuickConnect!Has(t, "\\") /\ QuickConnect!Before(t, "\\") = domain
            /\ QuickConnect!After(t, "\\") = user
        BY <1>0, <4>1, QuickSplitAt
      <4> QED BY <3>1, <4>2
    <3>5. ASSUME NEW c \in {":", "@", "%"} PROVE ~QuickConnect!Has(full, c)
      <4>1. ~QuickConnect!Has(domain, c) /\ ~QuickConnect!Has(user, c)
        BY <1>0 DEF QuickBare
      <4>2. ~QuickConnect!Has(<<"\\">>, c)
        BY QuickHasOne
      <4>3. ~QuickConnect!Has(domain \o <<"\\">>, c)
        BY <1>1, <4>1, <4>2, QuickHasNot
      <4> QED BY <3>1, <3>2, <4>1, <4>3, QuickHasNot
    <3> HIDE DEF full
    <3> QED BY <2>2, <3>3, <3>4, <3>5
  <2> QED BY <2>1, <2>2
<1>3. /\ text = data \o QuickConnect!Mark("%", name)
  BY DEF QuickUserText
<1> HIDE DEF full
<1>4. /\ up \in Seq(QuickWords) /\ ~QuickConnect!Has(up, "@") /\ ~QuickConnect!Has(up, "%")
      /\ QuickConnect!Before(up, ":") = full /\ QuickConnect!After(up, ":") = password
  <2>1. CASE password = QuickConnect!NULL
    <3>1. up = full
      BY <1>2, <2>1, ConcatEmptySeq DEF QuickConnect!Mark, QuickConnect!NULL
    <3> HIDE DEF up
    <3> QED BY <1>2, <2>1, <3>1, QuickWhole
  <2>2. CASE password # QuickConnect!NULL
    <3>1. up = full \o (<<":">> \o password)
      BY <2>2 DEF QuickConnect!Mark
    <3>2. (full \o <<":">>) \o password = full \o (<<":">> \o password)
      BY <1>1, <1>2, ConcatAssociative, SMTT(30)
    <3>3. <<":">> \o password \in Seq(QuickWords)
      BY <1>1, Joined
    <3>4. up \in Seq(QuickWords)
      BY <1>2, <3>1, <3>3, Joined
    <3> DEFINE t == (full \o <<":">>) \o password
    <3>5. QuickConnect!Before(t, ":") = full /\ QuickConnect!After(t, ":") = password
      BY <1>0, <1>2, QuickSplitAt
    <3>6. ASSUME NEW c \in {"@", "%"} PROVE ~QuickConnect!Has(up, c)
      <4>1. ~QuickConnect!Has(<<":">>, c)
        BY QuickHasOne
      <4>2. ~QuickConnect!Has(<<":">> \o password, c)
        BY <1>1, <4>1, QuickHasNot
      <4>3. ~QuickConnect!Has(full, c)
        BY <1>2
      <4> QED BY <1>2, <3>1, <3>3, <4>2, <4>3, QuickHasNot
    <3> HIDE DEF up
    <3> QED BY <3>1, <3>2, <3>4, <3>5, <3>6
  <2> QED BY <2>1, <2>2
<1> HIDE DEF up
<1>5. QuickConnect!Has(data, "@") /\ QuickConnect!Before(data, "@") = up
      /\ QuickConnect!After(data, "@") = server
  BY <1>0, <1>4, QuickSplitAt
<1>6. /\ data \in Seq(QuickWords) /\ ~QuickConnect!Has(data, "%") /\ data # QuickConnect!NULL
      /\ data[Len(data)] # ".remmina"
  <2>1. up \o <<"@">> \in Seq(QuickWords)
    BY <1>1, <1>4, Joined
  <2>2. ~QuickConnect!Has(up \o <<"@">>, "%")
    <3>1. ~QuickConnect!Has(<<"@">>, "%")
      BY QuickHasOne
    <3> QED BY <1>1, <1>4, <3>1, QuickHasJoined
  <2>3. ~QuickConnect!Has(server, "%")
    BY <1>0 DEF QuickHost
  <2>4. data \in Seq(QuickWords)
    BY <2>1, Joined
  <2>5. ~QuickConnect!Has(data, "%")
    BY <2>1, <2>2, <2>3, QuickHasNot
  <2>6. data # QuickConnect!NULL /\ data[Len(data)] = server[Len(server)]
    BY <2>1, QuickLastWord
  <2> QED BY <2>4, <2>5, <2>6
<1> HIDE DEF data
<1>7. QuickConnect!CutName(text) = data
      /\ (name = QuickConnect!NULL => ~QuickConnect!Has(text, "%"))
      /\ (name # QuickConnect!NULL => QuickConnect!Has(text, "%")
         /\ QuickConnect!After(text, "%") = name)
  <2> DEFINE t == data \o QuickConnect!Mark("%", name)
  <2>1. QuickConnect!CutName(t) = data
        /\ (name = QuickConnect!NULL => ~QuickConnect!Has(t, "%"))
        /\ (name # QuickConnect!NULL => QuickConnect!Has(t, "%")
           /\ QuickConnect!After(t, "%") = name)
    BY <1>6, QuickNameCut
  <2>2. text = t
    BY <1>3
  <2> HIDE DEF t
  <2> QED BY <2>1, <2>2
<1>8. QuickConnect!After(server, "?") = QuickConnect!NULL
      /\ QuickConnect!Before(server, "?") = server
  <2>1. ~QuickConnect!Has(server, "?")
    BY <1>0 DEF QuickHost
  <2> QED BY <2>1, QuickWhole
<1>9. \A c : ~QuickConnect!Has(QuickConnect!NULL, c)
  BY QuickHasNone
<1>10. p = "RDP" => p # "VNC"
  OBVIOUS
<1>11. QuickConnect!Connect(p, text) =
          [protocol |-> p, domain |-> IF p = "RDP"
             /\ QuickConnect!Has(full, "\\") THEN QuickConnect!Before(full, "\\")
             ELSE QuickConnect!NULL,
           username |-> IF p = "RDP"
              /\ QuickConnect!Has(full, "\\") THEN QuickConnect!After(full, "\\") ELSE full,
           password |-> QuickConnect!Decrypt(password), server |-> server,
           name |-> IF QuickConnect!Has(text, "%") THEN QuickConnect!After(text, "%")
              ELSE server]
  <2>1. CASE p = "VNC"
    BY <1>4, <1>5, <1>6, <1>7, <1>8, <1>9, <2>1 DEF QuickConnect!Connect
  <2>2. CASE p # "VNC"
    BY <1>4, <1>5, <1>6, <1>7, <1>9, <2>2 DEF QuickConnect!Connect
  <2> QED BY <2>1, <2>2
<1>12. /\ (IF p = "RDP"
          /\ QuickConnect!Has(full, "\\") THEN QuickConnect!Before(full, "\\")
          ELSE QuickConnect!NULL) = domain
       /\ (IF p = "RDP"
          /\ QuickConnect!Has(full, "\\") THEN QuickConnect!After(full, "\\") ELSE full) = user
       /\ (IF QuickConnect!Has(text, "%") THEN QuickConnect!After(text, "%")
          ELSE server) = IF name = QuickConnect!NULL THEN server ELSE name
  BY <1>2, <1>7
<1> QED BY <1>11, <1>12

\* Three texts after each other.
LEMMA QuickAssoc == \A s, t, u \in Seq(QuickWords) : (s \o t) \o u = s \o (t \o u)
BY ConcatAssociative

\* A query in which a key is given a value, and what may follow it.
QuickIsKey(keq, key) == keq = <<key, "=">>
QuickMoreOrNone(tail) == \E rest \in Seq(QuickWords) : tail = QuickConnect!NULL
   \/ tail = <<"&">> \o rest
QuickAssigns(q, a, keq, v, tail) == q = ((a \o keq) \o v) \o tail

\* The value of a key in a query.
LEMMA QuickValueIs ==
    ASSUME NEW a \in Seq(QuickWords), NEW key \in QuickWords, ~QuickConnect!Has(a, key),
           NEW v \in Seq(QuickWords), ~QuickConnect!Has(v, "&"),
           NEW tail, QuickMoreOrNone(tail),
           NEW keq, QuickIsKey(keq, key),
           NEW q, QuickAssigns(q, a, keq, v, tail)
    PROVE  QuickConnect!Has(q, key) /\ QuickConnect!Value(q, key) = v
<1>13. /\ keq = <<key, "=">> /\ q = ((a \o keq) \o v) \o tail
  BY DEF QuickAssigns, QuickIsKey
<1>14. PICK rest \in Seq(QuickWords) : tail = QuickConnect!NULL \/ tail = <<"&">> \o rest
  BY DEF QuickMoreOrNone
<1>0. "=" \in QuickWords /\ "&" \in QuickWords
  BY DEF QuickWords
<1>1. /\ <<key>> \in Seq(QuickWords) /\ <<"=">> \in Seq(QuickWords)
         /\ <<"&">> \in Seq(QuickWords)
      /\ Len(<<key>>) = 1 /\ Len(<<"=">>) = 1
  BY <1>0
<1>2. tail \in Seq(QuickWords)
  <2>1. <<"&">> \o rest \in Seq(QuickWords)
    BY <1>1, Joined
  <2> QED BY <1>14, <2>1, QuickWordsAre
<1> DEFINE vt == v \o tail
           ak == a \o <<key>>
           ake == ak \o <<"=">>
<1>3. vt \in Seq(QuickWords) /\ ak \in Seq(QuickWords) /\ Len(ak) = Len(a) + 1
  BY <1>1, <1>2, Joined
<1>4. ake \in Seq(QuickWords) /\ Len(ake) = (Len(a) + 1) + 1
  BY <1>1, <1>3, Joined
<1>5. a \o keq = ake
  <2>1. <<key, "=">> = <<key>> \o <<"=">>
    BY <1>0, QuickPair
  <2>2. (a \o <<key>>) \o <<"=">> = a \o (<<key>> \o <<"=">>)
    BY <1>1, ConcatAssociative
  <2> QED BY <1>13, <2>1, <2>2
<1>6. q = ake \o vt
  <2>1. q = (ake \o v) \o tail
    BY <1>13, <1>5
  <2> HIDE DEF ake
  <2>2. (ake \o v) \o tail = ake \o (v \o tail)
    BY <1>2, <1>4, QuickAssoc
  <2> QED BY <2>1, <2>2
<1>7. q = ak \o (<<"=">> \o vt)
  <2> DEFINE eq == <<"=">>
  <2>2. eq \in Seq(QuickWords) /\ ak \in Seq(QuickWords) /\ vt \in Seq(QuickWords)
    BY <1>1, <1>3
  <2> HIDE DEF ak, vt, eq
  <2>3. (ak \o eq) \o vt = ak \o (eq \o vt)
    BY <2>2, QuickAssoc, SMTT(30)
  <2>1. (ak \o <<"=">>) \o vt = ak \o (<<"=">> \o vt)
    BY <2>3 DEF eq
  <2> QED BY <1>6, <2>1
<1>8. QuickConnect!Has(q, key) /\ QuickConnect!At(q, key) = Len(a) + 1
  <2>1. <<"=">> \o vt \in Seq(QuickWords)
    BY <1>1, <1>3, Joined
  <2> DEFINE b == <<"=">> \o vt
             t == (a \o <<key>>) \o b
  <2>2. q = t
    BY <1>7
  <2>3. b \in Seq(QuickWords)
    BY <2>1
  <2> HIDE DEF b, ak, vt
  <2>4. QuickConnect!Has(t, key) /\ QuickConnect!At(t, key) = Len(a) + 1
    BY <2>3, QuickSplitAt
  <2> HIDE DEF t
  <2> QED BY <2>2, <2>4
<1>9. SubSeq(q, Len(ake) + 1, Len(q)) = vt
  <2>1. SubSeq(ake \o vt, Len(ake) + 1, Len(ake \o vt)) = vt
    BY <1>3, <1>4, PartsOf
  <2> QED BY <1>6, <2>1
<1>10. QuickConnect!Before(vt, "&") = v
  <2>1. CASE tail = QuickConnect!NULL
    <3>1. vt = v
      BY <2>1, ConcatEmptySeq DEF QuickConnect!NULL
    <3> QED BY <3>1, QuickWhole
  <2>2. CASE tail = <<"&">> \o rest
    <3>1. (v \o <<"&">>) \o rest = v \o (<<"&">> \o rest)
      BY <1>1, ConcatAssociative
    <3> DEFINE t == (v \o <<"&">>) \o rest
    <3>2. QuickConnect!Before(t, "&") = v
      BY <1>0, QuickSplitAt
    <3> QED BY <2>2, <3>1, <3>2
  <2> QED BY <1>14, <2>1, <2>2
<1> HIDE DEF vt, ak, ake
<1>11. Len(a) + 1 + 2 = Len(ake) + 1
  BY <1>4, LenProperties
<1>12. SubSeq(q, QuickConnect!At(q, key) + 2, Len(q)) = vt
  BY <1>8, <1>9, <1>11
<1> QED BY <1>8, <1>10, <1>12 DEF QuickConnect!Value

\* A URI of VNC with a query.
LEMMA QuickOfQuery ==
    ASSUME NEW server \in Seq(QuickWords), QuickHost(server),
           NEW user \in Seq(QuickWords), QuickBare(user), user # QuickConnect!NULL,
              user[Len(user)] # ".remmina",
           NEW password \in Seq(QuickWords), QuickBare(password),
           password # QuickConnect!NULL => password[Len(password)] # ".remmina",
           NEW data, data = QuickQueryData(server, user, password), NEW text
    PROVE  /\ data \in Seq(QuickWords) /\ ~QuickConnect!Has(data, "%")
           /\ QuickConnect!CutName(text) = data =>
              QuickConnect!Connect("VNC", text) =
                [protocol |-> "VNC", domain |-> QuickConnect!NULL, username |-> user,
                 password |-> QuickConnect!Decrypt(password), server |-> server,
                 name |-> IF QuickConnect!Has(text, "%")
                    THEN QuickConnect!After(text, "%") ELSE server]
<1>0. /\ "?" \in QuickWords /\ "VncUsername" \in QuickWords
         /\ "VncPassword" \in QuickWords /\ "=" \in QuickWords
      /\ "&" \in QuickWords /\ "?" \in QuickSigns /\ "VncUsername" \in QuickSigns
         /\ "VncPassword" \in QuickSigns
      /\ "&" \in QuickSigns /\ "%" \in QuickSigns /\ "@" \in QuickSigns
  BY DEF QuickWords, QuickSigns
<1> DEFINE tail == IF password = QuickConnect!NULL THEN QuickConnect!NULL
    ELSE <<"&", "VncPassword", "=">> \o password
           ue == <<"VncUsername", "=">>
           pe == <<"VncPassword", "=">>
           query == (ue \o user) \o tail
<1>1. /\ <<"?">> \in Seq(QuickWords) /\ ue \in Seq(QuickWords) /\ pe \in Seq(QuickWords)
         /\ <<"&">> \in Seq(QuickWords)
      /\ <<"&", "VncPassword", "=">> \in Seq(QuickWords)
         /\ <<"?", "VncUsername", "=">> \in Seq(QuickWords)
  BY <1>0
<1>2. <<"?", "VncUsername", "=">> = <<"?">> \o ue /\ <<"&", "VncPassword", "=">> = <<"&">> \o pe
  <2>1. <<"?", "VncUsername", "=">> = <<"?">> \o <<"VncUsername", "=">>
    BY <1>0, QuickTriple, SMTT(30)
  <2>2. <<"&", "VncPassword", "=">> = <<"&">> \o <<"VncPassword", "=">>
    BY <1>0, QuickTriple, SMTT(30)
  <2> QED BY <2>1, <2>2
<1>3. ASSUME NEW c \in {"@", "%"} PROVE ~QuickConnect!Has(ue, c)
             /\ ~QuickConnect!Has(pe, c) /\ ~QuickConnect!Has(<<"&">>, c)
             /\ ~QuickConnect!Has(<<"?">>, c)
  BY <1>3 DEF QuickConnect!Has, QuickConnect!Contains
<1>4. ~QuickConnect!Has(ue, "VncPassword")
  BY DEF QuickConnect!Has, QuickConnect!Contains
<1>5. /\ tail \in Seq(QuickWords)
      /\ tail = QuickConnect!NULL \/ tail = <<"&">> \o (pe \o password)
      /\ pe \o password \in Seq(QuickWords)
      /\ \A c \in {"@", "%"} : ~QuickConnect!Has(tail, c)
  <2>1. pe \o password \in Seq(QuickWords)
    BY <1>1, Joined
  <2>2. CASE password = QuickConnect!NULL
    <3>1. tail = QuickConnect!NULL
      BY <2>2
    <3> HIDE DEF tail
    <3> QED BY <2>1, <3>1, QuickWordsAre, QuickHasNone
  <2>3. CASE password # QuickConnect!NULL
    <3>1. tail = <<"&", "VncPassword", "=">> \o password
      BY <2>3
    <3> HIDE DEF tail, pe
    <3>2. (<<"&">> \o pe) \o password = <<"&">> \o (pe \o password)
      BY <1>1, ConcatAssociative
    <3>3. tail = <<"&">> \o (pe \o password)
      BY <1>2, <3>1, <3>2
    <3>4. tail \in Seq(QuickWords)
      BY <1>1, <2>1, <3>3, Joined
    <3>5. ASSUME NEW c \in {"@", "%"} PROVE ~QuickConnect!Has(tail, c)
      <4>1. ~QuickConnect!Has(password, c)
        BY <1>0 DEF QuickBare
      <4>2. ~QuickConnect!Has(pe \o password, c)
        BY <1>1, <1>3, <4>1, QuickHasNot
      <4> QED BY <1>1, <1>3, <2>1, <3>3, <4>2, QuickHasNot
    <3> QED BY <2>1, <3>3, <3>4, <3>5
  <2> QED BY <2>2, <2>3
<1>6. data = ((server \o (<<"?">> \o ue)) \o user) \o tail
  BY <1>2 DEF QuickQueryData
<1>7. tail = QuickConnect!NULL <=> password = QuickConnect!NULL
  <2>1. password # QuickConnect!NULL => tail # QuickConnect!NULL
    <3> SUFFICES ASSUME password # QuickConnect!NULL PROVE tail # QuickConnect!NULL
      OBVIOUS
    <3>1. tail = <<"&", "VncPassword", "=">> \o password
      OBVIOUS
    <3> QED BY <1>1, <3>1, QuickLastWord
  <2> QED BY <2>1
<1>8. password # QuickConnect!NULL => tail[Len(tail)] = password[Len(password)]
  <2> SUFFICES ASSUME password # QuickConnect!NULL PROVE tail[Len(tail)]
      = password[Len(password)]
    OBVIOUS
  <2>1. tail = <<"&", "VncPassword", "=">> \o password
    OBVIOUS
  <2> QED BY <1>1, <2>1, QuickLastWord
<1> HIDE DEF tail, ue, pe
<1>9. ue \o user \in Seq(QuickWords) /\ (ue \o user) \o tail \in Seq(QuickWords)
      /\ ue \o user # QuickConnect!NULL /\ (ue \o user)[Len(ue \o user)] = user[Len(user)]
  <2>1. ue \o user \in Seq(QuickWords)
    BY <1>1, Joined
  <2>2. (ue \o user) \o tail \in Seq(QuickWords)
    BY <1>5, <2>1, Joined
  <2> QED BY <1>1, <2>1, <2>2, QuickLastWord
<1>10. data = (server \o <<"?">>) \o query
  <2>1. server \o <<"?">> \in Seq(QuickWords)
    BY <1>1, Joined
  <2>2. (server \o <<"?">>) \o ue = server \o (<<"?">> \o ue)
    BY <1>1, ConcatAssociative
  <2> DEFINE h == server \o <<"?">>
             uu == ue \o user
  <2>3. data = ((h \o ue) \o user) \o tail /\ query = uu \o tail
    BY <1>6, <2>2
  <2>4. h \in Seq(QuickWords) /\ uu \in Seq(QuickWords)
    BY <1>9, <2>1
  <2> HIDE DEF h
  <2>5. (h \o ue) \o user = h \o uu
    <3>1. ue \in Seq(QuickWords)
      BY <1>1
    <3> QED BY <2>4, <3>1, QuickAssoc, SMTT(30)
  <2> HIDE DEF uu
  <2>6. (h \o uu) \o tail = h \o (uu \o tail)
    BY <1>5, <2>4, QuickAssoc, SMTT(30)
  <2>7. data = h \o query
    BY <2>3, <2>5, <2>6
  <2> QED BY <2>7 DEF h
<1>11. ASSUME NEW c \in {"@", "%"} PROVE ~QuickConnect!Has(data, c)
  <2>1. ~QuickConnect!Has(user, c) /\ ~QuickConnect!Has(server, c)
    BY <1>0 DEF QuickBare, QuickHost
  <2>2. ~QuickConnect!Has(ue \o user, c)
    BY <1>1, <1>3, <2>1, QuickHasNot
  <2>3. ~QuickConnect!Has((ue \o user) \o tail, c)
    BY <1>5, <1>9, <2>2, QuickHasNot
  <2>4. server \o <<"?">> \in Seq(QuickWords) /\ ~QuickConnect!Has(server \o <<"?">>, c)
    BY <1>1, <1>3, <2>1, Joined, QuickHasNot
  <2> QED BY <1>9, <1>10, <2>3, <2>4, QuickHasNot
<1>12. data \in Seq(QuickWords) /\ data # QuickConnect!NULL /\ data[Len(data)] # ".remmina"
  <2>1. server \o <<"?">> \in Seq(QuickWords)
    BY <1>1, Joined
  <2>2. query # QuickConnect!NULL /\ query[Len(query)] # ".remmina"
    <3>1. CASE password = QuickConnect!NULL
      <4>1. query = ue \o user
        BY <1>7, <1>9, <3>1, ConcatEmptySeq DEF QuickConnect!NULL
      <4> QED BY <1>9, <4>1
    <3>2. CASE password # QuickConnect!NULL
      <4>1. query # QuickConnect!NULL /\ query[Len(query)] = tail[Len(tail)]
        BY <1>5, <1>7, <1>9, <3>2, QuickLastWord
      <4> QED BY <1>8, <3>2, <4>1
    <3> QED BY <3>1, <3>2
  <2> HIDE DEF query
  <2>3. query \in Seq(QuickWords)
    BY <1>9 DEF query
  <2>4. data \in Seq(QuickWords)
    BY <1>10, <2>1, <2>3, Joined
  <2>5. data # QuickConnect!NULL /\ data[Len(data)] = query[Len(query)]
    BY <1>10, <2>1, <2>2, <2>3, QuickLastWord, ZenonT(30)
  <2> QED BY <2>2, <2>4, <2>5
<1>13. QuickConnect!Before(data, "?") = server /\ QuickConnect!After(data, "?") = query
  <2>1. ~QuickConnect!Has(server, "?")
    BY <1>0 DEF QuickHost
  <2> DEFINE t == (server \o <<"?">>) \o query
  <2>2. data = t /\ query \in Seq(QuickWords)
    BY <1>9, <1>10
  <2> HIDE DEF query
  <2>3. QuickConnect!Before(t, "?") = server /\ QuickConnect!After(t, "?") = query
    BY <1>0, <2>1, <2>2, QuickSplitAt
  <2> HIDE DEF t
  <2> QED BY <2>2, <2>3
<1>14. QuickConnect!Has(query, "VncUsername") /\ QuickConnect!Value(query, "VncUsername") = user
  <2>1. ~QuickConnect!Has(QuickConnect!NULL, "VncUsername")
        /\ ~QuickConnect!Has(user, "&") /\ QuickConnect!NULL \in Seq(QuickWords)
    BY <1>0, QuickHasNone, QuickWordsAre DEF QuickBare
  <2>2. query = ((QuickConnect!NULL \o ue) \o user) \o tail
    BY <1>1, ConcatEmptySeq DEF QuickConnect!NULL
  <2>4. QuickIsKey(ue, "VncUsername")
    BY DEF ue, QuickIsKey
  <2> HIDE DEF query
  <2>3. QuickMoreOrNone(tail)
    BY <1>5 DEF QuickMoreOrNone
  <2>5. "VncUsername" \in QuickWords
    BY <1>0
  <2>6. QuickAssigns(query, QuickConnect!NULL, ue, user, tail)
    BY <2>2 DEF QuickAssigns
  <2> QED BY <2>1, <2>3, <2>4, <2>5, <2>6, QuickValueIs
<1>15. (IF QuickConnect!Has(query, "VncPassword")
       THEN QuickConnect!Value(query, "VncPassword") ELSE QuickConnect!NULL) = password
  <2>1. ~QuickConnect!Has(user, "VncPassword")
    BY <1>0 DEF QuickBare
  <2>2. ~QuickConnect!Has(ue \o user, "VncPassword")
    BY <1>1, <1>4, <2>1, QuickHasNot
  <2>3. CASE password = QuickConnect!NULL
    <3>1. query = ue \o user
      BY <1>7, <1>9, <2>3, ConcatEmptySeq DEF QuickConnect!NULL
    <3> QED BY <2>2, <2>3, <3>1
  <2>4. CASE password # QuickConnect!NULL
    <3> DEFINE a == (ue \o user) \o <<"&">>
    <3>1. a \in Seq(QuickWords) /\ ~QuickConnect!Has(a, "VncPassword")
      <4>1. ~QuickConnect!Has(<<"&">>, "VncPassword")
        BY DEF QuickConnect!Has, QuickConnect!Contains
      <4> QED BY <1>1, <1>9, <2>2, <4>1, Joined, QuickHasNot
    <3>2. query = a \o (pe \o password)
      <4> DEFINE uu == ue \o user
                 pp == pe \o password
                 and == <<"&">>
      <4>1. uu \in Seq(QuickWords) /\ pp \in Seq(QuickWords) /\ and \in Seq(QuickWords)
        BY <1>1, <1>5, <1>9
      <4>2. query = uu \o (and \o pp) /\ a = uu \o and
        BY <1>5, <1>7, <2>4
      <4> HIDE DEF uu, pp, and, query, a
      <4>3. (uu \o and) \o pp = uu \o (and \o pp)
        BY <4>1, QuickAssoc, SMTT(30)
      <4>4. query = a \o pp
        BY <4>2, <4>3
      <4> QED BY <4>4 DEF pp
    <3>3. (a \o pe) \o password = a \o (pe \o password)
      <4>1. pe \in Seq(QuickWords) /\ a \in Seq(QuickWords)
        BY <1>1, <3>1
      <4> HIDE DEF a
      <4> QED BY <4>1, QuickAssoc
    <3>4. query = ((a \o pe) \o password) \o QuickConnect!NULL
      <4>1. (a \o pe) \o password \in Seq(QuickWords)
        BY <1>1, <3>1, Joined
      <4>2. ((a \o pe) \o password) \o QuickConnect!NULL = (a \o pe) \o password
        BY <4>1, ConcatEmptySeq DEF QuickConnect!NULL
      <4> QED BY <3>2, <3>3, <4>2
    <3>5. ~QuickConnect!Has(password, "&")
      BY <1>0 DEF QuickBare
    <3> HIDE DEF query, a
    <3>6. QuickConnect!NULL \in Seq(QuickWords)
      BY QuickWordsAre
    <3>7. QuickMoreOrNone(QuickConnect!NULL)
      BY <3>6 DEF QuickMoreOrNone
    <3>9. QuickIsKey(pe, "VncPassword")
      BY DEF pe, QuickIsKey
    <3>10. "VncPassword" \in QuickWords
      BY <1>0
    <3>11. QuickAssigns(query, a, pe, password, QuickConnect!NULL)
      BY <3>4 DEF QuickAssigns
    <3>8. QuickConnect!Has(query, "VncPassword")
          /\ QuickConnect!Value(query, "VncPassword") = password
      BY <3>1, <3>5, <3>6, <3>7, <3>9, <3>10, <3>11, QuickValueIs
    <3> QED BY <2>4, <3>8
  <2> QED BY <2>3, <2>4
<1> HIDE DEF query
<1>16. \A c : ~QuickConnect!Has(QuickConnect!NULL, c)
       /\ QuickConnect!Before(QuickConnect!NULL, c) = QuickConnect!NULL
       /\ QuickConnect!After(QuickConnect!NULL, c) = QuickConnect!NULL
  BY QuickHasNone, QuickWhole
<1>17. QuickConnect!CutName(text) = data => QuickConnect!Connect("VNC", text) =
          [protocol |-> "VNC", domain |-> QuickConnect!NULL, username |-> user,
           password |-> QuickConnect!Decrypt(IF QuickConnect!Has(query, "VncPassword")
              THEN QuickConnect!Value(query, "VncPassword")
                                ELSE QuickConnect!NULL),
           server |-> server, name |-> IF QuickConnect!Has(text, "%")
              THEN QuickConnect!After(text, "%") ELSE server]
  <2>1. ~QuickConnect!Has(data, "@")
    BY <1>11
  <2> QED BY <1>12, <1>13, <1>14, <1>16, <2>1 DEF QuickConnect!Connect
<1>18. ~QuickConnect!Has(data, "%")
  BY <1>11
<1> QED BY <1>12, <1>15, <1>17, <1>18

-----------------------------------------------------------------------------
(* What a URI opens.                                                       *)

\* The parts of a URI that a user can say, without the signs in them.
LEMMA QuickPartsPlain ==
    ASSUME NEW u \in QuickConnect!URIs, QuickConnect!Sayable(u), QuickConnect!Plain(u)
    PROVE  /\ u.protocol \in QuickConnect!Protocols
           /\ QuickBare(u.domain) /\ (u.domain # QuickConnect!NULL => u.protocol = "RDP"
              /\ u.username # QuickConnect!NULL)
           /\ QuickBare(u.username) /\ (u.username # QuickConnect!NULL => u.protocol # "SPICE")
           /\ u.username # QuickConnect!NULL => u.username[Len(u.username)] # ".remmina"
           /\ u.password # QuickConnect!NULL => u.username # QuickConnect!NULL
           /\ u.password \in Seq(QuickWords) /\ ~QuickConnect!Has(u.password, "@")
              /\ ~QuickConnect!Has(u.password, "%")
           /\ QuickHost(u.server) /\ u.server # QuickConnect!NULL
              /\ u.server[Len(u.server)] # ".remmina"
           /\ u.name \in Seq(QuickWords)
           /\ u.query => /\ u.protocol = "VNC" /\ u.username # QuickConnect!NULL
                         /\ u.password = QuickConnect!NULL
                            \/ u.password = QuickConnect!Encrypted
<1>1. /\ u.protocol \in QuickConnect!Protocols
      /\ u.domain \in {QuickConnect!NULL, <<"domain">>}
      /\ u.username \in {QuickConnect!NULL, <<"user">>, <<"us", "@", "er">>, <<"us", ":",
         "er">>}
      /\ u.password \in {QuickConnect!NULL, QuickConnect!Encrypted, <<"plain">>,
         <<"32 letters">>, <<"pass", "@", "word">>}
      /\ u.server \in {<<"host">>, <<"host", ":", "22">>, <<"saved", ".remmina">>}
      /\ u.name \in {QuickConnect!NULL, <<"name">>}
  BY DEF QuickConnect!URIs
<1>2. /\ QuickConnect!Has(<<"us", "@", "er">>, "@")
         /\ QuickConnect!Has(<<"us", ":", "er">>, ":")
      /\ QuickConnect!Has(<<"pass", "@", "word">>, "@")
  BY DEF QuickConnect!Has, QuickConnect!Contains
<1>3. /\ u.username \in {QuickConnect!NULL, <<"user">>}
      /\ u.password \in {QuickConnect!NULL, QuickConnect!Encrypted, <<"plain">>}
      /\ u.server \in {<<"host">>, <<"host", ":", "22">>}
  BY <1>1, <1>2 DEF QuickConnect!Plain
<1>4. QuickBare(QuickConnect!NULL) /\ QuickBare(<<"domain">>) /\ QuickBare(<<"user">>)
      /\ QuickBare(<<"plain">>) /\ QuickBare(<<"name">>)
  <2>1. {"domain", "user", "plain", "name"} \subseteq QuickWords \ QuickSigns
    BY DEF QuickWords, QuickSigns
  <2> QED BY <2>1, QuickBareOne, QuickWordsAre
<1>5. QuickConnect!Encrypted \in Seq(QuickWords)
      /\ ~QuickConnect!Has(QuickConnect!Encrypted, "@")
      /\ ~QuickConnect!Has(QuickConnect!Encrypted, "%")
  <2>1. "cipher" \in QuickWords /\ "=" \in QuickWords
    BY DEF QuickWords
  <2>2. <<"cipher", "=">> \in Seq(QuickWords)
    BY <2>1
  <2>3. ~QuickConnect!Has(<<"cipher", "=">>, "@") /\ ~QuickConnect!Has(<<"cipher", "=">>, "%")
    BY DEF QuickConnect!Has, QuickConnect!Contains
  <2> QED BY <2>2, <2>3 DEF QuickConnect!Encrypted
<1>6. QuickBare(u.domain) /\ QuickBare(u.username) /\ QuickBare(u.name)
  BY <1>1, <1>3, <1>4
<1>7. u.password \in Seq(QuickWords) /\ ~QuickConnect!Has(u.password, "@")
      /\ ~QuickConnect!Has(u.password, "%")
  <2>1. "@" \in QuickSigns /\ "%" \in QuickSigns
    BY DEF QuickSigns
  <2> QED BY <1>3, <1>4, <1>5, <2>1 DEF QuickBare
<1>8. QuickHost(u.server)
  BY <1>3, QuickHostIs
<1>9. u.server # QuickConnect!NULL /\ u.server[Len(u.server)] # ".remmina"
  <2>1. <<"host">> # QuickConnect!NULL /\ <<"host", ":", "22">> # QuickConnect!NULL
    BY DEF QuickConnect!NULL
  <2>2. <<"host">>[Len(<<"host">>)] # ".remmina"
    OBVIOUS
  <2>3. Len(<<"host", ":", "22">>) = 3
    OBVIOUS
  <2>4. <<"host", ":", "22">>[3] # ".remmina"
    OBVIOUS
  <2>5. <<"host", ":", "22">>[Len(<<"host", ":", "22">>)] # ".remmina"
    BY <2>3, <2>4
  <2>6. CASE u.server = <<"host">>
    BY <2>1, <2>2, <2>6
  <2>7. CASE u.server = <<"host", ":", "22">>
    BY <2>1, <2>5, <2>7
  <2> QED BY <1>3, <2>6, <2>7
<1>10. u.username # QuickConnect!NULL => u.username[Len(u.username)] # ".remmina"
  <2>1. <<"user">>[Len(<<"user">>)] # ".remmina"
    OBVIOUS
  <2>2. CASE u.username = <<"user">>
    BY <2>1, <2>2
  <2> QED BY <1>3, <2>2
<1>11. u.name \in Seq(QuickWords)
  BY <1>6 DEF QuickBare
<1>12. u.query => u.protocol = "VNC" /\ u.username # QuickConnect!NULL
  BY DEF QuickConnect!Sayable
<1>13. u.query => u.password = QuickConnect!NULL \/ u.password = QuickConnect!Encrypted
  BY DEF QuickConnect!Sayable
<1>14. (u.domain # QuickConnect!NULL => u.protocol = "RDP" /\ u.username # QuickConnect!NULL)
       /\ (u.username # QuickConnect!NULL => u.protocol # "SPICE")
       /\ (u.password # QuickConnect!NULL => u.username # QuickConnect!NULL)
  BY DEF QuickConnect!Sayable
<1> QED BY <1>1, <1>6, <1>7, <1>8, <1>9, <1>10, <1>11, <1>12, <1>13, <1>14

\* The escaped cipher.
LEMMA QuickEscapedIs == QuickConnect!Escaped(QuickConnect!Encrypted)
   = <<"cipher">> \o <<"%", "3D">>
<1>1. DOMAIN QuickConnect!Encrypted = {1, 2} /\ QuickConnect!Encrypted[1] = "cipher"
      /\ QuickConnect!Encrypted[2] = "="
  BY DEF QuickConnect!Encrypted
<1>2. QuickConnect!Escaped(QuickConnect!Encrypted)
      = QuickConnect!FlattenSeq(<<<<"cipher">>, <<"%", "3D">>>>)
  BY <1>1 DEF QuickConnect!Escaped
<1> DEFINE seqs == <<<<"cipher">>, <<"%", "3D">>>>
           Flat(h) == [i \in 1 .. Len(seqs) |-> IF i = 1 THEN seqs[i] ELSE h[i - 1] \o seqs[i]]
           f == CHOOSE h : h = Flat(h)
           g == [i \in 1 .. Len(seqs) |-> IF i = 1 THEN seqs[1] ELSE seqs[1] \o seqs[2]]
<1>3. Len(seqs) = 2 /\ seqs[1] = <<"cipher">> /\ seqs[2] = <<"%", "3D">>
  OBVIOUS
<1>4. QuickConnect!FlattenSeq(seqs) = f[Len(seqs)]
  BY <1>3 DEF QuickConnect!FlattenSeq
<1> HIDE DEF seqs
<1>5. g = Flat(g)
  <2>1. g[1] = seqs[1] /\ g[2] = seqs[1] \o seqs[2]
    BY <1>3
  <2>2. ASSUME NEW i \in 1 .. Len(seqs)
        PROVE  g[i] = IF i = 1 THEN seqs[i] ELSE g[i - 1] \o seqs[i]
    <3>1. i = 1 \/ i = 2
      BY <1>3
    <3>2. CASE i = 1
      BY <2>1, <3>2
    <3>3. CASE i = 2
      <4>1. i - 1 = 1 /\ i # 1
        BY <3>3
      <4> HIDE DEF g
      <4>2. g[i - 1] = seqs[1] /\ g[i] = seqs[1] \o seqs[i]
        BY <2>1, <3>3, <4>1
      <4> QED BY <4>1, <4>2
    <3> QED BY <3>1, <3>2, <3>3
  <2>3. g = [i \in 1 .. Len(seqs) |-> g[i]]
    OBVIOUS
  <2> HIDE DEF g
  <2> QED BY <2>2, <2>3
<1> HIDE DEF g
<1>6. f = Flat(f)
  BY <1>5
<1> HIDE DEF f
<1>7. f[1] = seqs[1] /\ f[2] = f[1] \o seqs[2]
  <2>1. \A i \in 1 .. Len(seqs) : f[i] = Flat(f)[i]
    BY <1>6
  <2>2. 1 \in 1 .. Len(seqs) /\ 2 \in 1 .. Len(seqs)
    BY <1>3
  <2>3. \A i \in 1 .. Len(seqs) : f[i] = IF i = 1 THEN seqs[i] ELSE f[i - 1] \o seqs[i]
    BY <2>1
  <2>4. f[1] = seqs[1]
    BY <2>2, <2>3
  <2>5. ASSUME NEW i \in 1 .. Len(seqs), i = 2 PROVE f[i] = f[1] \o seqs[i]
    <3>1. i # 1 /\ i - 1 = 1
      BY <2>5
    <3>2. f[i] = f[i - 1] \o seqs[i]
      BY <2>3, <3>1
    <3> QED BY <3>1, <3>2
  <2> QED BY <2>2, <2>4, <2>5
<1>8. QuickConnect!FlattenSeq(seqs) = seqs[1] \o seqs[2]
  BY <1>3, <1>4, <1>7
<1> QED BY <1>2, <1>3, <1>8 DEF seqs

\* What is opened for a URI is what the user said.
LEMMA QuickUriOpens ==
    ASSUME NEW u \in QuickConnect!URIs, QuickConnect!Sayable(u), QuickConnect!Plain(u)
    PROVE  LET cut == u.query /\ u.password # QuickConnect!NULL
           IN  QuickConnect!Connect(u.protocol, QuickConnect!Written(u)) =
                 [protocol |-> u.protocol, domain |-> u.domain, username |-> u.username,
                  password |-> CASE u.password = QuickConnect!NULL -> QuickConnect!NULL
                                 [] cut -> <<"cipher">>
                                 [] OTHER -> QuickConnect!Decrypt(u.password),
                  server |-> u.server,
                  name |-> CASE cut -> <<"3D">> \o QuickConnect!Mark("%", u.name)
                             [] ~cut /\ u.name = QuickConnect!NULL -> u.server
                             [] OTHER -> u.name]
<1>1. /\ u.protocol \in QuickConnect!Protocols
      /\ QuickBare(u.domain) /\ (u.domain # QuickConnect!NULL => u.protocol = "RDP"
         /\ u.username # QuickConnect!NULL)
      /\ QuickBare(u.username) /\ (u.username # QuickConnect!NULL => u.protocol # "SPICE")
      /\ u.username # QuickConnect!NULL => u.username[Len(u.username)] # ".remmina"
      /\ u.password # QuickConnect!NULL => u.username # QuickConnect!NULL
      /\ u.password \in Seq(QuickWords) /\ ~QuickConnect!Has(u.password, "@")
         /\ ~QuickConnect!Has(u.password, "%")
      /\ QuickHost(u.server) /\ u.server # QuickConnect!NULL
         /\ u.server[Len(u.server)] # ".remmina"
      /\ u.name \in Seq(QuickWords)
      /\ u.query => /\ u.protocol = "VNC" /\ u.username # QuickConnect!NULL
                    /\ u.password = QuickConnect!NULL \/ u.password = QuickConnect!Encrypted
  BY QuickPartsPlain
<1>2. /\ u.domain \in Seq(QuickWords) /\ u.username \in Seq(QuickWords)
         /\ u.server \in Seq(QuickWords)
  BY <1>1 DEF QuickBare, QuickHost
<1>3. QuickConnect!Decrypt(QuickConnect!NULL) = QuickConnect!NULL
  BY DEF QuickConnect!Decrypt, QuickConnect!NULL, QuickConnect!Encrypted
<1>4. ASSUME NEW s PROVE s \in Seq(QuickWords) => QuickConnect!NULL \o s = s
             /\ s \o QuickConnect!NULL = s
  BY ConcatEmptySeq DEF QuickConnect!NULL
<1>5. CASE ~u.query /\ u.username = QuickConnect!NULL
  <2>1. u.domain = QuickConnect!NULL /\ u.password = QuickConnect!NULL
    BY <1>1, <1>5
  <2>2. QuickConnect!Written(u)
        = ((((QuickConnect!NULL \o QuickConnect!NULL) \o QuickConnect!NULL) \o QuickConnect!NULL) \o u.server) \o QuickConnect!Mark("%", u.name)
    BY <1>5, <2>1 DEF QuickConnect!Written, QuickConnect!Mark
  <2>3. ((((QuickConnect!NULL \o QuickConnect!NULL) \o QuickConnect!NULL) \o QuickConnect!NULL) \o u.server) = u.server
    BY <1>2, <1>4, QuickWordsAre
  <2>4. QuickConnect!Written(u) = QuickServerText(u.server, u.name)
    BY <2>2, <2>3 DEF QuickServerText
  <2>5. QuickConnect!Connect(u.protocol, QuickConnect!Written(u)) =
              [protocol |-> u.protocol, domain |-> QuickConnect!NULL,
                 username |-> QuickConnect!NULL, password |-> QuickConnect!NULL,
               server |-> u.server, name |-> IF u.name = QuickConnect!NULL
                  THEN u.server ELSE u.name]
    BY <1>1, <1>2, <2>4, QuickOfServer
  <2> QED BY <1>5, <2>1, <2>5
<1>6. CASE ~u.query /\ u.username # QuickConnect!NULL
  <2>1. QuickConnect!Written(u) = QuickUserText(u.domain, u.username, u.password, u.server,
        u.name)
    BY <1>6 DEF QuickConnect!Written, QuickUserText
  <2>2. u.protocol \in {"RDP", "VNC", "SSH"}
        /\ (u.protocol # "RDP" => u.domain = QuickConnect!NULL)
    BY <1>1, <1>6 DEF QuickConnect!Protocols
  <2>3. QuickConnect!Connect(u.protocol, QuickConnect!Written(u)) =
              [protocol |-> u.protocol, domain |-> u.domain, username |-> u.username,
               password |-> QuickConnect!Decrypt(u.password), server |-> u.server,
               name |-> IF u.name = QuickConnect!NULL THEN u.server ELSE u.name]
    BY <1>1, <1>2, <2>1, <2>2, QuickOfUser, SMTT(30)
  <2> QED BY <1>3, <1>6, <2>3
<1>7. CASE u.query /\ u.password = QuickConnect!NULL
  <2> DEFINE data == QuickQueryData(u.server, u.username, u.password)
             text == data \o QuickConnect!Mark("%", u.name)
  <2>1. QuickConnect!Written(u) = text
    BY <1>7 DEF QuickConnect!Written, QuickQueryData
  <2>2. u.protocol = "VNC" /\ u.username # QuickConnect!NULL /\ u.domain = QuickConnect!NULL
    BY <1>1, <1>7
  <2>3. QuickBare(u.password) /\ ~(u.password # QuickConnect!NULL)
    BY <1>7, QuickWordsAre
  <2>4. /\ data \in Seq(QuickWords) /\ ~QuickConnect!Has(data, "%")
        /\ QuickConnect!CutName(text) = data =>
              QuickConnect!Connect("VNC", text) =
                [protocol |-> "VNC", domain |-> QuickConnect!NULL, username |-> u.username,
                 password |-> QuickConnect!Decrypt(u.password), server |-> u.server,
                 name |-> IF QuickConnect!Has(text, "%")
                    THEN QuickConnect!After(text, "%") ELSE u.server]
    BY <1>1, <1>2, <2>2, <2>3, QuickOfQuery
  <2> HIDE DEF data
  <2>5. /\ QuickConnect!CutName(text) = data
           /\ (u.name = QuickConnect!NULL => ~QuickConnect!Has(text, "%"))
        /\ (u.name # QuickConnect!NULL => QuickConnect!Has(text, "%")
           /\ QuickConnect!After(text, "%") = u.name)
    BY <1>1, <2>4, QuickNameCut
  <2>6. (IF QuickConnect!Has(text, "%") THEN QuickConnect!After(text, "%")
        ELSE u.server) = IF u.name = QuickConnect!NULL THEN u.server ELSE u.name
    BY <2>5
  <2> HIDE DEF text
  <2> QED BY <1>3, <1>7, <2>1, <2>2, <2>4, <2>5, <2>6
<1>8. CASE u.query /\ u.password # QuickConnect!NULL
  <2> DEFINE pw == <<"cipher">>
             data == QuickQueryData(u.server, u.username, pw)
             rest == <<"3D">> \o QuickConnect!Mark("%", u.name)
             text == (data \o <<"%">>) \o rest
  <2>1. u.protocol = "VNC" /\ u.username # QuickConnect!NULL
        /\ u.domain = QuickConnect!NULL /\ u.password = QuickConnect!Encrypted
    BY <1>1, <1>8
  <2>2. /\ pw \in Seq(QuickWords) /\ QuickBare(pw) /\ pw # QuickConnect!NULL
           /\ pw[Len(pw)] # ".remmina"
    <3>1. "cipher" \in QuickWords \ QuickSigns
      BY DEF QuickWords, QuickSigns
    <3>2. pw \in Seq(QuickWords) /\ QuickBare(pw)
      BY <3>1, QuickBareOne
    <3>3. pw # QuickConnect!NULL /\ pw[Len(pw)] # ".remmina"
      BY DEF QuickConnect!NULL
    <3> QED BY <3>2, <3>3
  <2>3. QuickConnect!Decrypt(pw) = <<"cipher">>
    BY DEF QuickConnect!Decrypt, QuickConnect!Encrypted
  <2>4. /\ "%" \in QuickWords /\ "3D" \in QuickWords /\ "&" \in QuickWords /\ "=" \in QuickWords
        /\ "VncPassword" \in QuickWords /\ "?" \in QuickWords /\ "VncUsername" \in QuickWords
    BY DEF QuickWords
  <2>5. QuickConnect!Mark("%", u.name) \in Seq(QuickWords) /\ rest \in Seq(QuickWords)
    <3>1. <<"%">> \in Seq(QuickWords) /\ <<"3D">> \in Seq(QuickWords)
      BY <2>4
    <3>2. QuickConnect!Mark("%", u.name) \in Seq(QuickWords)
      BY <1>1, <3>1, QuickWordsAre, Joined DEF QuickConnect!Mark
    <3> QED BY <3>1, <3>2, Joined
  <2>6. QuickConnect!Written(u) = text
    <3> DEFINE qu == (u.server \o <<"?", "VncUsername", "=">>) \o u.username
               vp == <<"&", "VncPassword", "=">>
               pc == <<"%">>
               d3 == <<"3D">>
               mk == QuickConnect!Mark("%", u.name)
    <3>1. QuickConnect!Written(u) = (qu \o (vp \o QuickConnect!Escaped(u.password))) \o mk
      BY <1>8 DEF QuickConnect!Written
    <3>2. <<"%", "3D">> = pc \o d3
      BY <2>4, QuickPair
    <3>3. QuickConnect!Escaped(u.password) = pw \o (pc \o d3)
      BY <2>1, <3>2, QuickEscapedIs
    <3>4. data = qu \o (vp \o pw)
      BY <2>2 DEF QuickQueryData
    <3>5. /\ vp \in Seq(QuickWords) /\ pc \in Seq(QuickWords) /\ d3 \in Seq(QuickWords)
             /\ mk \in Seq(QuickWords)
      BY <2>4, <2>5
    <3>6. qu \in Seq(QuickWords)
      <4>1. <<"?", "VncUsername", "=">> \in Seq(QuickWords)
        BY <2>4
      <4> QED BY <1>2, <4>1, Joined
    <3>7. text = ((qu \o (vp \o pw)) \o pc) \o (d3 \o mk)
      BY <3>4
    <3>8. pw \in Seq(QuickWords)
      BY <2>2
    <3> HIDE DEF qu, vp, pc, d3, mk, pw, data, rest, text
    <3>9. pc \o d3 \in Seq(QuickWords) /\ vp \o pw \in Seq(QuickWords)
      BY <3>5, <3>8, Joined
    <3>10. qu \o (vp \o pw) \in Seq(QuickWords)
      BY <3>6, <3>9, Joined
    <3>11. (vp \o pw) \o (pc \o d3) = vp \o (pw \o (pc \o d3))
      <4> DEFINE pd == pc \o d3
      <4>1. pd \in Seq(QuickWords)
        BY <3>9
      <4> HIDE DEF pd
      <4>2. (vp \o pw) \o pd = vp \o (pw \o pd)
        BY <3>5, <3>8, <4>1, QuickAssoc, SMTT(30)
      <4> QED BY <4>2 DEF pd
    <3>12. (qu \o (vp \o pw)) \o (pc \o d3) = qu \o ((vp \o pw) \o (pc \o d3))
      BY <3>6, <3>9, QuickAssoc
    <3> DEFINE dd == qu \o (vp \o pw)
    <3>13. dd \in Seq(QuickWords)
      BY <3>10
    <3>14. QuickConnect!Written(u) = (dd \o (pc \o d3)) \o mk
      BY <3>1, <3>3, <3>11, <3>12
    <3>15. text = (dd \o pc) \o (d3 \o mk)
      BY <3>7
    <3> HIDE DEF dd
    <3>16. (dd \o pc) \o d3 = dd \o (pc \o d3)
      BY <3>5, <3>13, QuickAssoc
    <3>17. dd \o pc \in Seq(QuickWords)
      BY <3>5, <3>13, Joined
    <3>18. ((dd \o pc) \o d3) \o mk = (dd \o pc) \o (d3 \o mk)
      BY <3>5, <3>17, QuickAssoc
    <3> QED BY <3>14, <3>15, <3>16, <3>18
  <2> HIDE DEF pw
  <2>7. /\ data \in Seq(QuickWords) /\ ~QuickConnect!Has(data, "%")
        /\ QuickConnect!CutName(text) = data =>
              QuickConnect!Connect("VNC", text) =
                [protocol |-> "VNC", domain |-> QuickConnect!NULL, username |-> u.username,
                 password |-> QuickConnect!Decrypt(pw), server |-> u.server,
                 name |-> IF QuickConnect!Has(text, "%")
                    THEN QuickConnect!After(text, "%") ELSE u.server]
    BY <1>1, <1>2, <2>1, <2>2, QuickOfQuery
  <2> HIDE DEF data, rest
  <2>8. QuickConnect!Has(text, "%") /\ QuickConnect!Before(text, "%") = data
        /\ QuickConnect!After(text, "%") = rest
    BY <2>4, <2>5, <2>7, QuickSplitAt
  <2>9. QuickConnect!CutName(text) = data
    BY <2>8 DEF QuickConnect!CutName
  <2> HIDE DEF text
  <2>10. QuickConnect!Connect(u.protocol, QuickConnect!Written(u)) =
            [protocol |-> "VNC", domain |-> QuickConnect!NULL, username |-> u.username,
             password |-> <<"cipher">>, server |-> u.server, name |-> rest]
    BY <2>1, <2>3, <2>6, <2>7, <2>8, <2>9
  <2> QED BY <1>8, <2>1, <2>10 DEF rest
<1> QED BY <1>5, <1>6, <1>7, <1>8

-----------------------------------------------------------------------------
(* The invariant.                                                          *)

QuickInv ==
    /\ QuickConnect!TypeOK /\ QuickConnect!UriKept /\ QuickConnect!FileOpened
       /\ QuickConnect!QuickIsSaved /\ QuickConnect!ImportTold
    /\ s4 \in [chosen : {"RDP", "VNC"}, memory : {"RDP", "VNC"}, file : {"RDP", "VNC"}]

\* The module counts as the library does.
LEMMA QuickCardinality == \A S : QuickConnect!Cardinality(S) = Cardinality(S)
BY DEF QuickConnect!Cardinality, Cardinality

\* Nothing or one thing is opened.
LEMMA QuickOneOpened == QuickConnect!Cardinality({}) <= 1
   /\ \A x : QuickConnect!Cardinality({x}) <= 1
<1>1. QuickConnect!Cardinality({}) = 0
  BY QuickCardinality, FS_EmptySet
<1>2. \A x : QuickConnect!Cardinality({x}) = 1
  BY QuickCardinality, FS_Singleton
<1>3. 0 <= 1 /\ 1 <= 1
  OBVIOUS
<1>4. QuickConnect!Cardinality({}) <= 1
  BY <1>1, <1>3
<1>5. \A x : QuickConnect!Cardinality({x}) <= 1
  BY <1>2, <1>3
<1> QED BY <1>4, <1>5

\* Without a URI nothing is claimed of one.
LEMMA QuickNoUri == DOMAIN QuickConnect!NULL = {}
BY EmptySeq DEF QuickConnect!NULL

\* It holds before anything is typed.
LEMMA QuickInitInv == ASSUME QuickConnect!Init PROVE QuickInv
<1>1. DOMAIN s1 = {} /\ s2 = {} /\ s1 = QuickConnect!NULL /\ s3 = QuickConnect!NULL
  BY QuickNoUri DEF QuickConnect!Init
<1>2. /\ s5.saved = {} /\ s5.named = {} /\ DOMAIN s5.kind = {} /\ s5.loaded = FALSE
  BY DEF QuickConnect!Init, QuickConnect!NoImport
<1>3. QuickConnect!TypeOK
  BY <1>1, <1>2, QuickOneOpened DEF QuickConnect!TypeOK
<1>4. QuickConnect!ImportTold
  BY <1>2 DEF QuickConnect!ImportTold
<1> QED BY <1>1, <1>3, <1>4 DEF QuickConnect!Init, QuickInv, QuickConnect!UriKept,
   QuickConnect!FileOpened, QuickConnect!QuickIsSaved

\* Every step keeps it.
LEMMA QuickStepInv == ASSUME QuickInv, [QuickConnect!Next]_(QuickConnect!vars) PROVE QuickInv'
<1>1. CASE QuickConnect!ExecConnect
  <2>1. s3' = QuickConnect!NULL /\ s5' = QuickConnect!NoImport /\ s4' = s4
    BY <1>1 DEF QuickConnect!ExecConnect
  <2>2. /\ s5'.saved = {} /\ s5'.named = {} /\ DOMAIN s5'.kind = {}
        /\ s5'.loaded = FALSE
    BY <2>1 DEF QuickConnect!NoImport
  <2>3. QuickConnect!ImportTold' /\ QuickConnect!QuickIsSaved'
    BY <2>1, <2>2 DEF QuickConnect!ImportTold, QuickConnect!QuickIsSaved
  <2>4. ASSUME NEW u \in QuickConnect!URIs, QuickConnect!Sayable(u), s1' = <<u>>,
               s2' = {QuickConnect!Connect(u.protocol, QuickConnect!Written(u))}
        PROVE  QuickConnect!UriKept' /\ QuickConnect!FileOpened' /\ QuickConnect!TypeOK'
    <3>1. DOMAIN s1' = {1} /\ s1'[1] = u /\ Len(s1') = 1
      BY <2>4
    <3>2. "path" \notin DOMAIN u
      BY DEF QuickConnect!URIs
    <3>3. QuickConnect!Plain(u) => LET cut == u.query /\ u.password # QuickConnect!NULL
           IN  QuickConnect!Connect(u.protocol, QuickConnect!Written(u)) =
                 [protocol |-> u.protocol, domain |-> u.domain, username |-> u.username,
                  password |-> CASE u.password = QuickConnect!NULL -> QuickConnect!NULL
                                 [] cut -> <<"cipher">>
                                 [] OTHER -> QuickConnect!Decrypt(u.password),
                  server |-> u.server,
                  name |-> CASE cut -> <<"3D">> \o QuickConnect!Mark("%", u.name)
                             [] ~cut /\ u.name = QuickConnect!NULL -> u.server
                             [] OTHER -> u.name]
      BY <2>4, QuickUriOpens
    <3>4. QuickConnect!UriKept'
      BY <2>4, <3>1, <3>3, ZenonT(30) DEF QuickConnect!UriKept
    <3>5. QuickConnect!FileOpened'
      BY <3>1, <3>2 DEF QuickConnect!FileOpened
    <3>6. QuickConnect!Cardinality(s2') <= 1
      BY <2>4, QuickOneOpened
    <3> QED BY <2>2, <3>1, <3>4, <3>5, <3>6 DEF QuickConnect!TypeOK
  <2>5. ASSUME NEW f \in QuickConnect!Paths, s1' = <<f>>,
               s2' = {[file |-> QuickConnect!CutName(f.path)]}
        PROVE  QuickConnect!UriKept' /\ QuickConnect!FileOpened' /\ QuickConnect!TypeOK'
    <3>1. DOMAIN s1' = {1} /\ s1'[1] = f /\ Len(s1') = 1
      BY <2>5
    <3>2. "server" \notin DOMAIN f
      BY DEF QuickConnect!Paths
    <3>3. QuickConnect!CutName(f.path) = IF QuickConnect!Has(f.path, "%")
          THEN <<"dir">> ELSE f.path
      <4>1. CASE f.path = <<"dir", "file">>
        <5>1. ~QuickConnect!Has(f.path, "%")
          BY <4>1 DEF QuickConnect!Has, QuickConnect!Contains
        <5> QED BY <5>1 DEF QuickConnect!CutName, QuickConnect!Before
      <4>2. CASE f.path = <<"dir", "%", "file">>
        <5>1. {"dir", "%", "file"} \subseteq QuickWords
          BY DEF QuickWords
        <5> DEFINE a == <<"dir">>
                   b == <<"file">>
                   m == <<"%">>
        <5>2. a \in Seq(QuickWords) /\ b \in Seq(QuickWords) /\ m \in Seq(QuickWords)
              /\ ~QuickConnect!Has(a, "%")
          <6>1. a \in Seq(QuickWords)
            BY <5>1
          <6>2. b \in Seq(QuickWords)
            BY <5>1
          <6>3. m \in Seq(QuickWords)
            BY <5>1
          <6>4. ~QuickConnect!Has(a, "%")
            BY QuickHasOne
          <6> QED BY <6>1, <6>2, <6>3, <6>4
        <5>3. f.path = a \o <<"%", "file">>
          BY <4>2, <5>1, QuickTriple
        <5>4. <<"%", "file">> = m \o b
          BY <5>1, QuickPair
        <5> DEFINE t == (a \o <<"%">>) \o b
        <5>5. f.path = t
          <6> HIDE DEF a, b
          <6>1. (a \o m) \o b = a \o (m \o b)
            BY <5>2, ConcatAssociative
          <6> QED BY <5>3, <5>4, <6>1
        <5>6. QuickConnect!Has(t, "%") /\ QuickConnect!Before(t, "%") = a
          <6> HIDE DEF a, b
          <6> QED BY <5>1, <5>2, QuickSplitAt
        <5> HIDE DEF t
        <5> QED BY <5>5, <5>6 DEF QuickConnect!CutName
      <4> QED BY <4>1, <4>2 DEF QuickConnect!Paths
    <3>4. QuickConnect!UriKept'
      BY <3>1, <3>2 DEF QuickConnect!UriKept
    <3>5. QuickConnect!FileOpened'
      BY <2>5, <3>1, <3>3 DEF QuickConnect!FileOpened
    <3>6. QuickConnect!Cardinality(s2') <= 1
      BY <2>5, QuickOneOpened
    <3> QED BY <2>2, <3>1, <3>4, <3>5, <3>6 DEF QuickConnect!TypeOK
  <2>6. QuickConnect!UriKept' /\ QuickConnect!FileOpened' /\ QuickConnect!TypeOK'
    BY <1>1, <2>4, <2>5 DEF QuickConnect!ExecConnect
  <2> QED BY <2>1, <2>3, <2>6 DEF QuickInv
<1>2. CASE QuickConnect!ChooseProtocol
  <2>1. /\ UNCHANGED <<s1, s2, s3, s5>>
        /\ s4' \in [chosen : {"RDP", "VNC"}, memory : {s4.memory},
                          file : {s4.file}]
    BY <1>2 DEF QuickConnect!ChooseProtocol
  <2>2. /\ s4'.memory = s4.memory
        /\ s4' \in [chosen : {"RDP", "VNC"}, memory : {"RDP", "VNC"}, file : {"RDP", "VNC"}]
    BY <2>1 DEF QuickInv
  <2>3. QuickConnect!TypeOK' /\ QuickConnect!UriKept' /\ QuickConnect!FileOpened'
        /\ QuickConnect!ImportTold'
    BY <2>1 DEF QuickInv, QuickConnect!TypeOK, QuickConnect!UriKept,
       QuickConnect!FileOpened, QuickConnect!ImportTold
  <2>4. QuickConnect!QuickIsSaved'
    BY <2>1, <2>2 DEF QuickInv, QuickConnect!QuickIsSaved
  <2> QED BY <2>2, <2>3, <2>4 DEF QuickInv
<1>3. ASSUME NEW text, QuickConnect!quickconnect(text) PROVE QuickInv'
  <2>1. /\ s3' = text /\ s1' = QuickConnect!NULL /\ s5' = QuickConnect!NoImport
        /\ s4' = [s4 EXCEPT !.memory = s4.chosen, !.file = s4.chosen]
        /\ s2' = IF text = QuickConnect!NULL \/ QuickConnect!Has(text, "/") THEN {}
                     ELSE {[protocol |-> s4.chosen, server |-> text, name |-> text,
                            disablepasswordstoring |-> TRUE]}
    BY <1>3 DEF QuickConnect!quickconnect
  <2>2. /\ s5'.saved = {} /\ s5'.named = {} /\ DOMAIN s5'.kind = {}
        /\ s5'.loaded = FALSE
    BY <2>1 DEF QuickConnect!NoImport
  <2>3. /\ s4' \in [chosen : {"RDP", "VNC"}, memory : {"RDP", "VNC"}, file : {"RDP", "VNC"}]
        /\ s4'.memory = s4.chosen
    BY <2>1 DEF QuickInv
  <2>4. DOMAIN s1' = {}
    BY <2>1, QuickNoUri
  <2>5. QuickConnect!UriKept' /\ QuickConnect!FileOpened' /\ QuickConnect!ImportTold'
    BY <2>2, <2>4 DEF QuickConnect!UriKept, QuickConnect!FileOpened, QuickConnect!ImportTold
  <2>6. QuickConnect!QuickIsSaved'
    BY <2>1, <2>3 DEF QuickConnect!QuickIsSaved
  <2>7. QuickConnect!Cardinality(s2') <= 1
    BY <2>1, QuickOneOpened
  <2> QED BY <2>1, <2>2, <2>3, <2>5, <2>6, <2>7 DEF QuickInv, QuickConnect!TypeOK
<1>4. ASSUME NEW fs \in SUBSET ImportFiles, NEW kind \in [fs -> QuickConnect!Kinds],
             NEW dropped \in BOOLEAN,
             NEW escaped \in SUBSET fs, QuickConnect!import_file_list(kind, dropped, escaped)
      PROVE  QuickInv'
  <2> DEFINE saved == {f \in DOMAIN kind : QuickConnect!Imported(kind[f], dropped
      /\ f \in escaped)}
  <2>1. /\ s5' = [kind |-> kind, uri |-> dropped, saved |-> saved,
                      named |-> DOMAIN kind \ saved, loaded |-> saved # {}]
        /\ s1' = QuickConnect!NULL /\ s2' = {} /\ s3' = QuickConnect!NULL /\ s4' = s4
    BY <1>4 DEF QuickConnect!import_file_list
  <2>2. DOMAIN kind = fs /\ saved \subseteq fs /\ \A f \in saved : kind[f] = "profile"
    BY DEF QuickConnect!Imported
  <2> HIDE DEF saved
  <2>3. /\ s5'.saved = saved /\ s5'.named = fs \ saved /\ DOMAIN s5'.kind = fs
        /\ s5'.loaded = (saved # {}) /\ s5'.kind = kind
    BY <2>1, <2>2
  <2>4. QuickConnect!ImportTold'
    BY <2>2, <2>3 DEF QuickConnect!ImportTold
  <2>5. DOMAIN s1' = {}
    BY <2>1, QuickNoUri
  <2>6. QuickConnect!TypeOK'
    BY <2>1, <2>2, <2>3, QuickOneOpened DEF QuickConnect!TypeOK
  <2> QED BY <2>1, <2>4, <2>5, <2>6 DEF QuickInv, QuickConnect!UriKept,
     QuickConnect!FileOpened, QuickConnect!QuickIsSaved
<1>5. CASE UNCHANGED QuickConnect!vars
  BY <1>5 DEF QuickConnect!vars, QuickInv, QuickConnect!TypeOK, QuickConnect!UriKept,
     QuickConnect!FileOpened, QuickConnect!QuickIsSaved, QuickConnect!ImportTold
<1> QED BY <1>1, <1>2, <1>3, <1>4, <1>5 DEF QuickConnect!Next

\* What it says of what is opened.
LEMMA QuickInvMeans ==
    ASSUME QuickInv PROVE QuickConnect!TypeOK /\ QuickConnect!UriKept
           /\ QuickConnect!FileOpened /\ QuickConnect!QuickIsSaved /\ QuickConnect!ImportTold
BY DEF QuickInv

-----------------------------------------------------------------------------
(* The components together.                                                *)

StoredInv ==
    /\ component = "Store" => StoreInv
    /\ component = "MultiPassword" => ChangeInv
    /\ component = "Preferences" => PrefInv
    /\ component = "StringList" => ListInv
    /\ component = "FileManager" => FileInv
    /\ component = "FileEditor" => EditInv
    /\ component = "QuickConnect" => QuickInv

\* What the invariants need of the constants.
LEMMA StoredBounds == StoreBounds /\ ChangeBounds /\ EditorBounds
BY ComponentBounds DEF ComponentBounds, StoreBounds, ChangeBounds, EditorBounds,
   FileEditor!Unnamed

\* It holds whatever the behaviour is about.
LEMMA StoredInitInv == ASSUME ComponentInit PROVE StoredInv
<1>1. component = "Store" => StoreInv
  BY StoredBounds, StoreInitInv DEF ComponentInit
<1>2. component = "MultiPassword" => ChangeInv
  BY StoredBounds, ChangeInitInv DEF ComponentInit
<1>3. component = "Preferences" => PrefInv
  BY StoredBounds, PrefInitInv DEF ComponentInit
<1>4. component = "StringList" => ListInv
  BY StoredBounds, ListInitInv DEF ComponentInit
<1>5. component = "FileManager" => FileInv
  BY StoredBounds, FileInitInv DEF ComponentInit
<1>6. component = "FileEditor" => EditInv
  BY StoredBounds, EditInitInv DEF ComponentInit
<1>7. component = "QuickConnect" => QuickInv
  BY StoredBounds, QuickInitInv DEF ComponentInit
<1> QED BY <1>1, <1>2, <1>3, <1>4, <1>5, <1>6, <1>7 DEF StoredInv

\* Every step of a component keeps its invariant, and says nothing of the others.
LEMMA StoredStepInv ==
    ASSUME StoredInv, [ComponentNext]_ComponentVars
    PROVE  StoredInv'
<1>0. component' = component
  BY DEF ComponentNext, ComponentVars
<1>1. ASSUME component = "Store" PROVE StoreInv'
  <2>1. [Store!Next]_(Store!vars)
    BY <1>1 DEF ComponentNext, ComponentVars, Store!vars
  <2>2. StoreInv
    BY <1>1 DEF StoredInv
  <2> QED BY <2>1, <2>2, StoredBounds, StoreStepInv
<1>2. ASSUME component = "MultiPassword" PROVE ChangeInv'
  <2>1. [MultiPassword!Next]_(MultiPassword!vars)
    BY <1>2 DEF ComponentNext, ComponentVars, MultiPassword!vars
  <2>2. ChangeInv
    BY <1>2 DEF StoredInv
  <2> QED BY <2>1, <2>2, StoredBounds, ChangeStepInv
<1>3. ASSUME component = "Preferences" PROVE PrefInv'
  <2>1. [Preferences!Next]_(Preferences!vars)
    BY <1>3 DEF ComponentNext, ComponentVars, Preferences!vars
  <2>2. PrefInv
    BY <1>3 DEF StoredInv
  <2> QED BY <2>1, <2>2, StoredBounds, PrefStepInv
<1>4. ASSUME component = "StringList" PROVE ListInv'
  <2>1. [StringList!Next]_(StringList!vars)
    BY <1>4 DEF ComponentNext, ComponentVars, StringList!vars
  <2>2. ListInv
    BY <1>4 DEF StoredInv
  <2> QED BY <2>1, <2>2, StoredBounds, ListStepInv
<1>5. ASSUME component = "FileManager" PROVE FileInv'
  <2>1. [FileManager!Next]_(FileManager!vars)
    BY <1>5 DEF ComponentNext, ComponentVars, FileManager!vars, FileManager!folder,
       FileManager!groups
  <2>2. FileInv
    BY <1>5 DEF StoredInv
  <2> QED BY <2>1, <2>2, StoredBounds, FileStepInv
<1>6. ASSUME component = "FileEditor" PROVE EditInv'
  <2>1. [FileEditor!Next]_(FileEditor!vars)
    BY <1>6 DEF ComponentNext, ComponentVars, FileEditor!vars
  <2>2. EditInv
    BY <1>6 DEF StoredInv
  <2> QED BY <2>1, <2>2, StoredBounds, EditStepInv
<1>7. ASSUME component = "QuickConnect" PROVE QuickInv'
  <2>1. [QuickConnect!Next]_(QuickConnect!vars)
    BY <1>7 DEF ComponentNext, ComponentVars, QuickConnect!vars
  <2>2. QuickInv
    BY <1>7 DEF StoredInv
  <2> QED BY <2>1, <2>2, StoredBounds, QuickStepInv
<1> QED BY <1>0, <1>1, <1>2, <1>3, <1>4, <1>5, <1>6, <1>7 DEF StoredInv

\* The invariants of what is stored hold throughout the run.
THEOREM StoredInvariance == ComponentSpec => []StoredInv
BY StoredInitInv, StoredStepInv, PTL DEF ComponentSpec

\* What is stored is what was meant: the password that was saved is the one that is read in
\* the world it was saved in, what is deleted is forgotten, the profiles that are ticked get
\* the new password, what the user chose is there in the next run, a profile has one file and
\* stays until it is deleted, and what is typed or imported is what opens (remmina_file.c,
\* remmina_mpchange.c, remmina_pref.c, remmina_file_manager.c, remmina_file_editor.c,
\* remmina_exec.c).
THEOREM StoreStaysSafe == ComponentSpec => []StoreSafe
<1>1. StoreInv => Store!PasswordKept /\ Store!SecretsForgotten /\ Store!StoreFaults
  BY StoreInvMeans
<1>2. ChangeInv => MultiPassword!ChangesTicked /\ MultiPassword!ChangesCounted
  BY DEF ChangeInv
<1>3. PrefInv => /\ Preferences!ChoicesKept /\ Preferences!PluginValuesKept
                 /\ Preferences!ColorsThere /\ Preferences!RecentsOnce
  BY PrefInvMeans
<1>4. FileInv => FileManager!ProfilesKept
  BY FileInvMeans
<1>5. EditInv => FileEditor!ProfilesStay /\ FileEditor!OneFile /\ FileEditor!NoStaleWidget
  BY DEF EditInv
<1>6. QuickInv => /\ QuickConnect!UriKept /\ QuickConnect!FileOpened
                  /\ QuickConnect!QuickIsSaved /\ QuickConnect!ImportTold
  BY QuickInvMeans
<1>7. StoredInv => StoreSafe
  BY <1>1, <1>2, <1>3, <1>4, <1>5, <1>6 DEF StoredInv, StoreSafe
<1> QED BY <1>7, StoredInvariance, PTL

\* The rows of a list are read as they were left, unless somebody entered the sign that divides
\* its columns, and the tree of the groups has each group that was read, once and in its place
\* (remmina_string_list.c, remmina_file_manager.c).
THEOREM ListsComeBack == ComponentSpec => []ListsReturn
<1>1. ListInv => StringList!RowsReturn
  BY ListInvMeans
<1>2. FileInv => FileManager!TreeRight
  BY FileInvMeans
<1>3. StoredInv => ListsReturn
  BY <1>1, <1>2 DEF StoredInv, ListsReturn
<1> QED BY <1>3, StoredInvariance, PTL

\* Every component outside of a session keeps its variables in their types, those of the
\* windows and the plugins as those of what is stored.
THEOREM ComponentsStayTyped == ComponentSpec => []ComponentsTyped
<1>1. ComponentInv =>
         /\ component = "MessagePanels" => MessagePanels!TypeOK
         /\ component = "MainWindow" => MainWindow!TypeOK
         /\ component = "AppLife" => AppLife!TypeOK
         /\ component = "TrayIcon" => TrayIcon!TypeOK
         /\ component = "Discovery" => Discovery!TypeOK
         /\ component = "Plugins" => Plugins!TypeOK
  <2>1. PlugBounds
    BY ComponentBounds DEF ComponentBounds, PlugBounds
  <2>2. TrayInv => TrayIcon!TypeOK
    BY DEF TrayInv
  <2> QED BY <2>1, <2>2, PanelsInvMeans, MainInvMeans, AppInvMeans, DiscInvMeans,
     PlugInvMeans DEF ComponentInv
<1>2. StoredInv =>
         /\ component = "Store" => Store!TypeOK
         /\ component = "MultiPassword" => MultiPassword!TypeOK
         /\ component = "Preferences" => Preferences!TypeOK
         /\ component = "StringList" => StringList!TypeOK
         /\ component = "FileManager" => FileManager!TypeOK
         /\ component = "FileEditor" => FileEditor!TypeOK
         /\ component = "QuickConnect" => QuickConnect!TypeOK
  <2>1. (ChangeInv => MultiPassword!TypeOK) /\ (EditInv => FileEditor!TypeOK)
    BY DEF ChangeInv, EditInv
  <2> QED BY <2>1, StoreInvMeans, PrefInvMeans, ListInvMeans, FileInvMeans,
     QuickInvMeans DEF StoredInv
<1>3. ComponentInv /\ StoredInv => ComponentsTyped
  BY <1>1, <1>2 DEF ComponentsTyped
<1> QED BY <1>3, ComponentInvariance, StoredInvariance, PTL
===============================================================================
