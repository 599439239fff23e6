----------------------------- MODULE CodecProofs -----------------------------
(***************************************************************************)
(* What goes through the driver's conversions comes out as it went in, for *)
(* every value, length and size of frame: durations, the columns of a row, *)
(* the rows of executemany, the rows of a buffered cursor.                 *)
(***************************************************************************)
EXTENDS Statements, Conversions, FoldTheorems, SequenceTheorems, TLAPS

----------------------------------------------------------------------------
(* Sequences: what the folds and the library's functions on them compute.  *)

\* The ends of a set of indices.
LEMMA MinIsLeast ==
    ASSUME NEW t \in SUBSET Nat, t # {}
    PROVE  Min(t) \in t /\ \A i \in t : Min(t) <= i
<1>1. \E i \in t : \A j \in t : i <= j
  BY LeastNumber
<1> QED
  BY <1>1 DEF Min

LEMMA MaxIsGreatest ==
    ASSUME NEW n \in Nat, NEW t \in SUBSET (1..n), t # {}
    PROVE  Max(t) \in t /\ \A i \in t : Max(t) >= i
<1> DEFINE turned == {n - i : i \in t}
<1>1. turned \in SUBSET Nat /\ turned # {}
  <2>1. \A i \in 1..n : n - i \in Nat
    OBVIOUS
  <2> QED
    BY <2>1
<1>2. PICK m \in turned : \A j \in turned : m <= j
  <2> HIDE DEF turned
  <2> QED
    BY <1>1, LeastNumber
<1>3. PICK i \in t : m = n - i
  BY <1>2
<1>4. \A j \in t : i >= j
  <2> TAKE j \in t
  <2>1. n - i <= n - j
    BY <1>2, <1>3
  <2>2. i \in Int /\ j \in Int
    OBVIOUS
  <2> QED
    BY <2>1, <2>2
<1>5. \E k \in t : \A j \in t : k >= j
  BY <1>4
<1> QED
  BY <1>5 DEF Max

\* The indices up to i, and those from i on, without i.
LEMMA Ends ==
    ASSUME NEW n \in Nat, NEW i \in 1..n
    PROVE  /\ 1..i \in SUBSET (1..n) /\ i..n \in SUBSET (1..n)
           /\ 1..i # {} /\ i..n # {}
           /\ Max(1..i) = i /\ (1..i) \ {i} = 1..(i - 1)
           /\ Min(i..n) = i /\ (i..n) \ {i} = (i + 1)..n
<1>1. /\ 1..i \in SUBSET (1..n) /\ i..n \in SUBSET (1..n) /\ i \in 1..i /\ i \in i..n
      /\ (1..i) \ {i} = 1..(i - 1) /\ (i..n) \ {i} = (i + 1)..n
  OBVIOUS
<1>2. Max(1..i) = i
  <2>1. Max(1..i) \in 1..i /\ Max(1..i) >= i
    BY <1>1, MaxIsGreatest
  <2> QED
    BY <2>1
<1>3. Min(i..n) = i
  <2>1. i..n \in SUBSET Nat
    OBVIOUS
  <2>2. Min(i..n) \in i..n /\ Min(i..n) <= i
    BY <1>1, <2>1, MinIsLeast
  <2> QED
    BY <2>2
<1> QED
  BY <1>1, <1>2, <1>3

\* The function behind a fold over the indices of a sequence, from either end.
FromLeft(base, step, n, g) ==
    \A t \in SUBSET (1..n) :
        g[t] = IF t = {} THEN base ELSE step[<<Max(t), g[t \ {Max(t)}]>>]

\* The function behind FoldLeft exists; its values stay in a set the step keeps.
LEMMA LeftExists ==
    ASSUME NEW n \in Nat, NEW V, NEW base \in V,
           NEW step, \A i \in 1..n, v \in V : step[<<i, v>>] \in V
    PROVE  \E g \in [SUBSET (1..n) -> V] : FromLeft(base, step, n, g)
<1> DEFINE choice == [t \in SUBSET (1..n) |-> Max(t)]
<1>1. \A t \in SUBSET (1..n) : t # {} => choice[t] \in t
  BY MaxIsGreatest
<1>2. IsFiniteSet(1..n)
  BY FS_Interval
<1>3. \A t \in SUBSET (1..n) : choice[t] = Max(t)
  OBVIOUS
<1> HIDE DEF choice
<1>4. PICK g \in [SUBSET (1..n) -> V] : Folding(base, step, choice, SUBSET (1..n), g)
  BY <1>1, <1>2, FoldExists
<1> QED
  BY <1>3, <1>4 DEF Folding, FromLeft

FromRight(base, step, n, g) ==
    \A t \in SUBSET (1..n) :
        g[t] = IF t = {} THEN base ELSE step[<<Min(t), g[t \ {Min(t)}]>>]

\* So does the one behind FoldRight.
LEMMA RightExists ==
    ASSUME NEW n \in Nat, NEW V, NEW base \in V,
           NEW step, \A i \in 1..n, v \in V : step[<<i, v>>] \in V
    PROVE  \E g \in [SUBSET (1..n) -> V] : FromRight(base, step, n, g)
<1> DEFINE choice == [t \in SUBSET (1..n) |-> Min(t)]
<1>1. \A t \in SUBSET (1..n) : t # {} => choice[t] \in t
  <2>1. \A t \in SUBSET (1..n) : t \in SUBSET Nat
    OBVIOUS
  <2> QED
    BY <2>1, MinIsLeast
<1>2. IsFiniteSet(1..n)
  BY FS_Interval
<1>3. \A t \in SUBSET (1..n) : choice[t] = Min(t)
  OBVIOUS
<1> HIDE DEF choice
<1>4. PICK g \in [SUBSET (1..n) -> V] : Folding(base, step, choice, SUBSET (1..n), g)
  BY <1>1, <1>2, FoldExists
<1> QED
  BY <1>3, <1>4 DEF Folding, FromRight

\* A function on 1..n is a sequence of n elements.
LEMMA TupleIsSeq ==
    ASSUME NEW S, NEW n \in Nat, NEW t \in [1..n -> S]
    PROVE  t \in Seq(S) /\ Len(t) = n
<1>1. t \in Seq(S)
  BY SeqDef
<1>2. DOMAIN t = 1..Len(t) /\ Len(t) \in Nat /\ DOMAIN t = 1..n
  BY <1>1, LenProperties
<1> QED
  BY <1>1, <1>2

\* FlattenSeq appends one sequence after the other.
LEMMA FlattenUnfolds ==
    ASSUME NEW T, NEW s \in Seq(Seq(T))
    PROVE  \E g : /\ g[0] = <<>> /\ g[Len(s)] = FlattenSeq(s)
                  /\ \A i \in 0..Len(s) : g[i] \in Seq(T)
                  /\ \A i \in 1..Len(s) : g[i] = g[i - 1] \o s[i]
<1> DEFINE n == Len(s)
           V == Seq(T)
           step == [p \in (1..n) \X V |-> p[2] \o s[p[1]]]
           f == CHOOSE f : f = [i \in 1..n |-> IF i = 1 THEN s[i] ELSE f[i - 1] \o s[i]]
<1>1. n \in Nat /\ <<>> \in V /\ \A i \in 1..n : s[i] \in V
  BY LenProperties, ElementOfSeq, EmptySeq
<1>2. \A v \in V, w \in V : v \o w \in V /\ <<>> \o v = v
  BY ConcatProperties, ConcatEmptySeq
<1>3. FlattenSeq(s) = IF n = 0 THEN s ELSE f[n]
  BY DEF FlattenSeq
<1>4. n = 0 => s = <<>>
  BY LenProperties
<1> HIDE DEF n, V, f
<1>5. \A i \in 1..n, v \in V : step[<<i, v>>] = v \o s[i] /\ step[<<i, v>>] \in V
  BY <1>1, <1>2
<1> HIDE DEF step
<1>6. PICK h \in [SUBSET (1..n) -> V] : FromLeft(<<>>, step, n, h)
  BY <1>1, <1>5, LeftExists
<1> DEFINE g == [i \in 0..n |-> h[1..i]]
<1>7. g[0] = <<>> /\ \A i \in 0..n : g[i] \in V
  <2>1. \A i \in 0..n : 1..i \in SUBSET (1..n)
    BY <1>1
  <2>2. 1..0 = {} /\ {} \in SUBSET (1..n) /\ 0 \in 0..n
    BY <1>1
  <2>3. h[{}] = <<>>
    BY <1>6, <2>2 DEF FromLeft
  <2> QED
    BY <1>1, <2>1, <2>2, <2>3
<1>8. ASSUME NEW i \in 1..n
      PROVE  g[i] = g[i - 1] \o s[i]
  <2> DEFINE t == 1..i
  <2>1. t \in SUBSET (1..n) /\ t # {} /\ Max(t) = i /\ t \ {i} = 1..(i - 1)
    BY <1>1, Ends
  <2>2. i \in 0..n /\ i - 1 \in 0..n
    BY <1>1
  <2>3. g[i] = h[t] /\ g[i - 1] = h[1..(i - 1)] /\ g[i - 1] \in V
    BY <1>7, <2>2
  <2> HIDE DEF t, g
  <2>4. h[t] = step[<<Max(t), h[t \ {Max(t)}]>>]
    BY <1>6, <2>1 DEF FromLeft
  <2> QED
    BY <1>5, <2>1, <2>3, <2>4
<1> HIDE DEF g
<1>13. \A i \in 1..n : i = 1 => g[i] = s[i]
  <2> TAKE i \in 1..n
  <2>1. ASSUME i = 1
        PROVE  g[i] = s[i]
    <3>1. i - 1 = 0 /\ s[i] \in V
      BY <1>1, <2>1
    <3>2. g[i] = g[i - 1] \o s[i] /\ g[i - 1] = <<>>
      BY <1>7, <1>8, <3>1
    <3> QED
      BY <1>2, <3>1, <3>2
  <2> QED
    BY <2>1
<1>9. \E k : k = [i \in 1..n |-> IF i = 1 THEN s[i] ELSE k[i - 1] \o s[i]]
  <2> DEFINE k == [i \in 1..n |-> g[i]]
  <2>1. ASSUME NEW i \in 1..n
        PROVE  k[i] = IF i = 1 THEN s[i] ELSE k[i - 1] \o s[i]
    <3>1. CASE i = 1
      BY <1>13, <3>1
    <3>2. CASE i # 1
      <4>1. i - 1 \in 1..n
        BY <1>1, <3>2
      <4> QED
        BY <1>8, <3>2, <4>1
    <3> QED
      BY <3>1, <3>2
  <2>2. k = [i \in 1..n |-> IF i = 1 THEN s[i] ELSE k[i - 1] \o s[i]]
    BY <2>1
  <2> QED
    BY <2>2
<1>10. f = [i \in 1..n |-> IF i = 1 THEN s[i] ELSE f[i - 1] \o s[i]]
  BY <1>9 DEF f
<1>11. \A i \in 1..n : f[i] = g[i]
  <2> DEFINE K == {i \in 0..n : i = 0 \/ f[i] = g[i]}
  <2>1. 0 \in K
    BY <1>1
  <2>2. ASSUME NEW i \in 1..n, i - 1 \in K
        PROVE  i \in K
    <3>1. CASE i = 1
      <4>1. f[i] = s[i] /\ g[i] = s[i]
        BY <1>10, <1>13, <3>1
      <4> QED
        BY <4>1
    <3>2. CASE i # 1
      <4>1. i - 1 \in 1..n /\ i - 1 # 0
        BY <1>1, <3>2
      <4>2. f[i] = f[i - 1] \o s[i] /\ g[i] = g[i - 1] \o s[i]
        BY <1>8, <1>10, <3>2
      <4>3. f[i - 1] = g[i - 1]
        BY <2>2, <4>1
      <4>4. i \in 0..n /\ f[i] = g[i]
        BY <1>1, <4>2, <4>3
      <4> QED
        BY <4>4
    <3> QED
      BY <3>1, <3>2
  <2> HIDE DEF K
  <2>3. \A i \in 0..n : i \in K
    BY <1>1, <2>1, <2>2, Upwards
  <2> QED
    BY <1>1, <2>3 DEF K
<1>12. g[n] = FlattenSeq(s)
  <2>1. CASE n = 0
    BY <1>3, <1>4, <1>7, <2>1
  <2>2. CASE n # 0
    BY <1>1, <1>3, <1>11, <2>2
  <2> QED
    BY <2>1, <2>2
<1> QED
  BY <1>7, <1>8, <1>12 DEF n, V

\* A sequence in four parts, in order.
Parts(w, c, a, b, r) == w = ((c \o a) \o b) \o r

\* The parts move on: from the last to the end of the third, from the third to the
\* second, from the second to the end of the first.
LEMMA PartsBegin ==
    ASSUME NEW T, NEW w \in Seq(T)
    PROVE  Parts(w, <<>>, <<>>, <<>>, w)
<1> DEFINE e == <<>>
<1>1. e \in Seq(T) /\ \A s \in Seq(T) : e \o s = s
  BY EmptySeq, ConcatEmptySeq
<1> HIDE DEF e
<1>2. e \o e = e
  BY <1>1
<1>3. w = ((e \o e) \o e) \o w
  BY <1>1, <1>2
<1> QED
  BY <1>3 DEF e, Parts

\* With nothing but the first part, that is the whole.
LEMMA PartsEnd ==
    ASSUME NEW T, NEW c \in Seq(T), NEW w, Parts(w, c, <<>>, <<>>, <<>>)
    PROVE  w = c
<1> DEFINE e == <<>>
<1>1. \A s \in Seq(T) : s \o e = s
  BY ConcatEmptySeq
<1>2. w = ((c \o e) \o e) \o e
  BY DEF Parts
<1> HIDE DEF e
<1> QED
  BY <1>1, <1>2

\* The head of the last part goes to the end of the third.
LEMMA PartsMove ==
    ASSUME NEW T, NEW c \in Seq(T), NEW a \in Seq(T), NEW b \in Seq(T), NEW r \in Seq(T), r # <<>>,
           NEW w, Parts(w, c, a, b, r)
    PROVE  /\ Head(r) \in T /\ Tail(r) \in Seq(T) /\ Append(b, Head(r)) \in Seq(T)
           /\ Parts(w, c, a, Append(b, Head(r)), Tail(r))
<1>1. Head(r) \in T /\ Tail(r) \in Seq(T)
  BY HeadTailProperties
<1>2. Append(b, Head(r)) \in Seq(T) /\ Append(b, Head(r)) = b \o <<Head(r)>>
  BY <1>1, AppendProperties, AppendIsConcat
<1> DEFINE h == <<Head(r)>>
           t == Tail(r)
           ca == c \o a
<1>3. h \in Seq(T) /\ t \in Seq(T)
  BY <1>1
<1>4. h \o t = r
  <2>1. Len(h) = 1 /\ h[1] = Head(r) /\ Len(r) \in Nat /\ Len(r) > 0 /\ Len(t) = Len(r) - 1
        /\ Head(r) = r[1] /\ \A i \in 1..Len(t) : t[i] = r[i + 1]
    BY HeadTailProperties, LenProperties
  <2> HIDE DEF h, t
  <2>2. /\ h \o t \in Seq(T) /\ Len(h \o t) = Len(h) + Len(t)
        /\ \A i \in 1..Len(h) + Len(t) : (h \o t)[i] = IF i <= Len(h) THEN h[i] ELSE t[i - Len(h)]
    BY <1>3, ConcatProperties
  <2>3. Len(h \o t) = Len(r)
    BY <2>1, <2>2
  <2>4. ASSUME NEW i \in 1..Len(r)
        PROVE  (h \o t)[i] = r[i]
    <3>1. CASE i = 1
      BY <2>1, <2>2, <3>1
    <3>2. CASE i # 1
      <4>1. i - 1 \in 1..Len(t) /\ ~(i <= Len(h)) /\ i \in 1..Len(h) + Len(t) /\ (i - 1) + 1 = i
            /\ i - Len(h) = i - 1
        BY <2>1, <3>2
      <4> QED
        BY <2>1, <2>2, <4>1
    <3> QED
      BY <3>1, <3>2
  <2> QED
    BY <2>2, <2>3, <2>4, SeqEqual
<1>5. ca \in Seq(T) /\ b \o h \in Seq(T) /\ ca \o b \in Seq(T)
  <2>1. ca \in Seq(T)
    BY ConcatProperties
  <2> HIDE DEF ca, h
  <2> QED
    BY <1>3, <2>1, ConcatProperties
<1>6. w = (ca \o b) \o r
  BY DEF Parts
<1> HIDE DEF h, t, ca
<1>7. (ca \o b) \o h = ca \o (b \o h)
  <2>1. ca \in Seq(T)
    BY <1>5
  <2> QED
    BY <1>3, <2>1, ConcatAssociative, SMTT(30)
<1> DEFINE cb == ca \o b
<1>8. (cb \o h) \o t = cb \o (h \o t)
  <2>1. cb \in Seq(T)
    BY <1>5
  <2> HIDE DEF cb
  <2> QED
    BY <1>3, <2>1, ConcatAssociative, SMTT(30)
<1>9. w = (ca \o (b \o h)) \o t
  BY <1>4, <1>6, <1>7, <1>8
<1> QED
  BY <1>1, <1>2, <1>9 DEF Parts, h, t, ca

\* The third part becomes the second, when that is empty.
LEMMA PartsSent ==
    ASSUME NEW T, NEW c \in Seq(T), NEW b \in Seq(T), NEW w, NEW r, Parts(w, c, <<>>, b, r)
    PROVE  Parts(w, c, b, <<>>, r)
<1> DEFINE e == <<>>
           cb == c \o b
<1>1. cb \in Seq(T)
  BY ConcatProperties
<1>2. \A s \in Seq(T) : s \o e = s
  BY ConcatEmptySeq
<1>3. w = ((c \o e) \o b) \o r
  BY DEF Parts
<1> HIDE DEF e, cb
<1>4. c \o e = c /\ cb \o e = cb
  BY <1>1, <1>2
<1>5. w = (cb \o e) \o r
  BY <1>3, <1>4 DEF cb
<1> QED
  BY <1>5 DEF Parts, e, cb

\* The second part goes to the end of the first.
LEMMA PartsStored ==
    ASSUME NEW T, NEW c \in Seq(T), NEW a \in Seq(T), NEW w, NEW b, NEW r, Parts(w, c, a, b, r)
    PROVE  c \o a \in Seq(T) /\ Parts(w, c \o a, <<>>, b, r)
<1> DEFINE e == <<>>
           ca == c \o a
<1>1. ca \in Seq(T)
  BY ConcatProperties
<1>2. \A s \in Seq(T) : s \o e = s
  BY ConcatEmptySeq
<1>3. w = (ca \o b) \o r
  BY DEF Parts
<1> HIDE DEF e, ca
<1>4. ca \o e = ca
  BY <1>1, <1>2
<1>5. w = ((ca \o e) \o b) \o r
  BY <1>3, <1>4
<1> QED
  BY <1>1, <1>5 DEF Parts, e, ca

\* The first part is a prefix.
LEMMA PartsFirst ==
    ASSUME NEW T, NEW c \in Seq(T), NEW a \in Seq(T), NEW b \in Seq(T), NEW r \in Seq(T),
           NEW w, Parts(w, c, a, b, r)
    PROVE  c = SubSeq(w, 1, Len(c))
<1>1. \A s \in Seq(T), t \in Seq(T) :
         /\ s \o t \in Seq(T) /\ Len(s \o t) = Len(s) + Len(t)
         /\ \A i \in 1..Len(s) + Len(t) : (s \o t)[i] = IF i <= Len(s) THEN s[i] ELSE t[i - Len(s)]
  BY ConcatProperties
<1>2. \A s \in Seq(T), t \in Seq(T) :
         /\ s \o t \in Seq(T) /\ Len(s) <= Len(s \o t)
         /\ \A i \in 1..Len(s) : (s \o t)[i] = s[i]
  <2> TAKE s \in Seq(T), t \in Seq(T)
  <2>1. Len(s) \in Nat /\ Len(t) \in Nat
    BY LenProperties
  <2>2. \A i \in 1..Len(s) : i <= Len(s) /\ i \in 1..Len(s) + Len(t)
    BY <2>1
  <2> QED
    BY <1>1, <2>1, <2>2
<1> DEFINE ca == c \o a
           cb == ca \o b
<1>3. ca \in Seq(T) /\ cb \in Seq(T) /\ w \in Seq(T) /\ w = cb \o r
  BY <1>2 DEF Parts
<1>4. /\ Len(c) <= Len(ca) /\ \A i \in 1..Len(c) : ca[i] = c[i]
      /\ Len(ca) <= Len(cb) /\ \A i \in 1..Len(ca) : cb[i] = ca[i]
      /\ Len(cb) <= Len(w) /\ \A i \in 1..Len(cb) : w[i] = cb[i]
  BY <1>2, <1>3
<1> HIDE DEF ca, cb
<1> DEFINE one == 1
           n == Len(c)
<1>5. n \in Nat /\ Len(ca) \in Nat /\ Len(cb) \in Nat /\ \A i \in 1..n : c[i] \in T
  BY <1>3, LenProperties, ElementOfSeq
<1>6. \A i \in 1..n : w[i] = c[i]
  <2> TAKE i \in 1..n
  <2>1. i \in 1..Len(c) /\ i \in 1..Len(ca) /\ i \in 1..Len(cb)
    BY <1>4, <1>5
  <2> QED
    BY <1>4, <2>1
<1>7. one \in Int /\ n \in Int /\ n - one + 1 = n /\ (one <= n \/ n = 0)
      /\ \A i \in one..n : w[i] \in T /\ one + i - 1 = i
  BY <1>5, <1>6
<1> HIDE DEF n
<1>8. /\ SubSeq(w, one, n) \in Seq(T)
      /\ Len(SubSeq(w, one, n)) = IF one <= n THEN n - one + 1 ELSE 0
      /\ \A i \in 1..n - one + 1 : SubSeq(w, one, n)[i] = w[one + i - 1]
  <2> HIDE DEF one
  <2> QED
    BY <1>7, SubSeqProperties
<1>9. Len(SubSeq(w, one, n)) = Len(c)
  BY <1>5, <1>7, <1>8 DEF n
<1>10. \A i \in 1..Len(c) : c[i] = SubSeq(w, one, n)[i]
  BY <1>5, <1>6, <1>7, <1>8 DEF n
<1>11. c = SubSeq(w, one, n)
  BY <1>8, <1>9, <1>10, SeqEqual
<1> QED
  BY <1>11 DEF n

\* n more rows follow those up to k.
LEMMA HandedOn ==
    ASSUME NEW T, NEW s \in Seq(T), NEW k \in 0..Len(s), NEW n \in 0..(Len(s) - k)
    PROVE  SubSeq(s, 1, k) \o [i \in 1..n |-> s[k + i]] = SubSeq(s, 1, k + n)
<1> DEFINE one == 1
           f == k + 1
           l == k + n
           more == [i \in 1..n |-> s[k + i]]
<1>1. /\ Len(s) \in Nat /\ k \in Nat /\ n \in Nat /\ l \in k..Len(s) /\ f \in Int /\ l \in Int
      /\ one \in 1..Len(s) + 1 /\ k \in one - 1..Len(s) /\ l - f + 1 = n
      /\ (f <= l \/ n = 0) /\ \A i \in f..l : s[i] \in T
      /\ \A i \in 1..n : k + i \in 1..Len(s) /\ f + i - 1 = k + i /\ s[k + i] \in T
  BY LenProperties, ElementOfSeq
<1>2. more \in Seq(T) /\ Len(more) = n
  <2>1. more \in [1..n -> T]
    BY <1>1
  <2> HIDE DEF more
  <2> QED
    BY <1>1, <2>1, TupleIsSeq
<1>3. \A i \in 1..n : more[i] = s[k + i]
  OBVIOUS
<1> HIDE DEF one, f, l, more
<1>4. /\ SubSeq(s, f, l) \in Seq(T) /\ Len(SubSeq(s, f, l)) = IF f <= l THEN l - f + 1 ELSE 0
      /\ \A i \in 1..l - f + 1 : SubSeq(s, f, l)[i] = s[f + i - 1]
  <2>1. f \in Int /\ l \in Int /\ \A i \in f..l : s[i] \in T
    BY <1>1
  <2> QED
    BY <2>1, SubSeqProperties
<1>5. Len(SubSeq(s, f, l)) = n /\ \A i \in 1..n : SubSeq(s, f, l)[i] = more[i]
  BY <1>1, <1>3, <1>4
<1>6. SubSeq(s, f, l) = more
  BY <1>2, <1>4, <1>5, SeqEqual
<1>7. SubSeq(s, one, k) \o SubSeq(s, k + 1, l) = SubSeq(s, one, l)
  BY <1>1, ConcatAdjacentSubSeq
<1> QED
  BY <1>6, <1>7 DEF one, f, l, more

----------------------------------------------------------------------------
(* Durations.                                                              *)

\* A number is its quotient and its rest.
LEMMA Division ==
    ASSUME NEW a \in Int, NEW b \in Nat, b > 0
    PROVE  /\ a \div b \in Int /\ a % b \in Int
           /\ a = b * (a \div b) + (a % b)
           /\ 0 <= a % b /\ a % b < b
BY SMTT(30)

\* Durations differ if their seconds or microseconds do.
LEMMA SameDuration ==
    ASSUME NEW s \in Int, NEW t \in Int, NEW us, NEW v
    PROVE  Duration(s, us) = Duration(t, v) <=> s = t /\ us = v
<1>1. s = 86400 * (s \div 86400) + (s % 86400) /\ t = 86400 * (t \div 86400) + (t % 86400)
  BY SMTT(30)
<1>2. Duration(s, us) = Duration(t, v) =>
        s \div 86400 = t \div 86400 /\ s % 86400 = t % 86400 /\ us = v
  BY SMTT(30) DEF Duration, Day
<1> QED
  BY <1>1, <1>2, SMTT(30)

\* The powers of ten that fill a fraction up to six digits.
LEMMA Powers ==
    ASSUME NEW e, e \in {0, 1, 2, 3, 4, 5, 6}
    PROVE  10^e \in Nat \ {0}
<1>1. /\ 10^0 = 1 /\ 10^1 = 10 /\ 10^2 = 100 /\ 10^3 = 1000
    /\ 10^4 = 10000 /\ 10^5 = 100000 /\ 10^6 = 1000000
  BY SMTT(30)
<1>2. CASE e = 0
  BY <1>1, <1>2, SMTT(30)
<1>3. CASE e = 1
  BY <1>1, <1>3, SMTT(30)
<1>4. CASE e = 2
  BY <1>1, <1>4, SMTT(30)
<1>5. CASE e = 3
  BY <1>1, <1>5, SMTT(30)
<1>6. CASE e = 4
  BY <1>1, <1>6, SMTT(30)
<1>7. CASE e = 5
  BY <1>1, <1>7, SMTT(30)
<1>8. CASE e = 6
  BY <1>1, <1>8, SMTT(30)
<1> QED
  BY <1>2, <1>3, <1>4, <1>5, <1>6, <1>7, <1>8, SMTT(30)

\* A fraction that its column keeps comes back as it was.
LEMMA FractionReturns ==
    ASSUME NEW us \in Int, NEW digits \in 0..6, Keeps(digits, us)
    PROVE  SecondFraction(Digits(us, digits), digits) = us
<1>1. \E p \in Nat \ {0} : 10^(6 - digits) = p
  <2> DEFINE e == 6 - digits
  <2>1. \/ e = 0 \/ e = 1 \/ e = 2 \/ e = 3 \/ e = 4 \/ e = 5 \/ e = 6
    BY SMTT(30)
  <2> HIDE DEF e
  <2>3. 10^e \in Nat \ {0}
    BY <2>1, Powers, SMTT(30)
  <2> QED
    BY <2>3 DEF e
<1>2. PICK p \in Nat \ {0} : 10^(6 - digits) = p
  BY <1>1
<1>3. us % p = 0
  BY <1>2 DEF Keeps
<1>4. us = p * (us \div p) /\ us \div p \in Int
  BY <1>3, Division, SMTT(30)
<1>5. (us \div p) * p = us
  BY <1>4, SMTT(30)
<1> QED
  BY <1>2, <1>5, SMTT(30) DEF SecondFraction, Digits

\* Days, hours, minutes and seconds of a number of seconds.
Reads(total, us, days, hours, minutes, seconds) ==
    /\ days \in Int /\ hours \in Int /\ minutes \in Int /\ seconds \in Int
    /\ 0 <= hours /\ hours < 24 /\ 0 <= minutes /\ minutes < 60
    /\ 0 <= seconds /\ seconds < 60
    /\ total = days * 86400 + hours * 3600 + minutes * 60 + seconds
    /\ Duration(total, us) = [days |-> days, us |-> us,
                              seconds |-> hours * 3600 + minutes * 60 + seconds]
    /\ EscapeTimedelta(Duration(total, us)) =
         [neg |-> days < 0,
          h |-> IF days < 0 THEN -(hours + days * 24) ELSE hours + days * 24,
          m |-> minutes, s |-> seconds, us |-> us]

\* Hours, minutes and seconds below a day give its seconds back.
LEMMA Clock ==
    ASSUME NEW total \in Int, NEW us \in Int
    PROVE  \E days, hours, minutes, seconds :
             Reads(total, us, days, hours, minutes, seconds)
<1> DEFINE days == total \div 86400
           rest == total % 86400
           hours == rest \div 3600
           minutes == (rest \div 60) % 60
           seconds == rest % 60
<1>1. /\ days \in Int /\ rest \in Int /\ total = days * 86400 + rest
      /\ 0 <= rest /\ rest < 86400
  BY SMTT(30)
<1> HIDE DEF days, rest
<1>2. /\ hours \in Int /\ minutes \in Int /\ seconds \in Int
      /\ 0 <= hours /\ hours < 24 /\ 0 <= minutes /\ minutes < 60
      /\ 0 <= seconds /\ seconds < 60
      /\ rest = hours * 3600 + minutes * 60 + seconds
  BY <1>1, SMTT(30)
<1>3. hours % 24 = hours
  <2> HIDE DEF hours
  <2> QED
    BY <1>2, SMTT(30)
<1>4. Duration(total, us) = [days |-> days, seconds |-> rest, us |-> us]
  BY SMTT(30) DEF Duration, Day, days, rest
<1>5. EscapeTimedelta(Duration(total, us)) =
        [neg |-> hours + days * 24 < 0,
         h |-> IF hours + days * 24 < 0 THEN -(hours + days * 24) ELSE hours + days * 24,
         m |-> minutes, s |-> seconds, us |-> us]
  <2> DEFINE d == Duration(total, us)
  <2>1. d.days = days /\ d.seconds = rest /\ d.us = us
    BY <1>4, SMTT(30)
  <2>2. ((d.seconds \div 3600) % 24) + d.days * 24 = hours + days * 24
    BY <1>3, <2>1, SMTT(30)
  <2> HIDE DEF d, hours
  <2> QED
    BY <2>1, <2>2, SMTT(30) DEF EscapeTimedelta, d, minutes, seconds
<1> HIDE DEF hours, minutes, seconds
<1>6. hours + days * 24 < 0 <=> days < 0
  BY <1>1, <1>2, SMTT(30)
<1>7. total = days * 86400 + hours * 3600 + minutes * 60 + seconds
  BY <1>1, <1>2, SMTT(30)
<1>8. Duration(total, us) = [days |-> days, us |-> us,
                             seconds |-> hours * 3600 + minutes * 60 + seconds]
  BY <1>2, <1>4, SMTT(30)
<1>9. Reads(total, us, days, hours, minutes, seconds)
  BY <1>1, <1>2, <1>5, <1>6, <1>7, <1>8, SMTT(30) DEF Reads
<1> QED
  BY <1>9, SMTT(30)

\* Microseconds of a second.
Fraction(us) == us \in Int /\ 0 <= us /\ us < 1000000

\* The seconds of a time as it is written.
Clocked(t) == (t.h * 60 + t.m) * 60 + t.s

\* What escape_timedelta writes: whole hours with a sign, and what is left below them.
Written(t, total, us, h, below) ==
    /\ h \in Int /\ below \in Int /\ 0 <= below /\ total = h + below
    /\ (total % 3600 = 0) <=> (below = 0)
    /\ t.neg <=> (total < 0)
    /\ t.us = us
    /\ Clocked(t) = IF total < 0 THEN below - h ELSE total

LEMMA TimeWritten ==
    ASSUME NEW total \in Int, NEW us, Fraction(us)
    PROVE  \E h, below : Written(EscapeTimedelta(Duration(total, us)), total, us, h, below)
<1>1. PICK days, hours, minutes, seconds : Reads(total, us, days, hours, minutes, seconds)
  BY Clock DEF Fraction
<1> DEFINE below == minutes * 60 + seconds
           h == hours * 3600 + days * 86400
           t == EscapeTimedelta(Duration(total, us))
<1>2. /\ below \in Int /\ h \in Int /\ 0 <= below /\ below < 3600
      /\ total = h + below /\ h % 3600 = 0
      /\ (days < 0 <=> total < 0)
  BY <1>1, SMTT(30) DEF Reads
<1>3. total % 3600 = 0 <=> below = 0
  <2>1. total % 3600 = below
    BY <1>1, SMTT(30) DEF Reads
  <2> QED
    BY <2>1
<1>4. /\ t.neg <=> days < 0
      /\ t.us = us
      /\ (t.h * 60 + t.m) * 60 + t.s = IF days < 0 THEN below - h ELSE h + below
  <2>1. /\ (t.neg <=> days < 0) /\ t.us = us /\ t.m = minutes /\ t.s = seconds
        /\ t.h = IF days < 0 THEN -(hours + days * 24) ELSE hours + days * 24
    <3>1. t = [neg |-> days < 0,
               h |-> IF days < 0 THEN -(hours + days * 24) ELSE hours + days * 24,
               m |-> minutes, s |-> seconds, us |-> us]
      BY <1>1, SMTT(30) DEF Reads
    <3> HIDE DEF t
    <3> QED
      BY <3>1, Zenon
  <2>2. days \in Int /\ hours \in Int /\ minutes \in Int /\ seconds \in Int
    BY <1>1 DEF Reads
  <2> HIDE DEF t
  <2>3. CASE days < 0
    BY <2>1, <2>2, <2>3, SMTT(30)
  <2>4. CASE ~(days < 0)
    BY <2>1, <2>2, <2>4, SMTT(30)
  <2> QED
    BY <2>3, <2>4
<1> HIDE DEF below, h, t
<1>5. Clocked(t) = IF total < 0 THEN below - h ELSE total
  BY <1>2, <1>4, SMTT(30) DEF Clocked
<1>6. days < 0 <=> total < 0
  BY <1>2
<1>7. t.neg <=> (total < 0)
  BY <1>4, <1>6, Zenon
<1>8. Written(t, total, us, h, below)
  <2>1. t.us = us
    BY <1>4
  <2> QED
    BY <1>2, <1>3, <1>5, <1>7, <2>1 DEF Written
<1>9. \E k, b : Written(t, total, us, k, b)
  BY <1>8, Zenon
<1> QED
  BY <1>9 DEF t

\* What can be held is written as a time of the column.
LEMMA HeldFits ==
    ASSUME NEW total \in Int, NEW us, Fraction(us), Holds(Duration(total, us))
    PROVE  TimeFits(EscapeTimedelta(Duration(total, us)))
<1> DEFINE t == EscapeTimedelta(Duration(total, us))
<1>1. PICK h, below : Written(t, total, us, h, below)
  BY TimeWritten
<1>2. Total(Duration(total, us)) = total /\ Duration(total, us).us = us
  BY SMTT(30) DEF Total, Duration, Day
<1> HIDE DEF t
<1>3. MaxTime \in Int
  BY SMTT(30) DEF MaxTime
<1>4. \/ total >= 0 /\ (total < MaxTime \/ (total = MaxTime /\ us = 0))
      \/ us = 0 /\ total % 3600 = 0 /\ total >= -MaxTime /\ total <= 0
  BY <1>2 DEF Holds
<1>5. Clocked(t) < MaxTime \/ (Clocked(t) = MaxTime /\ t.us = 0)
  BY <1>1, <1>3, <1>4, SMTT(30) DEF Written
<1> QED
  BY <1>5 DEF TimeFits, Clocked, t

\* What convert_timedelta makes of what escape_timedelta wrote.
LEMMA DurationComesBack ==
    ASSUME NEW total \in Int, NEW us, Fraction(us),
           NEW digits \in 0..6, Keeps(digits, us),
           total >= 0 \/ (us = 0 /\ total % 3600 = 0)
    PROVE  ConvertTimedelta(EscapeTimedelta(Duration(total, us)), digits) = Duration(total, us)
<1> DEFINE t == EscapeTimedelta(Duration(total, us))
           x == (t.h * 60 + t.m) * 60 + t.s
           u == SecondFraction(Digits(t.us, digits), digits)
<1>1. PICK h, below : Written(t, total, us, h, below)
  BY TimeWritten
<1>2. u = us
  BY <1>1, FractionReturns DEF Fraction, Written
<1>3. x = IF total < 0 THEN below - h ELSE total
  BY <1>1 DEF Clocked, Written
<1>4. ConvertTimedelta(t, digits) =
          IF ~t.neg THEN Duration(x, u)
          ELSE IF u = 0 THEN Duration(-x, 0)
          ELSE Duration(-x - 1, 1000000 - u)
  <2> HIDE DEF t
  <2> QED
    BY SMTT(30) DEF ConvertTimedelta
<1> HIDE DEF t, x, u
<1>5. CASE total >= 0
  <2>1. ~t.neg /\ x = total
    BY <1>1, <1>3, <1>5, SMTT(30) DEF Written
  <2> QED
    BY <1>2, <1>4, <2>1 DEF t
<1>6. CASE total < 0
  <2>1. t.neg /\ us = 0 /\ -x = total
    BY <1>1, <1>3, <1>6, SMTT(30) DEF Written
  <2> QED
    BY <1>2, <1>4, <2>1 DEF t
<1> QED
  BY <1>5, <1>6, SMTT(30)

----------------------------------------------------------------------------
\* What becomes of a duration on its way.
DurationInv ==
    value.kind = "duration" =>
        /\ \E s \in Int, us \in Int, n \in 0..6 :
              /\ Fraction(us) /\ Keeps(n, us)
              /\ value = [kind |-> "duration", d |-> Duration(s, us), digits |-> n]
        /\ Holds(value.d) =>
              /\ text \in {Nothing, [kind |-> "time", t |-> EscapeTimedelta(value.d)]}
              /\ back \in {Nothing,
                           [kind |-> "duration", digits |-> value.digits,
                            d |-> ConvertTimedelta(EscapeTimedelta(value.d), value.digits)]}

\* The invariant holds of every duration to begin with and survives each step.
LEMMA DurationInit == ConversionInit => DurationInv
<1> SUFFICES ASSUME ConversionInit, value.kind = "duration"
             PROVE  DurationInv
  BY DEF DurationInv
<1>1. value \in Durations /\ Keeps(value.digits, value.d.us)
  BY DEF ConversionInit, Rows
<1>2. PICK s \in Seconds, us \in Micros, n \in 0..6 :
        value = [kind |-> "duration", d |-> Duration(s, us), digits |-> n]
  BY <1>1 DEF Durations
<1>3. s \in Int /\ us \in Int /\ Fraction(us)
  BY ConversionAssumption, SMTT(30) DEF Fraction
<1>4. Keeps(n, us)
  BY <1>1, <1>2 DEF Duration
<1>5. text = Nothing /\ back = Nothing
  BY DEF ConversionInit
<1> QED
  <2>1. \E r \in Int, v \in Int, k \in 0..6 :
           /\ Fraction(v) /\ Keeps(k, v)
           /\ value = [kind |-> "duration", d |-> Duration(r, v), digits |-> k]
    BY <1>2, <1>3, <1>4, Zenon
  <2> QED
    BY <1>5, <2>1 DEF DurationInv

LEMMA DurationStays == DurationInv /\ [ConversionNext]_conversionVars => DurationInv'
<1> SUFFICES ASSUME DurationInv, [ConversionNext]_conversionVars, value.kind = "duration"
             PROVE  DurationInv'
  BY DEF DurationInv, ConversionNext, conversionVars,
         EscapeDuration, ConvertTime, SendRow, ReadRowData
<1>0. /\ Holds(value.d) =>
            text \in {Nothing, [kind |-> "time", t |-> EscapeTimedelta(value.d)]}
      /\ value' = value
  BY DEF DurationInv, ConversionNext, conversionVars,
         EscapeDuration, ConvertTime, SendRow, ReadRowData
<1>1. CASE EscapeDuration
  <2>1. Holds(value.d) => TimeFits(EscapeTimedelta(value.d))
    BY HeldFits DEF DurationInv
  <2>2. Holds(value.d) => text' = [kind |-> "time", t |-> EscapeTimedelta(value.d)]
    BY <1>1, <2>1 DEF EscapeDuration
  <2> QED
    BY <1>1, <2>2 DEF DurationInv, EscapeDuration
<1>2. CASE ConvertTime
  BY <1>0, <1>2 DEF DurationInv, ConvertTime, Nothing
<1>3. CASE SendRow
  BY <1>3 DEF SendRow
<1>4. CASE ReadRowData
  BY <1>0, <1>4 DEF ReadRowData, DurationInv, Nothing
<1>5. CASE UNCHANGED conversionVars
  BY <1>5 DEF DurationInv, conversionVars
<1> QED
  BY <1>1, <1>2, <1>3, <1>4, <1>5 DEF ConversionNext

\* Every duration that a TIME column can hold is stored and comes back as it was given,
\* unless it is below zero and not of whole hours: escape_timedelta, convert_timedelta.
THEOREM DurationsComeBack == ConversionSpec => []DurationsReturn
<1>1. ASSUME DurationInv, value.kind = "duration", Holds(value.d)
      PROVE  text # Refused /\ (back # Nothing => back = value)
  <2>1. PICK s \in Int, us \in Int, n \in 0..6 :
          /\ Fraction(us) /\ Keeps(n, us)
          /\ value = [kind |-> "duration", d |-> Duration(s, us), digits |-> n]
    BY <1>1 DEF DurationInv
  <2>2. Total(Duration(s, us)) = s /\ Duration(s, us).us = us
    BY SMTT(30) DEF Total, Duration, Day
  <2>3. s >= 0 \/ (us = 0 /\ s % 3600 = 0)
    BY <1>1, <2>1, <2>2 DEF Holds
  <2>4. ConvertTimedelta(EscapeTimedelta(Duration(s, us)), n) = Duration(s, us)
    BY <2>1, <2>3, DurationComesBack
  <2>5. back # Nothing => back = [kind |-> "duration", digits |-> n, d |-> Duration(s, us)]
    BY <1>1, <2>1, <2>4 DEF DurationInv
  <2>6. text # Refused
    BY <1>1 DEF DurationInv, Nothing, Refused
  <2> QED
    BY <2>1, <2>5, <2>6
<1>2. DurationInv => DurationsReturn
  BY <1>1 DEF DurationsReturn
<1> QED
  BY <1>2, DurationInit, DurationStays, PTL DEF ConversionSpec

----------------------------------------------------------------------------
(* Rows as the server sends them.                                          *)

\* A number is its lowest byte and the rest.
LEMMA UnsignedUnfolds ==
    ASSUME NEW n \in Nat, NEW s \in [1..n -> Int]
    PROVE  \E r : /\ Unsigned(s) = r[1..n] /\ r[(n + 1)..n] = 0
                  /\ \A i \in 1..n : r[i..n] = s[i] + 256 * r[(i + 1)..n]
<1> DEFINE step == [p \in (1..n) \X Int |-> s[p[1]] + 256 * p[2]]
           g == CHOOSE g : g = [t \in SUBSET (1..n) |->
                    IF t = {} THEN 0 ELSE s[Min(t)] + 256 * g[t \ {Min(t)}]]
<1>1. \A i \in 1..n, v \in Int :
          step[<<i, v>>] \in Int /\ step[<<i, v>>] = s[i] + 256 * v
  OBVIOUS
<1>2. g = [t \in SUBSET (1..n) |-> IF t = {} THEN 0 ELSE s[Min(t)] + 256 * g[t \ {Min(t)}]]
  <2> HIDE DEF step
  <2>1. PICK h \in [SUBSET (1..n) -> Int] : FromRight(0, step, n, h)
    <3>1. 0 \in Int /\ \A i \in 1..n, v \in Int : step[<<i, v>>] \in Int
      BY <1>1
    <3> HIDE DEF g
    <3> QED
      BY <3>1, RightExists
  <2>2. ASSUME NEW t \in SUBSET (1..n)
        PROVE  h[t] = IF t = {} THEN 0 ELSE s[Min(t)] + 256 * h[t \ {Min(t)}]
    <3>1. t # {} => Min(t) \in 1..n
      <4>1. t \in SUBSET Nat
        OBVIOUS
      <4> QED
        BY <4>1, MinIsLeast
    <3>2. t # {} => h[t \ {Min(t)}] \in Int
      OBVIOUS
    <3> QED
      BY <1>1, <2>1, <3>1, <3>2 DEF FromRight
  <2>3. h = [t \in SUBSET (1..n) |-> IF t = {} THEN 0 ELSE s[Min(t)] + 256 * h[t \ {Min(t)}]]
    BY <2>2
  <2> QED
    BY <2>3
<1>3. Unsigned(s) = g[1..n]
  <2>1. DOMAIN s = 1..n
    OBVIOUS
  <2> QED
    BY <2>1 DEF Unsigned, FoldRight, MapThenFoldSet
<1> HIDE DEF g
<1>4. (n + 1)..n = {} /\ {} \in SUBSET (1..n)
  OBVIOUS
<1>5. \A i \in 1..n : g[i..n] = s[i] + 256 * g[(i + 1)..n]
  <2> TAKE i \in 1..n
  <2>1. i..n \in SUBSET (1..n) /\ i..n # {} /\ Min(i..n) = i /\ (i..n) \ {i} = (i + 1)..n
    BY Ends
  <2>2. g[i..n] = s[Min(i..n)] + 256 * g[(i..n) \ {Min(i..n)}]
    <3> DEFINE t == i..n
    <3>1. t \in SUBSET (1..n) /\ t # {}
      BY <2>1
    <3> HIDE DEF t
    <3>2. g[t] = s[Min(t)] + 256 * g[t \ {Min(t)}]
      BY <1>2, <3>1
    <3> QED
      BY <3>2 DEF t
  <2> QED
    BY <2>1, <2>2
<1>6. g[(n + 1)..n] = 0
  BY <1>2, <1>4
<1> QED
  BY <1>3, <1>5, <1>6

\* What follows the first byte.
LEMMA AfterFirst ==
    ASSUME NEW f \in Int, NEW t \in Seq(Int), Len(t) > 0
    PROVE  /\ SubSeq(<<f>> \o t, 2, Len(t) + 1) = t
           /\ (<<f>> \o t)[1] = f /\ Len(<<f>> \o t) = Len(t) + 1
<1> DEFINE s == <<f>>
           k == 2
           m == Len(t) + 1
           head == s \o t
<1>1. s \in Seq(Int) /\ Len(s) = 1 /\ s[1] = f /\ k = 2 /\ m = Len(t) + 1 /\ Len(t) \in Nat
  OBVIOUS
<1> HIDE DEF s, k, m
<1>2. SubSeq(head, k, m) = SubSeq(t, k - Len(s), m - Len(s))
  <2>1. k \in Len(s) + 1 .. Len(s) + Len(t) /\ m \in Len(s) + 1 .. Len(s) + Len(t)
    BY <1>1
  <2>2. s \in Seq(Int) /\ t \in Seq(Int)
    BY <1>1
  <2>3. SubSeq(s \o t, k, m) = SubSeq(t, k - Len(s), m - Len(s))
    BY <2>1, <2>2, SubSeqOfConcat2
  <2> QED
    BY <2>3
<1>3. k - Len(s) = 1 /\ m - Len(s) = Len(t)
  BY <1>1
<1>4. SubSeq(t, 1, Len(t)) = t
  BY SubSeqFull
<1>5. /\ Len(s \o t) = Len(s) + Len(t)
      /\ \A i \in 1..Len(s) + Len(t) :
            (s \o t)[i] = IF i <= Len(s) THEN s[i] ELSE t[i - Len(s)]
  BY <1>1, ConcatProperties
<1>6. (s \o t)[1] = f /\ Len(s \o t) = m
  BY <1>1, <1>5
<1> QED
  BY <1>2, <1>3, <1>4, <1>6 DEF s, k, m

\* Bytes are numbers.
LEMMA ByteType ==
    ASSUME NEW i \in Nat, NEW k \in {0, 1, 2, 3}
    PROVE  Byte(i, k) \in Int
<1>1. 256^0 = 1 /\ 256^1 = 256 /\ 256^2 = 65536 /\ 256^3 = 16777216
  BY SMTT(30)
<1>2. 256^k \in Nat /\ 256^k > 0
  <2>1. CASE k = 0
    BY <1>1, <2>1, SMTT(30)
  <2>2. CASE k = 1
    BY <1>1, <2>2, SMTT(30)
  <2>3. CASE k = 2
    BY <1>1, <2>3, SMTT(30)
  <2>4. CASE k = 3
    BY <1>1, <2>4, SMTT(30)
  <2> QED
    BY <2>1, <2>2, <2>3, <2>4
<1> QED
  BY <1>2, SMTT(30) DEF Byte

\* Four rests of divisions by 256, and the number again.
LEMMA Recomposed ==
    ASSUME NEW i \in Int, NEW p \in Int, NEW q \in Int, NEW r \in Int,
           NEW a \in Int, NEW b \in Int, NEW c \in Int,
           i = 256 * p + a, p = 256 * q + b, q = 256 * r + c,
           0 <= a, a < 256, 0 <= b, b < 256, 0 <= c, c < 256, 0 <= p, 0 <= q, 0 <= r
    PROVE  /\ i < 65536 => a + 256 * b = i
           /\ i < 16777216 => a + 256 * (b + 256 * c) = i
           /\ i <= 2147483647 => r < 256
           /\ a + 256 * (b + 256 * (c + 256 * r)) = i
<1>1. i < 65536 => a + 256 * b = i
  <2>1. i < 65536 => p < 256
    BY SMTT(30)
  <2>2. p < 256 => q = 0
    BY SMTT(30)
  <2> QED
    BY <2>1, <2>2, SMTT(30)
<1>2. i < 16777216 => a + 256 * (b + 256 * c) = i
  <2>1. i < 16777216 => p < 65536
    BY SMTT(30)
  <2>2. p < 65536 => q < 256
    BY SMTT(30)
  <2>3. q < 256 => r = 0
    BY SMTT(30)
  <2> QED
    BY <2>1, <2>2, <2>3, SMTT(30)
<1>3. i <= 2147483647 => r < 256
  <2>1. i <= 2147483647 => p < 16777216
    BY SMTT(30)
  <2>2. p < 16777216 => q < 65536
    BY SMTT(30)
  <2>3. q < 65536 => r < 256
    BY SMTT(30)
  <2> QED
    BY <2>1, <2>2, <2>3, SMTT(30)
<1>4. a + 256 * (b + 256 * (c + 256 * r)) = i
  BY SMTT(30)
<1> QED
  BY <1>1, <1>2, <1>3, <1>4, SMTT(30)

\* A number is put together from its bytes.
LEMMA LowBytes ==
    ASSUME NEW i \in Nat
    PROVE  /\ i < 65536 => Byte(i, 0) + 256 * Byte(i, 1) = i
           /\ i < 16777216 => Byte(i, 0) + 256 * (Byte(i, 1) + 256 * Byte(i, 2)) = i
           /\ i <= 2147483647 =>
                Byte(i, 0) + 256 * (Byte(i, 1) + 256 * (Byte(i, 2) + 256 * Byte(i, 3))) = i
<1>1. 256^0 = 1 /\ 256^1 = 256 /\ 256^2 = 65536 /\ 256^3 = 16777216
  BY SMTT(30)
<1>2. /\ Byte(i, 0) = i % 256 /\ Byte(i, 1) = (i \div 256) % 256
      /\ Byte(i, 2) = (i \div 65536) % 256 /\ Byte(i, 3) = (i \div 16777216) % 256
  BY <1>1, SMTT(30) DEF Byte
<1> DEFINE q1 == i \div 256
           q2 == i \div 65536
           q3 == i \div 16777216
<1>3. /\ q1 \in Int /\ q2 \in Int /\ q3 \in Int /\ q2 = q1 \div 256 /\ q3 = q2 \div 256
      /\ q1 >= 0 /\ q2 >= 0 /\ q3 >= 0
  BY SMTT(30)
<1> HIDE DEF q1, q2, q3
<1>4. /\ Byte(i, 0) \in Int /\ i = 256 * q1 + Byte(i, 0) /\ 0 <= Byte(i, 0) /\ Byte(i, 0) < 256
      /\ Byte(i, 1) \in Int /\ q1 = 256 * q2 + Byte(i, 1) /\ 0 <= Byte(i, 1) /\ Byte(i, 1) < 256
      /\ Byte(i, 2) \in Int /\ q2 = 256 * q3 + Byte(i, 2) /\ 0 <= Byte(i, 2) /\ Byte(i, 2) < 256
  <2>1. Byte(i, 0) = i % 256 /\ i = 256 * q1 + (i % 256)
    BY <1>2, SMTT(30) DEF q1
  <2>2. Byte(i, 1) = q1 % 256 /\ q1 = 256 * q2 + (q1 % 256)
    BY <1>2, <1>3, SMTT(30) DEF q1
  <2>3. Byte(i, 2) = q2 % 256 /\ q2 = 256 * q3 + (q2 % 256)
    BY <1>2, <1>3, SMTT(30) DEF q2
  <2>4. \A n \in Int : n % 256 \in Int /\ 0 <= n % 256 /\ n % 256 < 256
    BY SMTT(30)
  <2> QED
    BY <1>3, <2>1, <2>2, <2>3, <2>4, SMTT(30)
<1>5. q3 < 256 => Byte(i, 3) = q3
  BY <1>2, <1>3, SMTT(30) DEF q3
<1>6. /\ i < 65536 => Byte(i, 0) + 256 * Byte(i, 1) = i
      /\ i < 16777216 => Byte(i, 0) + 256 * (Byte(i, 1) + 256 * Byte(i, 2)) = i
      /\ i <= 2147483647 => q3 < 256
      /\ Byte(i, 0) + 256 * (Byte(i, 1) + 256 * (Byte(i, 2) + 256 * q3)) = i
  <2>1. q1 \in Int /\ q2 \in Int /\ q3 \in Int /\ 0 <= q1 /\ 0 <= q2 /\ 0 <= q3
    BY <1>3
  <2> QED
    BY <1>4, <2>1, Recomposed, SMTT(30)
<1> QED
  BY <1>5, <1>6, SMTT(30)

\* Little-endian numbers of two, three and eight bytes, the last four of these zero.
LEMMA UnsignedOfTwo ==
    ASSUME NEW s \in [1..2 -> Int]
    PROVE  Unsigned(s) = s[1] + 256 * s[2]
<1>1. PICK r : /\ Unsigned(s) = r[1..2] /\ r[(2 + 1)..2] = 0
               /\ \A i \in 1..2 : r[i..2] = s[i] + 256 * r[(i + 1)..2]
  BY UnsignedUnfolds
<1>2. r[1..2] = s[1] + 256 * r[2..2] /\ r[2..2] = s[2] + 256 * r[3..2] /\ r[3..2] = 0
  BY <1>1
<1> QED
  BY <1>1, <1>2

LEMMA UnsignedOfThree ==
    ASSUME NEW s \in [1..3 -> Int]
    PROVE  Unsigned(s) = s[1] + 256 * (s[2] + 256 * s[3])
<1>1. PICK r : /\ Unsigned(s) = r[1..3] /\ r[(3 + 1)..3] = 0
               /\ \A i \in 1..3 : r[i..3] = s[i] + 256 * r[(i + 1)..3]
  BY UnsignedUnfolds
<1>2. /\ r[1..3] = s[1] + 256 * r[2..3] /\ r[2..3] = s[2] + 256 * r[3..3]
      /\ r[3..3] = s[3] + 256 * r[4..3] /\ r[4..3] = 0
  BY <1>1
<1> QED
  BY <1>1, <1>2

LEMMA UnsignedOfEight ==
    ASSUME NEW s \in [1..8 -> Int], \A i \in 5..8 : s[i] = 0
    PROVE  Unsigned(s) = s[1] + 256 * (s[2] + 256 * (s[3] + 256 * s[4]))
<1>1. PICK r : /\ Unsigned(s) = r[1..8] /\ r[(8 + 1)..8] = 0
               /\ \A i \in 1..8 : r[i..8] = s[i] + 256 * r[(i + 1)..8]
  BY UnsignedUnfolds
<1>2. s[5] = 0 /\ s[6] = 0 /\ s[7] = 0 /\ s[8] = 0
  OBVIOUS
<1>3. /\ r[8..8] = s[8] + 256 * r[9..8] /\ r[9..8] = 0
      /\ r[7..8] = s[7] + 256 * r[8..8] /\ r[6..8] = s[6] + 256 * r[7..8]
      /\ r[5..8] = s[5] + 256 * r[6..8]
  BY <1>1
<1>4. r[5..8] = 0
  BY <1>2, <1>3
<1>5. /\ r[4..8] = s[4] + 256 * r[5..8] /\ r[3..8] = s[3] + 256 * r[4..8]
      /\ r[2..8] = s[2] + 256 * r[3..8] /\ r[1..8] = s[1] + 256 * r[2..8]
  BY <1>1
<1> QED
  BY <1>1, <1>4, <1>5

\* How many bytes follow, by the first.
LEMMA LengthRead ==
    ASSUME NEW head, head[1] \in Int
    PROVE  /\ head[1] = 251 => ReadLength(head) = NULL
           /\ head[1] < 251 => ReadLength(head) = head[1]
           /\ head[1] = 252 => ReadLength(head) = Unsigned(SubSeq(head, 2, 3))
           /\ head[1] = 253 => ReadLength(head) = Unsigned(SubSeq(head, 2, 4))
           /\ head[1] = 254 => ReadLength(head) = Unsigned(SubSeq(head, 2, 9))
<1> DEFINE f == head[1]
           two == Unsigned(SubSeq(head, 2, 3))
           three == Unsigned(SubSeq(head, 2, 4))
           eight == Unsigned(SubSeq(head, 2, 9))
           null == NULL
<1>1. ReadLength(head) = CASE f = 251 -> null [] f < 251 -> f [] f = 252 -> two
                           [] f = 253 -> three [] OTHER -> eight
  BY DEF ReadLength
<1>0. f \in Int
  OBVIOUS
<1> HIDE DEF f, two, three, eight, null
<1>2. f = 251 => ReadLength(head) = null
  BY <1>0, <1>1, SMTT(30)
<1>3. f < 251 => ReadLength(head) = f
  BY <1>0, <1>1, SMTT(30)
<1>4. f = 252 => ReadLength(head) = two
  BY <1>0, <1>1, SMTT(30)
<1>5. f = 253 => ReadLength(head) = three
  BY <1>0, <1>1, SMTT(30)
<1>6. f = 254 => ReadLength(head) = eight
  BY <1>0, <1>1, SMTT(30)
<1> QED
  BY <1>2, <1>3, <1>4, <1>5, <1>6 DEF f, two, three, eight, null

\* The bytes of _lenenc_int.
LEMMA BytesType ==
    ASSUME NEW i \in Nat, NEW n \in 1..4
    PROVE  /\ Bytes(i, n) \in [1..n -> Int] /\ Bytes(i, n) \in Seq(Int) /\ Len(Bytes(i, n)) = n
           /\ \A k \in 1..n : Bytes(i, n)[k] = Byte(i, k - 1)
<1>1. \A k \in 1..n : k - 1 \in {0, 1, 2, 3}
  OBVIOUS
<1>2. \A k \in 1..n : Byte(i, k - 1) \in Int
  BY <1>1, ByteType
<1>3. Bytes(i, n) \in [1..n -> Int] /\ \A k \in 1..n : Bytes(i, n)[k] = Byte(i, k - 1)
  BY <1>2 DEF Bytes
<1> QED
  BY <1>3, TupleIsSeq

InReach(l) == l = NULL \/ (l \in Nat /\ l <= 2147483647)

\* What a column's head says, and how it begins.
LEMMA HeadOfColumn ==
    ASSUME NEW l, InReach(l)
    PROVE  /\ ReadLength(Column(l)) = l
           /\ Column(l)[1] \in Int /\ Column(l)[1] # 255
           /\ Len(Column(l)) \in Nat
           /\ Column(l)[1] = 254 => Len(Column(l)) = 9
<1> DEFINE head == Column(l)
<1>1. CASE l = NULL
  <2>1. head = <<251>>
    BY <1>1 DEF Column
  <2>2. head[1] = 251 /\ Len(head) = 1
    BY <2>1
  <2> HIDE DEF head
  <2>3. ReadLength(head) = NULL
    BY <2>2, LengthRead
  <2> QED
    BY <1>1, <2>2, <2>3 DEF head
<1>2. CASE l # NULL /\ l < 251
  <2>1. l \in Nat
    BY <1>2, SMTT(30) DEF InReach
  <2>2. head = <<l>>
    BY <1>2, <2>1, SMTT(30) DEF Column, Lenenc
  <2>3. head[1] = l /\ Len(head) = 1
    BY <2>2
  <2> HIDE DEF head
  <2>4. ReadLength(head) = l
    BY <1>2, <2>1, <2>3, LengthRead
  <2> QED
    BY <1>2, <2>1, <2>3, <2>4 DEF head
<1>3. CASE l # NULL /\ l >= 251 /\ l < 65536
  <2> DEFINE t == Bytes(l, 2)
  <2>1. l \in Nat
    BY <1>3, SMTT(30) DEF InReach
  <2>2. /\ t \in [1..2 -> Int] /\ t \in Seq(Int) /\ Len(t) = 2
        /\ t[1] = Byte(l, 0) /\ t[2] = Byte(l, 1)
    BY <2>1, BytesType
  <2>3. head = <<252>> \o t
    BY <1>3, <2>1, SMTT(30) DEF Column, Lenenc
  <2> HIDE DEF t, head
  <2>4. SubSeq(head, 2, 3) = t /\ head[1] = 252 /\ Len(head) = 3
    <3> DEFINE f == 252
    <3>1. f \in Int /\ Len(t) > 0
      BY <2>2
    <3> HIDE DEF f
    <3>2. /\ SubSeq(<<f>> \o t, 2, Len(t) + 1) = t
          /\ (<<f>> \o t)[1] = f /\ Len(<<f>> \o t) = Len(t) + 1
      BY <2>2, <3>1, AfterFirst
    <3> QED
      BY <2>2, <2>3, <3>2 DEF f
  <2>5. Unsigned(t) = t[1] + 256 * t[2]
    BY <2>2, UnsignedOfTwo
  <2>6. Unsigned(t) = l
    BY <1>3, <2>1, <2>2, <2>5, LowBytes, SMTT(30)
  <2>7. ReadLength(head) = l
    <3>1. head[1] \in Int
      BY <2>4
    <3>2. ReadLength(head) = Unsigned(SubSeq(head, 2, 3))
      BY <2>4, <3>1, LengthRead
    <3> QED
      BY <2>4, <2>6, <3>2
  <2> QED
    BY <2>4, <2>7 DEF head
<1>4. CASE l # NULL /\ l >= 65536 /\ l < 16777216
  <2> DEFINE t == Bytes(l, 3)
  <2>1. l \in Nat
    BY <1>4, SMTT(30) DEF InReach
  <2>2. /\ t \in [1..3 -> Int] /\ t \in Seq(Int) /\ Len(t) = 3
        /\ t[1] = Byte(l, 0) /\ t[2] = Byte(l, 1) /\ t[3] = Byte(l, 2)
    BY <2>1, BytesType
  <2>3. head = <<253>> \o t
    BY <1>4, <2>1, SMTT(30) DEF Column, Lenenc
  <2> HIDE DEF t, head
  <2>4. SubSeq(head, 2, 4) = t /\ head[1] = 253 /\ Len(head) = 4
    <3> DEFINE f == 253
    <3>1. f \in Int /\ Len(t) > 0
      BY <2>2
    <3> HIDE DEF f
    <3>2. /\ SubSeq(<<f>> \o t, 2, Len(t) + 1) = t
          /\ (<<f>> \o t)[1] = f /\ Len(<<f>> \o t) = Len(t) + 1
      BY <2>2, <3>1, AfterFirst
    <3> QED
      BY <2>2, <2>3, <3>2 DEF f
  <2>5. Unsigned(t) = t[1] + 256 * (t[2] + 256 * t[3])
    BY <2>2, UnsignedOfThree
  <2>6. Unsigned(t) = l
    BY <1>4, <2>1, <2>2, <2>5, LowBytes, SMTT(30)
  <2>7. ReadLength(head) = l
    <3>1. head[1] \in Int
      BY <2>4
    <3>2. ReadLength(head) = Unsigned(SubSeq(head, 2, 4))
      BY <2>4, <3>1, LengthRead
    <3> QED
      BY <2>4, <2>6, <3>2
  <2> QED
    BY <2>4, <2>7 DEF head
<1>5. CASE l # NULL /\ l >= 16777216
  <2> DEFINE low == Bytes(l, 4)
             zeros == <<0, 0, 0, 0>>
             t == low \o zeros
  <2>1. l \in Nat /\ l <= 2147483647
    BY <1>5, SMTT(30) DEF InReach
  <2>2. l \in Nat
    BY <2>1, SMTT(30)
  <2>3. /\ low \in Seq(Int) /\ Len(low) = 4
        /\ low[1] = Byte(l, 0) /\ low[2] = Byte(l, 1)
        /\ low[3] = Byte(l, 2) /\ low[4] = Byte(l, 3)
    BY <2>2, BytesType
  <2>4. zeros \in Seq(Int) /\ Len(zeros) = 4 /\ \A i \in 1..4 : zeros[i] = 0
    OBVIOUS
  <2>5. head = <<254>> \o t
    BY <1>5, <2>2, SMTT(30) DEF Column, Lenenc
  <2> HIDE DEF low, zeros
  <2>6. /\ t \in Seq(Int) /\ Len(t) = 8
        /\ t[1] = low[1] /\ t[2] = low[2] /\ t[3] = low[3] /\ t[4] = low[4]
        /\ \A i \in 5..8 : t[i] = 0
    <3>1. /\ t \in Seq(Int) /\ Len(t) = Len(low) + Len(zeros)
          /\ \A i \in 1..Len(low) + Len(zeros) :
                t[i] = IF i <= Len(low) THEN low[i] ELSE zeros[i - Len(low)]
      BY <2>3, <2>4, ConcatProperties
    <3> HIDE DEF t
    <3>2. /\ t \in Seq(Int) /\ Len(t) = 8
          /\ \A i \in 1..8 : t[i] = IF i <= 4 THEN low[i] ELSE zeros[i - 4]
      BY <2>3, <2>4, <3>1
    <3> QED
      BY <2>4, <3>2
  <2> HIDE DEF t, head
  <2>7. SubSeq(head, 2, 9) = t /\ head[1] = 254 /\ Len(head) = 9
    <3> DEFINE f == 254
    <3>1. f \in Int /\ Len(t) > 0
      BY <2>6
    <3> HIDE DEF f
    <3>2. /\ SubSeq(<<f>> \o t, 2, Len(t) + 1) = t
          /\ (<<f>> \o t)[1] = f /\ Len(<<f>> \o t) = Len(t) + 1
      BY <2>6, <3>1, AfterFirst
    <3> QED
      BY <2>6, <2>5, <3>2 DEF f
  <2>8. t \in [1..8 -> Int]
    <3>1. t \in [1..Len(t) -> Int]
      BY <2>6, LenProperties
    <3> QED
      BY <2>6, <3>1
  <2>9. Unsigned(t) = t[1] + 256 * (t[2] + 256 * (t[3] + 256 * t[4]))
    <3>1. \A i \in 5..8 : t[i] = 0
      BY <2>6
    <3> QED
      BY <2>8, <3>1, UnsignedOfEight
  <2>10. Unsigned(t) = l
    BY <2>1, <2>3, <2>6, <2>9, LowBytes, SMTT(30)
  <2>11. ReadLength(head) = l
    <3>1. head[1] \in Int
      BY <2>7
    <3>2. ReadLength(head) = Unsigned(SubSeq(head, 2, 9))
      BY <2>7, <3>1, LengthRead
    <3> QED
      BY <2>7, <2>10, <3>2
  <2> QED
    BY <2>7, <2>11 DEF head
<1> QED
  BY <1>1, <1>2, <1>3, <1>4, <1>5, SMTT(30) DEF InReach

----------------------------------------------------------------------------
\* The size of a packet of two columns.
LEMMA SizeOfTwo ==
    ASSUME NEW row, row = <<row[1], row[2]>>,
           Len(row[1].head) \in Int, row[1].value \in Int,
           Len(row[2].head) \in Int, row[2].value \in Int
    PROVE  Size(row) = Len(row[1].head) + row[1].value + Len(row[2].head) + row[2].value
<1> DEFINE size(i) == Len(row[i].head) + row[i].value
           step == [p \in (1..2) \X Int |-> p[2] + size(p[1])]
           g == CHOOSE g : g = [t \in SUBSET (1..2) |->
                    IF t = {} THEN 0
                    ELSE g[t \ {Max(t)}] + Len(row[Max(t)].head) + row[Max(t)].value]
<1>1. size(1) \in Int /\ size(2) \in Int /\ DOMAIN row = 1..2
      /\ \A i \in 1..2 : Len(row[i].head) \in Int /\ row[i].value \in Int
  OBVIOUS
<1>2. \A i \in 1..2, v \in Int :
          /\ step[<<i, v>>] \in Int
          /\ step[<<i, v>>] = v + Len(row[i].head) + row[i].value
  BY <1>1
<1>3. \E h : h = [t \in SUBSET (1..2) |->
                    IF t = {} THEN 0
                    ELSE h[t \ {Max(t)}] + Len(row[Max(t)].head) + row[Max(t)].value]
  <2> HIDE DEF g, step, size
  <2>1. 0 \in Int /\ \A i \in 1..2, v \in Int : step[<<i, v>>] \in Int
    BY <1>2
  <2>2. PICK h \in [SUBSET (1..2) -> Int] : FromLeft(0, step, 2, h)
    BY <2>1, LeftExists
  <2>3. ASSUME NEW t \in SUBSET (1..2)
        PROVE  h[t] = IF t = {} THEN 0
                      ELSE h[t \ {Max(t)}] + Len(row[Max(t)].head) + row[Max(t)].value
    <3>1. t # {} => Max(t) \in 1..2 /\ h[t \ {Max(t)}] \in Int
      BY MaxIsGreatest
    <3> QED
      BY <1>2, <2>2, <3>1 DEF FromLeft
  <2>4. h = [t \in SUBSET (1..2) |->
                    IF t = {} THEN 0
                    ELSE h[t \ {Max(t)}] + Len(row[Max(t)].head) + row[Max(t)].value]
    BY <2>3
  <2> QED
    BY <2>4
<1>4. g = [t \in SUBSET (1..2) |->
                    IF t = {} THEN 0
                    ELSE g[t \ {Max(t)}] + Len(row[Max(t)].head) + row[Max(t)].value]
  BY <1>3
<1>5. Size(row) = g[1..2]
  BY <1>1 DEF Size, FoldLeft, MapThenFoldSet
<1> HIDE DEF g, step, size
<1>6. ASSUME NEW i \in 1..2
      PROVE  g[1..i] = g[1..(i - 1)] + Len(row[i].head) + row[i].value
  <2> DEFINE t == 1..i
  <2>1. t \in SUBSET (1..2) /\ t # {} /\ Max(t) = i /\ t \ {i} = 1..(i - 1)
    BY Ends
  <2> HIDE DEF t
  <2>2. g[t] = g[t \ {Max(t)}] + Len(row[Max(t)].head) + row[Max(t)].value
    BY <1>4, <2>1
  <2> QED
    BY <2>1, <2>2 DEF t
<1>7. g[{}] = 0
  BY <1>4
<1>8. g[1..2] = g[1..1] + Len(row[2].head) + row[2].value
      /\ g[1..1] = g[1..0] + Len(row[1].head) + row[1].value /\ g[1..0] = 0
  BY <1>6, <1>7
<1> QED
  BY <1>5, <1>8
----------------------------------------------------------------------------
\* A column as it is sent.
SentAs(l) == [head |-> Column(l), value |-> IF l = NULL THEN 0 ELSE l]

\* A row is taken for a row, and its columns have the lengths they were sent with.
LEMMA RowRead ==
    ASSUME NEW l, NEW k, InReach(l), InReach(k), NEW row, row = Row(<<l, k>>)
    PROVE  /\ ~IsError(row) /\ ~IsEof(row)
           /\ [i \in DOMAIN row |-> ReadLength(row[i].head)] = <<l, k>>
<1>1. row = <<SentAs(l), SentAs(k)>>
  BY DEF Row, SentAs
<1>2. /\ row[1] = SentAs(l) /\ row[2] = SentAs(k) /\ DOMAIN row = 1..2
      /\ row = <<row[1], row[2]>>
  BY <1>1
<1>3. /\ row[1].head = Column(l) /\ row[2].head = Column(k)
      /\ row[1].value \in Nat /\ row[2].value \in Nat
  <2>1. \A n : InReach(n) => n = NULL \/ n \in Nat
    BY SMTT(30) DEF InReach
  <2> QED
    BY <1>2, <2>1 DEF SentAs
<1>4. FirstByte(row) = Column(l)[1]
  BY <1>3 DEF FirstByte
<1>5. ~IsError(row)
  BY <1>4, HeadOfColumn DEF IsError
<1>6. ~IsEof(row)
  <2>1. Len(row[1].head) \in Nat /\ Len(row[2].head) \in Nat
    BY <1>3, HeadOfColumn
  <2>2. Size(row) = Len(row[1].head) + row[1].value + Len(row[2].head) + row[2].value
    BY <1>2, <1>3, <2>1, SizeOfTwo
  <2>3. FirstByte(row) = 254 => Len(row[1].head) = 9
    <3>1. Column(l)[1] = 254 => Len(Column(l)) = 9
      BY HeadOfColumn
    <3> QED
      BY <1>3, <1>4, <3>1
  <2>4. Len(row[1].head) = 9 => ~(Size(row) < 9)
    <3> DEFINE m == Len(row[1].head)
               n == Len(row[2].head)
               p == row[1].value
               q == row[2].value
    <3>1. m \in Nat /\ n \in Nat /\ p \in Nat /\ q \in Nat /\ Size(row) = m + p + n + q
      BY <1>3, <2>1, <2>2
    <3> HIDE DEF m, n, p, q
    <3>2. m = 9 => ~(Size(row) < 9)
      BY <3>1
    <3> QED
      BY <3>2 DEF m
  <2> QED
    BY <2>3, <2>4 DEF IsEof
<1>7. [i \in DOMAIN row |-> ReadLength(row[i].head)] = <<l, k>>
  <2>1. ReadLength(row[1].head) = l /\ ReadLength(row[2].head) = k
    BY <1>3, HeadOfColumn
  <2> QED
    BY <1>2, <2>1
<1> QED
  BY <1>5, <1>6, <1>7

----------------------------------------------------------------------------
\* What becomes of a row on its way.
RowInv ==
    value.kind = "row" =>
        /\ \E l \in Lengths, k \in Lengths : value = [kind |-> "row", lengths |-> <<l, k>>]
        /\ text \in {Nothing, [kind |-> "packet", row |-> Row(value.lengths)]}
        /\ back \in {Nothing, value}

\* The invariant holds of every row to begin with and survives each step.
LEMMA RowInit == ConversionInit => RowInv
<1> SUFFICES ASSUME ConversionInit, value.kind = "row"
             PROVE  RowInv
  BY DEF RowInv
<1>1. value \in Rows
  BY DEF ConversionInit, Durations
<1> QED
  BY <1>1 DEF ConversionInit, RowInv, Rows

LEMMA RowStays == RowInv /\ [ConversionNext]_conversionVars => RowInv'
<1> SUFFICES ASSUME RowInv, [ConversionNext]_conversionVars, value.kind = "row"
             PROVE  RowInv'
  BY DEF RowInv, ConversionNext, conversionVars, EscapeDuration, ConvertTime, SendRow, ReadRowData
<1>1. PICK l \in Lengths, k \in Lengths : value = [kind |-> "row", lengths |-> <<l, k>>]
  BY DEF RowInv
<1>2. text \in {Nothing, [kind |-> "packet", row |-> Row(<<l, k>>)]}
  BY <1>1 DEF RowInv
<1>3. CASE SendRow
  BY <1>3 DEF RowInv, SendRow
<1>4. CASE ReadRowData
  <2>1. text = [kind |-> "packet", row |-> Row(<<l, k>>)]
    BY <1>2, <1>4 DEF ReadRowData, Nothing
  <2>2. InReach(l) /\ InReach(k)
    BY ConversionAssumption, LengthsInReach, SMTT(30) DEF InReach
  <2>3. /\ ~IsError(text.row) /\ ~IsEof(text.row)
        /\ [i \in DOMAIN text.row |-> ReadLength(text.row[i].head)] = <<l, k>>
    BY <2>1, <2>2, RowRead
  <2>4. back' = value
    BY <1>1, <1>4, <2>3 DEF ReadRowData
  <2> QED
    BY <1>4, <2>4 DEF RowInv, ReadRowData
<1>5. CASE EscapeDuration
  BY <1>5 DEF EscapeDuration
<1>6. CASE ConvertTime
  BY <1>2, <1>6 DEF ConvertTime, Nothing
<1>7. CASE UNCHANGED conversionVars
  BY <1>7 DEF RowInv, conversionVars
<1> QED
  BY <1>3, <1>4, <1>5, <1>6, <1>7 DEF ConversionNext

\* A row comes back with the lengths it was sent with, and is never taken for the end
\* or an error: _read_rowdata_packet and read_length_encoded_integer, for all lengths
\* in reach.
THEOREM RowsComeBack == ConversionSpec => []RowsReturn
<1>1. RowInv => RowsReturn
  BY DEF RowInv, RowsReturn
<1> QED
  BY <1>1, RowInit, RowStays, PTL DEF ConversionSpec

----------------------------------------------------------------------------
(* Statements as the server reads them.                                    *)

Symbols == Characters \cup {Zero, "(", ")", "INSERT", "ON DUPLICATE", "COM_QUERY"}
States == [at : {"text", "string", "escape", "quote"},
           string : Seq(Symbols), rows : Seq(Seq(Symbols))]

Start == Reader("text", <<>>, <<>>)

\* The fields of a reader.
LEMMA Readers ==
    ASSUME NEW at, NEW string, NEW rs
    PROVE  LET state == Reader(at, string, rs)
           IN  state.at = at /\ state.string = string /\ state.rows = rs
BY DEF Reader

\* What each symbol does to the reader, by where it is.
LEMMA Scans ==
    ASSUME NEW string, NEW rs, NEW c
    PROVE  /\ c = Quote => Scan(Reader("text", string, rs), c) = Reader("string", string, rs)
           /\ c # Quote => Scan(Reader("text", string, rs), c) = Reader("text", string, rs)
           /\ c = Quote => Scan(Reader("string", string, rs), c) = Reader("quote", string, rs)
           /\ c = Backslash /\ backslashes =>
                Scan(Reader("string", string, rs), c) = Reader("escape", string, rs)
           /\ c # Quote /\ ~(c = Backslash /\ backslashes) =>
                Scan(Reader("string", string, rs), c) = Reader("string", Append(string, c), rs)
           /\ c = Zero =>
                Scan(Reader("escape", string, rs), c) = Reader("string", Append(string, Nul), rs)
           /\ c # Zero =>
                Scan(Reader("escape", string, rs), c) = Reader("string", Append(string, c), rs)
           /\ c = Quote =>
                Scan(Reader("quote", string, rs), c) = Reader("string", Append(string, c), rs)
           /\ c # Quote =>
                Scan(Reader("quote", string, rs), c) = Reader("text", <<>>, Append(rs, string))
<1>0. Backslash # Quote
  BY DEF Backslash, Quote
<1>1. ASSUME NEW state, state = Reader("text", string, rs)
      PROVE  /\ c = Quote => Scan(state, c) = Reader("string", string, rs)
             /\ c # Quote => Scan(state, c) = state
  <2>1. state.at = "text" /\ state.string = string /\ state.rows = rs
    BY <1>1, Readers
  <2> QED
    BY <1>0, <2>1 DEF Scan
<1>2. ASSUME NEW state, state = Reader("string", string, rs)
      PROVE  /\ c = Quote => Scan(state, c) = Reader("quote", string, rs)
             /\ c = Backslash /\ backslashes => Scan(state, c) = Reader("escape", string, rs)
             /\ c # Quote /\ ~(c = Backslash /\ backslashes) =>
                  Scan(state, c) = Reader("string", Append(string, c), rs)
  <2>1. state.at = "string" /\ state.string = string /\ state.rows = rs
    BY <1>2, Readers
  <2> QED
    BY <1>0, <2>1 DEF Scan
<1>3. ASSUME NEW state, state = Reader("escape", string, rs)
      PROVE  /\ c = Zero => Scan(state, c) = Reader("string", Append(string, Nul), rs)
             /\ c # Zero => Scan(state, c) = Reader("string", Append(string, c), rs)
  <2>1. state.at = "escape" /\ state.string = string /\ state.rows = rs
    BY <1>3, Readers
  <2> QED
    BY <1>0, <2>1 DEF Scan
<1>4. ASSUME NEW state, state = Reader("quote", string, rs)
      PROVE  /\ c = Quote => Scan(state, c) = Reader("string", Append(string, c), rs)
             /\ c # Quote => Scan(state, c) = Reader("text", <<>>, Append(rs, string))
  <2>1. state.at = "quote" /\ state.string = string /\ state.rows = rs
    BY <1>4, Readers
  <2> QED
    BY <1>0, <2>1 DEF Scan
<1> QED
  BY <1>1, <1>2, <1>3, <1>4

\* The reader stays a reader.
LEMMA ScanType ==
    ASSUME NEW state \in States, NEW c \in Symbols
    PROVE  Scan(state, c) \in States
<1> DEFINE string == state.string
           rs == state.rows
<1>1. /\ string \in Seq(Symbols) /\ rs \in Seq(Seq(Symbols))
      /\ state.at \in {"text", "string", "escape", "quote"}
      /\ state = Reader(state.at, string, rs)
  BY DEF States, Reader
<1>2. \A at \in {"text", "string", "escape", "quote"}, t \in Seq(Symbols),
         u \in Seq(Seq(Symbols)) : Reader(at, t, u) \in States
  BY DEF States, Reader
<1>3. Nul \in Symbols /\ <<>> \in Seq(Symbols)
  <2>1. Nul \in Symbols
    BY DEF Symbols, Characters
  <2> QED
    BY <2>1, EmptySeq
<1> HIDE DEF string, rs
<1>4. \A d \in Symbols : Append(string, d) \in Seq(Symbols)
  BY <1>1, AppendProperties
<1>5. Append(rs, string) \in Seq(Seq(Symbols))
  BY <1>1, AppendProperties
<1>6. CASE state = Reader("text", string, rs)
  <2>1. Scan(state, c) \in {Reader("string", string, rs), Reader("text", string, rs)}
    BY <1>6, Scans
  <2> QED
    BY <1>1, <1>2, <2>1
<1>7. CASE state = Reader("string", string, rs)
  <2>1. Scan(state, c) \in {Reader("quote", string, rs), Reader("escape", string, rs),
                            Reader("string", Append(string, c), rs)}
    <3>1. CASE c = Quote
      BY <1>7, <3>1, Scans
    <3>2. CASE c = Backslash /\ backslashes
      BY <1>7, <3>2, Scans
    <3>3. CASE c # Quote /\ ~(c = Backslash /\ backslashes)
      BY <1>7, <3>3, Scans
    <3> QED
      BY <3>1, <3>2, <3>3
  <2> QED
    BY <1>1, <1>2, <1>4, <2>1
<1>8. CASE state = Reader("escape", string, rs)
  <2>1. Scan(state, c) \in {Reader("string", Append(string, Nul), rs),
                            Reader("string", Append(string, c), rs)}
    BY <1>8, Scans
  <2> QED
    BY <1>1, <1>2, <1>3, <1>4, <2>1
<1>9. CASE state = Reader("quote", string, rs)
  <2>1. Scan(state, c) \in {Reader("string", Append(string, c), rs),
                            Reader("text", <<>>, Append(rs, string))}
    BY <1>9, Scans
  <2> QED
    BY <1>1, <1>2, <1>3, <1>4, <1>5, <2>1
<1> QED
  BY <1>1, <1>6, <1>7, <1>8, <1>9

\* The server's reading, one symbol after the other.
LEMMA ScanUnfolds ==
    ASSUME NEW s \in Seq(Symbols)
    PROVE  \E r : /\ RowsOf(s) = r[1..Len(s)].rows /\ r[{}] = Start
                  /\ \A i \in 1..Len(s) : r[1..i] = Scan(r[1..(i - 1)], s[i])
<1> DEFINE n == Len(s)
           step == [p \in (1..n) \X States |-> Scan(p[2], s[p[1]])]
           g == CHOOSE g : g = [t \in SUBSET (1..n) |->
                    IF t = {} THEN Start ELSE Scan(g[t \ {Max(t)}], s[Max(t)])]
<1>1. n \in Nat /\ DOMAIN s = 1..n /\ \A i \in 1..n : s[i] \in Symbols
  BY LenProperties
<1>2. Start \in States
  BY EmptySeq DEF Start, States, Reader
<1> HIDE DEF n
<1>3. \A i \in 1..n, v \in States :
          step[<<i, v>>] = Scan(v, s[i]) /\ step[<<i, v>>] \in States
  BY <1>1, ScanType
<1>4. \E h : h = [t \in SUBSET (1..n) |->
                    IF t = {} THEN Start ELSE Scan(h[t \ {Max(t)}], s[Max(t)])]
  <2> HIDE DEF g, step
  <2>1. PICK h \in [SUBSET (1..n) -> States] : FromLeft(Start, step, n, h)
    BY <1>1, <1>2, <1>3, LeftExists
  <2>2. ASSUME NEW t \in SUBSET (1..n)
        PROVE  h[t] = IF t = {} THEN Start ELSE Scan(h[t \ {Max(t)}], s[Max(t)])
    <3>1. t # {} => Max(t) \in 1..n /\ h[t \ {Max(t)}] \in States
      BY <1>1, MaxIsGreatest
    <3> QED
      BY <1>3, <2>1, <3>1 DEF FromLeft
  <2>3. h = [t \in SUBSET (1..n) |->
                    IF t = {} THEN Start ELSE Scan(h[t \ {Max(t)}], s[Max(t)])]
    BY <2>2
  <2> QED
    BY <2>3
<1>5. g = [t \in SUBSET (1..n) |->
                    IF t = {} THEN Start ELSE Scan(g[t \ {Max(t)}], s[Max(t)])]
  BY <1>4
<1>6. RowsOf(s) = g[1..n].rows
  BY <1>1 DEF RowsOf, FoldLeft, MapThenFoldSet, Start
<1> HIDE DEF g, step
<1>7. ASSUME NEW i \in 1..n
      PROVE  g[1..i] = Scan(g[1..(i - 1)], s[i])
  <2> DEFINE t == 1..i
  <2>1. t \in SUBSET (1..n) /\ t # {} /\ Max(t) = i /\ t \ {i} = 1..(i - 1)
    BY <1>1, Ends
  <2> HIDE DEF t
  <2>2. g[t] = Scan(g[t \ {Max(t)}], s[Max(t)])
    BY <1>5, <2>1
  <2> QED
    BY <2>1, <2>2 DEF t
<1>8. g[{}] = Start
  BY <1>5
<1> QED
  BY <1>6, <1>7, <1>8 DEF n

\* Reading s takes the server from x to y.
Leads(x, s, y) ==
    \E r : /\ r[0] = x /\ r[Len(s)] = y
           /\ \A i \in 1..Len(s) : r[i] = Scan(r[i - 1], s[i])

\* Where reading leads says which rows are found.
LEMMA LeadsRows ==
    ASSUME NEW s \in Seq(Symbols), NEW y, Leads(Start, s, y)
    PROVE  RowsOf(s) = y.rows
<1> DEFINE n == Len(s)
<1>1. PICK q : /\ q[0] = Start /\ q[n] = y
               /\ \A i \in 1..n : q[i] = Scan(q[i - 1], s[i])
  BY DEF Leads
<1>2. PICK r : /\ RowsOf(s) = r[1..n].rows /\ r[{}] = Start
               /\ \A i \in 1..n : r[1..i] = Scan(r[1..(i - 1)], s[i])
  BY ScanUnfolds
<1>3. n \in Nat
  BY LenProperties
<1> HIDE DEF n
<1> DEFINE K == {i \in 0..n : q[i] = r[1..i]}
<1>4. 0 \in K
  BY <1>1, <1>2, <1>3
<1>5. \A i \in 1..n : i - 1 \in K => i \in K
  BY <1>1, <1>2, <1>3
<1> HIDE DEF K
<1>6. \A i \in 0..n : i \in K
  BY <1>3, <1>4, <1>5, Upwards
<1>7. n \in K
  BY <1>3, <1>6
<1> QED
  BY <1>1, <1>2, <1>7 DEF K, n

\* Nothing, one symbol, and one text after the other.
LEMMA LeadsNowhere ==
    ASSUME NEW x
    PROVE  Leads(x, <<>>, x)
<1> DEFINE r == [i \in {0} |-> x]
<1>1. r[0] = x /\ Len(<<>>) = 0
  OBVIOUS
<1> HIDE DEF r
<1>2. \A i \in 1..0 : r[i] = Scan(r[i - 1], <<>>[i])
  OBVIOUS
<1> QED
  BY <1>1, <1>2 DEF Leads

LEMMA LeadsOne ==
    ASSUME NEW x, NEW c
    PROVE  Leads(x, <<c>>, Scan(x, c))
<1> DEFINE r == [i \in 0..1 |-> IF i = 0 THEN x ELSE Scan(x, c)]
<1>1. r[0] = x /\ r[1] = Scan(x, c) /\ Len(<<c>>) = 1 /\ <<c>>[1] = c
  OBVIOUS
<1> HIDE DEF r
<1>2. \A i \in 1..1 : r[i] = Scan(r[i - 1], <<c>>[i])
  BY <1>1
<1> QED
  BY <1>1, <1>2 DEF Leads

LEMMA LeadsOn ==
    ASSUME NEW x, NEW y, NEW z, NEW s \in Seq(Symbols), NEW t \in Seq(Symbols),
           Leads(x, s, y), Leads(y, t, z)
    PROVE  Leads(x, s \o t, z)
<1>1. PICK q : /\ q[0] = x /\ q[Len(s)] = y
               /\ \A i \in 1..Len(s) : q[i] = Scan(q[i - 1], s[i])
  BY DEF Leads
<1>2. PICK r : /\ r[0] = y /\ r[Len(t)] = z
               /\ \A i \in 1..Len(t) : r[i] = Scan(r[i - 1], t[i])
  BY DEF Leads
<1> DEFINE m == Len(s)
           n == Len(t)
           st == s \o t
           g == [i \in 0..m + n |-> IF i <= m THEN q[i] ELSE r[i - m]]
<1>3. m \in Nat /\ n \in Nat
  BY LenProperties
<1>4. /\ Len(st) = m + n
      /\ \A i \in 1..m + n : st[i] = IF i <= m THEN s[i] ELSE t[i - m]
  BY ConcatProperties
<1>5. g[0] = x /\ g[m + n] = z
  BY <1>1, <1>2, <1>3
<1>6. \A i \in 0..m + n : g[i] = IF i <= m THEN q[i] ELSE r[i - m]
  OBVIOUS
<1> HIDE DEF st, m, n, g
<1>7. ASSUME NEW i \in 1..m + n
      PROVE  g[i] = Scan(g[i - 1], st[i])
  <2>1. CASE i <= m
    <3>1. i \in 1..m /\ i - 1 \in 0..m + n /\ i - 1 <= m /\ i \in 0..m + n
      BY <1>3, <2>1
    <3> QED
      BY <1>1, <1>4, <1>6, <2>1, <3>1 DEF m
  <2>2. CASE i = m + 1
    <3>1. i - 1 = m /\ i - m = 1 /\ 1 \in 1..n /\ ~(i <= m) /\ i - 1 \in 0..m + n /\ i \in 0..m + n
      BY <1>3, <2>2
    <3>2. g[i] = r[1] /\ g[i - 1] = y /\ st[i] = t[1]
      BY <1>1, <1>3, <1>4, <1>6, <3>1 DEF m
    <3>3. r[1] = Scan(r[0], t[1])
      BY <1>2, <3>1 DEF n
    <3> QED
      BY <1>2, <3>2, <3>3
  <2>3. CASE i > m + 1
    <3>1. i - m \in 1..n /\ ~(i <= m) /\ ~(i - 1 <= m) /\ i - 1 - m = (i - m) - 1
          /\ i - 1 \in 0..m + n /\ i \in 0..m + n
      BY <1>3, <2>3
    <3>2. g[i] = r[i - m] /\ g[i - 1] = r[(i - m) - 1] /\ st[i] = t[i - m]
      BY <1>4, <1>6, <3>1
    <3>3. r[i - m] = Scan(r[(i - m) - 1], t[i - m])
      BY <1>2, <3>1 DEF n
    <3> QED
      BY <3>2, <3>3
  <2> QED
    BY <1>3, <2>1, <2>2, <2>3
<1> QED
  BY <1>4, <1>5, <1>7 DEF Leads, st, m, n

\* Piece by piece.
LEMMA LeadsFlatten ==
    ASSUME NEW s \in Seq(Seq(Symbols)), NEW w,
           \A i \in 1..Len(s) : Leads(w[i - 1], s[i], w[i])
    PROVE  FlattenSeq(s) \in Seq(Symbols) /\ Leads(w[0], FlattenSeq(s), w[Len(s)])
<1> DEFINE n == Len(s)
<1>1. PICK g : /\ g[0] = <<>> /\ g[n] = FlattenSeq(s)
               /\ \A i \in 0..n : g[i] \in Seq(Symbols)
               /\ \A i \in 1..n : g[i] = g[i - 1] \o s[i]
  BY FlattenUnfolds
<1>2. n \in Nat /\ \A i \in 1..n : s[i] \in Seq(Symbols) /\ Leads(w[i - 1], s[i], w[i])
  BY LenProperties, ElementOfSeq
<1> HIDE DEF n
<1> DEFINE K == {i \in 0..n : Leads(w[0], g[i], w[i])}
<1>3. 0 \in K
  <2>1. Leads(w[0], <<>>, w[0])
    BY LeadsNowhere
  <2> QED
    BY <1>1, <1>2, <2>1
<1>4. ASSUME NEW i \in 1..n, i - 1 \in K
      PROVE  i \in K
  <2>1. i \in 0..n /\ i - 1 \in 0..n
    BY <1>2
  <2>2. Leads(w[0], g[i - 1], w[i - 1]) /\ Leads(w[i - 1], s[i], w[i])
    BY <1>2, <1>4
  <2>3. g[i - 1] \in Seq(Symbols) /\ s[i] \in Seq(Symbols) /\ g[i] = g[i - 1] \o s[i]
    BY <1>1, <1>2, <2>1
  <2>4. Leads(w[0], g[i - 1] \o s[i], w[i])
    BY <2>2, <2>3, LeadsOn
  <2> QED
    BY <2>1, <2>3, <2>4
<1> HIDE DEF K
<1>5. \A i \in 0..n : i \in K
  BY <1>2, <1>3, <1>4, Upwards
<1>6. n \in K /\ n \in 0..n
  BY <1>2, <1>5
<1> QED
  BY <1>1, <1>6 DEF K, n

\* Two symbols.
LEMMA LeadsTwo ==
    ASSUME NEW x, NEW c \in Symbols, NEW d \in Symbols
    PROVE  <<c, d>> \in Seq(Symbols) /\ Leads(x, <<c, d>>, Scan(Scan(x, c), d))
<1>1. Leads(x, <<c>>, Scan(x, c)) /\ Leads(Scan(x, c), <<d>>, Scan(Scan(x, c), d))
  BY LeadsOne
<1>2. <<c>> \in Seq(Symbols) /\ <<d>> \in Seq(Symbols) /\ <<c, d>> \in Seq(Symbols)
      /\ <<c>> \o <<d>> = <<c, d>>
  <2> DEFINE a == <<c>>
             b == <<d>>
             both == <<c, d>>
  <2>1. /\ a \in Seq(Symbols) /\ b \in Seq(Symbols) /\ both \in Seq(Symbols)
        /\ Len(a) = 1 /\ Len(b) = 1 /\ Len(both) = 2
        /\ a[1] = c /\ b[1] = d /\ both[1] = c /\ both[2] = d
    OBVIOUS
  <2> HIDE DEF a, b, both
  <2>2. /\ a \o b \in Seq(Symbols) /\ Len(a \o b) = 2
        /\ \A i \in 1..2 : (a \o b)[i] = IF i <= 1 THEN a[i] ELSE b[i - 1]
    BY <2>1, ConcatProperties
  <2>3. \A i \in 1..2 : (a \o b)[i] = both[i]
    BY <2>1, <2>2
  <2>4. a \o b = both
    BY <2>1, <2>2, <2>3, SeqEqual
  <2> QED
    BY <2>1, <2>4 DEF a, b, both
<1>3. Leads(x, <<c>> \o <<d>>, Scan(Scan(x, c), d))
  BY <1>1, <1>2, LeadsOn
<1> QED
  BY <1>2, <1>3

\* The quote is none of the other symbols, nor are the characters each other.
LEMMA Distinct ==
    /\ Quote # Backslash /\ Quote # Nul /\ Quote # Zero /\ Quote # Comma
    /\ Backslash # Nul /\ Backslash # Zero /\ Backslash # Comma
    /\ Nul # Zero /\ Nul # Comma /\ Zero # Comma
    /\ Quote # "(" /\ Quote # ")" /\ Quote # "INSERT"
    /\ Quote # "ON DUPLICATE" /\ Quote # "COM_QUERY"
    /\ {Quote, Backslash, Nul, Comma, Zero, "(", ")", "INSERT", "ON DUPLICATE", "COM_QUERY"}
         \subseteq Symbols
BY DEF Quote, Backslash, Nul, Zero, Comma, Symbols, Characters

\* A character as escape_string writes it.
Piece(c) ==
    IF backslashes THEN Escaped(c)
    ELSE IF c = Quote THEN <<Quote, Quote>> ELSE <<c>>

\* An escaped character adds itself to the string being read.
LEMMA PieceLeads ==
    ASSUME NEW t, NEW rs, NEW c \in Characters
    PROVE  /\ Piece(c) \in Seq(Symbols)
           /\ Leads(Reader("string", t, rs), Piece(c), Reader("string", Append(t, c), rs))
<1> DEFINE from == Reader("string", t, rs)
           to == Reader("string", Append(t, c), rs)
           quote == Reader("quote", t, rs)
           escape == Reader("escape", t, rs)
<1>0. c \in Symbols /\ c \in {Quote, Backslash, Nul, Comma}
      /\ Quote \in Symbols /\ Backslash \in Symbols /\ Zero \in Symbols
  BY Distinct DEF Symbols, Characters
<1>1. CASE backslashes /\ c = Nul
  <2>1. Piece(c) = <<Backslash, Zero>>
    BY <1>1, Distinct DEF Piece, Escaped
  <2>2. Scan(from, Backslash) = escape
    BY <1>1, Scans
  <2>3. Scan(escape, Zero) = to
    BY <1>1, Scans
  <2> QED
    BY <1>0, <2>1, <2>2, <2>3, LeadsTwo
<1>2. CASE backslashes /\ c \in {Quote, Backslash}
  <2>1. Piece(c) = <<Backslash, c>> /\ c # Zero
    BY <1>2, Distinct DEF Piece, Escaped
  <2>2. Scan(from, Backslash) = escape
    BY <1>2, Scans
  <2>3. Scan(escape, c) = to
    BY <2>1, Scans
  <2> QED
    BY <1>0, <2>1, <2>2, <2>3, LeadsTwo
<1>3. CASE ~backslashes /\ c = Quote
  <2>1. Piece(c) = <<Quote, Quote>>
    BY <1>3 DEF Piece
  <2>2. Scan(from, Quote) = quote
    BY Scans
  <2>3. Scan(quote, Quote) = to
    BY <1>3, Scans
  <2> QED
    BY <1>0, <2>1, <2>2, <2>3, LeadsTwo
<1>4. CASE (backslashes /\ c = Comma) \/ (~backslashes /\ c # Quote)
  <2>1. c # Quote /\ ~(c = Backslash /\ backslashes)
    BY <1>4, Distinct
  <2>2. Piece(c) = <<c>>
    BY <1>4, Distinct DEF Piece, Escaped
  <2>3. Scan(from, c) = to
    BY <2>1, Scans
  <2>4. <<c>> \in Seq(Symbols) /\ Leads(from, <<c>>, Scan(from, c))
    BY <1>0, LeadsOne
  <2> QED
    BY <2>2, <2>3, <2>4
<1> QED
  BY <1>0, <1>1, <1>2, <1>3, <1>4

\* What escape_string makes of a string adds that string.
LEMMA EscapeLeads ==
    ASSUME NEW v \in Seq(Characters), NEW rs
    PROVE  /\ EscapeString(v, backslashes) \in Seq(Symbols)
           /\ Leads(Reader("string", <<>>, rs), EscapeString(v, backslashes),
                    Reader("string", v, rs))
<1> DEFINE n == Len(v)
           p == [i \in DOMAIN v |-> Piece(v[i])]
           w == [i \in 0..n |-> Reader("string", SubSeq(v, 1, i), rs)]
<1>1. n \in Nat /\ DOMAIN v = 1..n /\ \A i \in 1..n : v[i] \in Characters
  BY LenProperties, ElementOfSeq
<1>2. EscapeString(v, backslashes) = FlattenSeq(p)
  BY DEF EscapeString, Piece
<1>3. w[0] = Reader("string", <<>>, rs) /\ w[n] = Reader("string", v, rs)
  <2>1. SubSeq(v, 1, 0) = <<>>
    BY SubSeqEmpty
  <2>2. SubSeq(v, 1, n) = v
    BY SubSeqFull
  <2>3. 0 \in 0..n /\ n \in 0..n
    BY <1>1
  <2>4. w[0] = Reader("string", SubSeq(v, 1, 0), rs) /\ w[n] = Reader("string", SubSeq(v, 1, n), rs)
    BY <2>3
  <2> HIDE DEF w, n
  <2> QED
    BY <2>1, <2>2, <2>4
<1>4. \A i \in 1..n : Append(SubSeq(v, 1, i - 1), v[i]) = SubSeq(v, 1, i)
  <2> TAKE i \in 1..n
  <2>1. 1 \in 1..n + 1 /\ i - 1 \in 0..n /\ i \in 1..n /\ n = Len(v)
    BY <1>1
  <2> HIDE DEF n
  <2>2. SubSeq(v, 1, i - 1) \in Seq(Characters) /\ Len(SubSeq(v, 1, i - 1)) = i - 1
    <3>1. \A k \in 1..i - 1 : v[k] \in Characters
      BY <1>1
    <3> QED
      BY <1>1, <2>1, <3>1, SubSeqProperties
  <2>3. SubSeq(v, 1, i) \in Seq(Characters) /\ Len(SubSeq(v, 1, i)) = i
        /\ \A k \in 1..i : SubSeq(v, 1, i)[k] = v[k]
    BY <1>1, <2>1
  <2>4. \A k \in 1..i - 1 : SubSeq(v, 1, i - 1)[k] = v[k]
    BY <1>1, <2>1
  <2> DEFINE a == SubSeq(v, 1, i - 1)
             b == SubSeq(v, 1, i)
             c == v[i]
  <2>5. a \in Seq(Characters) /\ b \in Seq(Characters) /\ c \in Characters
        /\ Len(a) = i - 1 /\ Len(b) = i /\ b[i] = c /\ \A k \in 1..i - 1 : b[k] = a[k]
    BY <1>1, <2>1, <2>2, <2>3, <2>4
  <2> HIDE DEF a, b, c
  <2>6. Append(a, c) \in Seq(Characters) /\ Len(Append(a, c)) = i
        /\ \A k \in 1..i : Append(a, c)[k] = b[k]
    BY <2>1, <2>5
  <2>7. Append(a, c) = b
    BY <2>5, <2>6, SeqEqual
  <2> QED
    BY <2>7 DEF a, b, c
<1>5. p \in Seq(Seq(Symbols)) /\ Len(p) = n
  <2>1. \A i \in 1..n : Piece(v[i]) \in Seq(Symbols)
    BY <1>1, PieceLeads
  <2>2. p \in [1..n -> Seq(Symbols)]
    BY <1>1, <2>1
  <2> HIDE DEF p, n
  <2> QED
    BY <1>1, <2>2, TupleIsSeq
<1>6. \A i \in 1..n : Leads(w[i - 1], p[i], w[i])
  <2> TAKE i \in 1..n
  <2>1. /\ w[i - 1] = Reader("string", SubSeq(v, 1, i - 1), rs)
        /\ w[i] = Reader("string", SubSeq(v, 1, i), rs)
        /\ p[i] = Piece(v[i]) /\ v[i] \in Characters
    BY <1>1
  <2> HIDE DEF w, p, n
  <2>2. Leads(Reader("string", SubSeq(v, 1, i - 1), rs), Piece(v[i]),
              Reader("string", Append(SubSeq(v, 1, i - 1), v[i]), rs))
    BY <2>1, PieceLeads
  <2> QED
    BY <1>4, <2>1, <2>2
<1> HIDE DEF w, p, n
<1>7. FlattenSeq(p) \in Seq(Symbols) /\ Leads(w[0], FlattenSeq(p), w[n])
  BY <1>5, <1>6, LeadsFlatten
<1> QED
  BY <1>2, <1>3, <1>7

\* A row of a statement is one row to the server.
LEMMA RowTextLeads ==
    ASSUME NEW v \in Seq(Characters), NEW rs
    PROVE  /\ RowText(v) \in Seq(Symbols)
           /\ Leads(Reader("text", <<>>, rs), RowText(v), Reader("text", <<>>, Append(rs, v)))
<1> DEFINE x1 == Reader("text", <<>>, rs)
           x2 == Reader("string", <<>>, rs)
           x3 == Reader("string", v, rs)
           x4 == Reader("quote", v, rs)
           x5 == Reader("text", <<>>, Append(rs, v))
           e == EscapeString(v, backslashes)
           o == <<"(">>
           q == <<Quote>>
           c == <<")">>
<1>1. o \in Seq(Symbols) /\ q \in Seq(Symbols) /\ c \in Seq(Symbols)
  <2>1. "(" \in Symbols /\ Quote \in Symbols /\ ")" \in Symbols
    BY Distinct
  <2> QED
    BY <2>1
<1>2. e \in Seq(Symbols) /\ Leads(x2, e, x3)
  BY EscapeLeads
<1>3. Leads(x1, o, x1)
  <2>1. Scan(x1, "(") = x1
    <3> DEFINE d == "("
    <3>1. d # Quote
      BY Distinct
    <3> HIDE DEF d
    <3>2. Scan(x1, d) = x1
      BY <3>1, Scans
    <3> QED
      BY <3>2 DEF d
  <2> QED
    BY <2>1, LeadsOne
<1>4. Leads(x1, q, x2)
  <2>1. Scan(x1, Quote) = x2
    BY Scans
  <2> QED
    BY <2>1, LeadsOne
<1>5. Leads(x3, q, x4)
  <2>1. Scan(x3, Quote) = x4
    BY Scans
  <2> QED
    BY <2>1, LeadsOne
<1>6. Leads(x4, c, x5)
  <2>1. Scan(x4, ")") = x5
    <3> DEFINE d == ")"
    <3>1. d # Quote
      BY Distinct
    <3> HIDE DEF d
    <3>2. Scan(x4, d) = x5
      BY <3>1, Scans
    <3> QED
      BY <3>2 DEF d
  <2> QED
    BY <2>1, LeadsOne
<1>7. RowText(v) = (o \o ((q \o e) \o q)) \o c
  BY DEF RowText, Literal
<1> HIDE DEF x1, x2, x3, x4, x5, e, o, q, c
<1>8. q \o e \in Seq(Symbols) /\ Leads(x1, q \o e, x3)
  BY <1>1, <1>2, <1>4, LeadsOn, ConcatProperties
<1>9. (q \o e) \o q \in Seq(Symbols) /\ Leads(x1, (q \o e) \o q, x4)
  BY <1>1, <1>5, <1>8, LeadsOn, ConcatProperties
<1>10. o \o ((q \o e) \o q) \in Seq(Symbols) /\ Leads(x1, o \o ((q \o e) \o q), x4)
  BY <1>1, <1>3, <1>9, LeadsOn, ConcatProperties
<1>11. (o \o ((q \o e) \o q)) \o c \in Seq(Symbols) /\ Leads(x1, (o \o ((q \o e) \o q)) \o c, x5)
  BY <1>1, <1>6, <1>10, LeadsOn, ConcatProperties
<1> QED
  BY <1>7, <1>11 DEF x1, x5

----------------------------------------------------------------------------
(* Packets.                                                                *)

\* Where a frame ends.
LEMMA FrameEnds ==
    ASSUME NEW len \in Nat, NEW m, m = len \div MAX_PACKET_LEN
    PROVE  /\ m \in Nat /\ m * MAX_PACKET_LEN \in Nat
           /\ m * MAX_PACKET_LEN <= len /\ len < m * MAX_PACKET_LEN + MAX_PACKET_LEN
           /\ (m + 1) * MAX_PACKET_LEN = m * MAX_PACKET_LEN + MAX_PACKET_LEN
           /\ \A i \in 1..m : /\ i * MAX_PACKET_LEN \in Nat /\ (i - 1) * MAX_PACKET_LEN \in Nat
                              /\ i * MAX_PACKET_LEN = (i - 1) * MAX_PACKET_LEN + MAX_PACKET_LEN
                              /\ i * MAX_PACKET_LEN <= len
<1>1. MAX_PACKET_LEN \in Nat /\ MAX_PACKET_LEN > 0
  BY WireAssumption
<1> DEFINE M == MAX_PACKET_LEN
<1> HIDE DEF M
<1>2. M \in Nat /\ M > 0 /\ m = len \div M
  BY <1>1 DEF M
<1>3. len = M * m + (len % M) /\ 0 <= len % M /\ len % M < M /\ m \in Int
  BY <1>2, Division
<1>4. m >= 0
  BY <1>2, SMTT(30)
<1>5. M * m = m * M /\ m * M \in Int /\ len % M \in Int
  BY <1>2, <1>3, <1>4, SMTT(30)
<1>6. m * M <= len /\ len < m * M + M
  BY <1>2, <1>3, <1>5
<1>7. (m + 1) * M = m * M + M /\ m * M \in Nat
  BY <1>2, <1>3, <1>4, SMTT(30)
<1>8. ASSUME NEW i \in 1..m
      PROVE  /\ i * M \in Nat /\ (i - 1) * M \in Nat
             /\ i * M = (i - 1) * M + M /\ i * M <= len
  <2>1. i \in Nat /\ i - 1 \in Nat /\ i <= m
    BY <1>3
  <2>2. i * M \in Nat /\ (i - 1) * M \in Nat /\ i * M = (i - 1) * M + M
    BY <1>2, <2>1, SMTT(30)
  <2>3. i * M <= m * M
    BY <1>2, <1>3, <2>1, SMTT(30)
  <2> QED
    BY <1>5, <1>6, <2>2, <2>3
<1> QED
  BY <1>3, <1>4, <1>6, <1>7, <1>8 DEF M

\* Every chunk but the last is full; the last is not.
LEMMA ChunksOf ==
    ASSUME NEW T, NEW p \in Seq(T), NEW m, m = Len(p) \div MAX_PACKET_LEN
    PROVE  /\ \A i \in 1..m + 1 : Chunk(p, i) \in Seq(T)
           /\ \A i \in 1..m : /\ Len(Chunk(p, i)) = MAX_PACKET_LEN
                              /\ Chunk(p, i) = SubSeq(p, (i - 1) * MAX_PACKET_LEN + 1,
                                                    i * MAX_PACKET_LEN)
           /\ Len(Chunk(p, m + 1)) < MAX_PACKET_LEN
           /\ Chunk(p, m + 1) = SubSeq(p, m * MAX_PACKET_LEN + 1, Len(p))
<1> DEFINE M == MAX_PACKET_LEN
           L == Len(p)
<1>1. M \in Nat /\ M > 0 /\ L \in Nat /\ \A k \in 1..L : p[k] \in T
  BY WireAssumption, LenProperties, ElementOfSeq
<1>2. /\ m \in Nat /\ m * M \in Nat /\ m * M <= L /\ L < m * M + M /\ (m + 1) * M = m * M + M
      /\ \A i \in 1..m : /\ i * M \in Nat /\ (i - 1) * M \in Nat
                         /\ i * M = (i - 1) * M + M /\ i * M <= L
  BY <1>1, FrameEnds
<1>3. ASSUME NEW i \in 1..m
      PROVE  /\ Chunk(p, i) \in Seq(T) /\ Len(Chunk(p, i)) = M
             /\ Chunk(p, i) = SubSeq(p, (i - 1) * M + 1, i * M)
  <2> DEFINE a == (i - 1) * M
             b == i * M
  <2>1. a \in Nat /\ b \in Nat /\ b = a + M /\ b <= L
    BY <1>2
  <2>2. Chunk(p, i) = SubSeq(p, a + 1, IF b < L THEN b ELSE L)
    BY DEF Chunk
  <2> HIDE DEF a, b, M, L
  <2>3. Chunk(p, i) = SubSeq(p, a + 1, b)
    BY <1>1, <2>1, <2>2
  <2>4. \A k \in a + 1..b : p[k] \in T
    BY <1>1, <2>1
  <2>5. SubSeq(p, a + 1, b) \in Seq(T) /\ Len(SubSeq(p, a + 1, b)) = M
    <3>1. a + 1 \in Int /\ b \in Int /\ a + 1 <= b /\ b - (a + 1) + 1 = M
      BY <1>1, <2>1
    <3> DEFINE a1 == a + 1
    <3> HIDE DEF a1
    <3>2. a1 \in Int /\ \A k \in a1..b : p[k] \in T
      BY <2>4, <3>1 DEF a1
    <3>3. SubSeq(p, a1, b) \in Seq(T) /\ Len(SubSeq(p, a1, b)) = IF a1 <= b THEN b - a1 + 1 ELSE 0
      BY <3>1, <3>2, SubSeqProperties
    <3> QED
      BY <3>1, <3>3 DEF a1
  <2> QED
    BY <2>3, <2>5 DEF a, b
<1>4. /\ Chunk(p, m + 1) = SubSeq(p, m * M + 1, L) /\ Chunk(p, m + 1) \in Seq(T)
      /\ Len(Chunk(p, m + 1)) < M
  <2> DEFINE a == m * M
             b == (m + 1) * M
  <2>1. a \in Nat /\ b = a + M /\ a <= L /\ L < b /\ (m + 1) - 1 = m
    BY <1>1, <1>2
  <2>2. Chunk(p, m + 1) = SubSeq(p, a + 1, IF b < L THEN b ELSE L)
    BY <2>1 DEF Chunk
  <2> HIDE DEF a, b, M, L
  <2>3. Chunk(p, m + 1) = SubSeq(p, a + 1, L)
    BY <1>1, <2>1, <2>2
  <2> DEFINE a1 == a + 1
  <2>4. a1 \in Int /\ L \in Int /\ a1 >= 1 /\ L - a1 + 1 < M /\ 0 < M
    BY <1>1, <2>1
  <2>5. \A k \in a1..L : p[k] \in T
    BY <1>1, <2>1
  <2> HIDE DEF a1
  <2>6. SubSeq(p, a1, L) \in Seq(T) /\ Len(SubSeq(p, a1, L)) = IF a1 <= L THEN L - a1 + 1 ELSE 0
    BY <2>4, <2>5, SubSeqProperties
  <2> QED
    BY <2>3, <2>4, <2>6 DEF a, a1
<1> HIDE DEF M, L
<1>5. \A i \in 1..m + 1 : i \in 1..m \/ i = m + 1
  BY <1>2
<1> QED
  BY <1>3, <1>4, <1>5 DEF M, L

\* The chunks of a packet make it up.
LEMMA ChunksTogether ==
    ASSUME NEW T, NEW p \in Seq(T), NEW m, m = Len(p) \div MAX_PACKET_LEN,
           NEW s, s = [i \in 1..m + 1 |-> Chunk(p, i)]
    PROVE  FlattenSeq(s) = p
<1> DEFINE M == MAX_PACKET_LEN
           L == Len(p)
<1>1. M \in Nat /\ M > 0 /\ L \in Nat
  BY WireAssumption, LenProperties
<1>2. /\ m \in Nat /\ m * M \in Nat /\ m * M <= L /\ L < m * M + M
      /\ \A i \in 1..m : /\ i * M \in Nat /\ (i - 1) * M \in Nat
                         /\ i * M = (i - 1) * M + M /\ i * M <= L
  BY <1>1, FrameEnds
<1>3. /\ \A i \in 1..m + 1 : Chunk(p, i) \in Seq(T)
      /\ \A i \in 1..m : Chunk(p, i) = SubSeq(p, (i - 1) * M + 1, i * M)
      /\ Chunk(p, m + 1) = SubSeq(p, m * M + 1, L)
  BY ChunksOf
<1>4. s \in Seq(Seq(T)) /\ Len(s) = m + 1
  <2>1. s \in [1..m + 1 -> Seq(T)] /\ m + 1 \in Nat
    BY <1>2, <1>3
  <2> QED
    BY <2>1, TupleIsSeq
<1>5. PICK g : /\ g[0] = <<>> /\ g[Len(s)] = FlattenSeq(s)
               /\ \A i \in 0..Len(s) : g[i] \in Seq(T)
               /\ \A i \in 1..Len(s) : g[i] = g[i - 1] \o s[i]
  BY <1>4, FlattenUnfolds
<1> DEFINE K == {i \in 0..m : g[i] = SubSeq(p, 1, i * M)}
<1>6. 0 \in K
  <2>1. 0 * M = 0 /\ 0 \in 0..m
    BY <1>1, <1>2
  <2>2. SubSeq(p, 1, 0) = <<>>
    BY SubSeqEmpty
  <2> QED
    BY <1>5, <2>1, <2>2
<1>7. ASSUME NEW i \in 1..m, i - 1 \in K
      PROVE  i \in K
  <2>1. i \in 0..m /\ i \in 1..m + 1
    BY <1>2
  <2> DEFINE a == (i - 1) * M
             b == i * M
  <2>2. a \in Nat /\ b \in Nat /\ b = a + M /\ b <= L
    BY <1>2
  <2>3. g[i - 1] = SubSeq(p, 1, a)
    BY <1>7
  <2>4. g[i] = g[i - 1] \o s[i] /\ s[i] = SubSeq(p, a + 1, b)
    BY <1>3, <1>4, <1>5, <2>1
  <2> HIDE DEF a, b, M
  <2>5. SubSeq(p, 1, a) \o SubSeq(p, a + 1, b) = SubSeq(p, 1, b)
    <3> DEFINE one == 1
    <3>1. one \in 1..Len(p) + 1 /\ a \in one - 1..Len(p) /\ b \in a..Len(p)
      BY <1>1, <2>2
    <3> HIDE DEF one
    <3>2. SubSeq(p, one, a) \o SubSeq(p, a + 1, b) = SubSeq(p, one, b)
      BY <3>1, ConcatAdjacentSubSeq
    <3> QED
      BY <3>2 DEF one
  <2>6. g[i] = SubSeq(p, 1, b)
    BY <2>3, <2>4, <2>5
  <2> QED
    BY <2>1, <2>6 DEF b
<1> HIDE DEF K
<1>8. \A i \in 0..m : i \in K
  BY <1>2, <1>6, <1>7, Upwards
<1>9. m \in K
  BY <1>2, <1>8
<1> DEFINE a == m * M
<1>10. a \in Nat /\ a <= L
  BY <1>2
<1>11. g[m] = SubSeq(p, 1, a)
  BY <1>9 DEF K
<1>12. g[m + 1] = g[m] \o s[m + 1] /\ s[m + 1] = SubSeq(p, a + 1, L)
  <2>1. m + 1 \in 1..m + 1 /\ (m + 1) - 1 = m
    BY <1>2
  <2> QED
    BY <1>3, <1>4, <1>5, <2>1
<1>13. SubSeq(p, 1, a) \o SubSeq(p, a + 1, L) = SubSeq(p, 1, L)
  <2> DEFINE one == 1
  <2> HIDE DEF a
  <2>1. one \in 1..Len(p) + 1 /\ a \in one - 1..Len(p) /\ L \in a..Len(p)
    BY <1>1, <1>10
  <2> HIDE DEF one
  <2>2. SubSeq(p, one, a) \o SubSeq(p, a + 1, L) = SubSeq(p, one, L)
    BY <2>1, ConcatAdjacentSubSeq
  <2> QED
    BY <2>2 DEF one
<1>14. SubSeq(p, 1, L) = p
  BY SubSeqFull
<1> HIDE DEF a, L
<1> QED
  BY <1>4, <1>5, <1>11, <1>12, <1>13, <1>14

\* A packet that was framed is taken off the wire whole, and nothing is left.
LEMMA PacketReturns ==
    ASSUME NEW T, NEW p \in Seq(T)
    PROVE  /\ Frames(p) # <<>>
           /\ ReadPacket(Frames(p), 0) = [ok |-> TRUE, payload |-> p, rest |-> <<>>]
<1> DEFINE frames == Frames(p)
           m == Len(p) \div MAX_PACKET_LEN
           n == m + 1
<1>1. m \in Nat /\ n \in Nat /\ n = m + 1
  <2>1. Len(p) \in Nat
    BY LenProperties
  <2>2. m \in Nat
    BY <2>1, FrameEnds
  <2> QED
    BY <2>2
<1>2. /\ \A i \in 1..m : Len(Chunk(p, i)) = MAX_PACKET_LEN
      /\ Len(Chunk(p, n)) < MAX_PACKET_LEN
  BY ChunksOf
<1>3. frames = [i \in 1..n |-> [number |-> (i - 1) % Numbers, data |-> Chunk(p, i)]]
  BY DEF Frames
<1>13. FlattenSeq([i \in 1..n |-> Chunk(p, i)]) = p
  BY ChunksTogether
<1> HIDE DEF frames, m, n
<1>4. DOMAIN frames = 1..n /\ \A i \in 1..n : /\ frames[i].data = Chunk(p, i)
                                             /\ frames[i].number = (i - 1) % Numbers
  BY <1>3
<1>5. Whole(frames) = {n}
  <2>1. n \in Whole(frames)
    BY <1>1, <1>2, <1>4 DEF Whole
  <2>2. ASSUME NEW i \in Whole(frames)
        PROVE  i = n
    <3>1. i \in 1..n /\ Len(Chunk(p, i)) < MAX_PACKET_LEN
      BY <1>4 DEF Whole
    <3>2. i \in 1..m => Len(Chunk(p, i)) = MAX_PACKET_LEN
      BY <1>2
    <3>3. i \notin 1..m
      BY <3>1, <3>2, WireAssumption
    <3> QED
      BY <1>1, <3>1, <3>3
  <2> QED
    BY <2>1, <2>2
<1>6. (CHOOSE k \in Whole(frames) : \A j \in Whole(frames) : k <= j) = n
  BY <1>1, <1>5
<1>7. \A i \in 1..n : frames[i].number = (0 + i - 1) % Numbers
  <2>1. \A i \in 1..n : 0 + i - 1 = i - 1
    BY <1>1
  <2> QED
    BY <1>4, <2>1
<1>8. [i \in 1..n |-> frames[i].data] = [i \in 1..n |-> Chunk(p, i)]
  BY <1>4
<1>9. frames \in Seq([number : Int, data : {Chunk(p, i) : i \in 1..n}]) /\ Len(frames) = n
  <2>1. \A i \in 1..n : (i - 1) % Numbers \in Int
    BY <1>1, WireAssumption, SMTT(30)
  <2>2. frames \in [1..n -> [number : Int, data : {Chunk(p, i) : i \in 1..n}]]
    BY <1>3, <2>1
  <2> QED
    BY <1>1, <2>2, TupleIsSeq
<1>10. SubSeq(frames, n + 1, Len(frames)) = <<>>
  <2> DEFINE a == n + 1
             b == Len(frames)
  <2>1. a \in Int /\ b \in Int /\ b < a
    BY <1>1, <1>9
  <2> HIDE DEF a, b
  <2>2. SubSeq(frames, a, b) = <<>>
    BY <2>1, SubSeqEmpty
  <2> QED
    BY <2>2 DEF a, b
<1>11. frames # <<>>
  BY <1>1, <1>9
<1>12. ReadPacket(frames, 0) = [ok |-> TRUE, payload |-> p, rest |-> <<>>]
  BY <1>5, <1>6, <1>7, <1>8, <1>10, <1>13 DEF ReadPacket
<1> QED
  BY <1>11, <1>12 DEF frames

----------------------------------------------------------------------------
(* executemany and the cursor.                                             *)

RowSeqs == Seq(Seq(Characters))

\* The server finds these rows in the said.
Carries(said, found) == Leads(Start, said, Reader("text", <<>>, found))

\* What is on the way, then what is in the statement in hand, then what is left.
ArriveInv ==
    /\ given \in RowSeqs /\ args \in RowSeqs /\ stored \in RowSeqs /\ sql \in Seq(Symbols)
    /\ \E a \in RowSeqs, b \in RowSeqs :
          /\ Parts(given, stored, a, b, args)
          /\ Carries(sql, b) /\ (sql = <<>> => b = <<>>)
          /\ \/ stream = <<>> /\ a = <<>>
             \/ \E p \in Seq(Symbols) : stream = Frames(p) /\ Carries(p, a)

\* Reading depends on the session's mode only.
LEMMA LeadsPrimed ==
    ASSUME backslashes' = backslashes, NEW s, NEW b, Carries(s, b)
    PROVE  Carries(s, b)'
<1>1. \A x, c : Scan(x, c)' = Scan(x, c)
  BY DEF Scan
<1> QED
  BY <1>1 DEF Carries, Leads, Start, Reader

\* Text without a quote adds no row.
LEMMA PlainText ==
    ASSUME NEW c \in Symbols, c # Quote, NEW rs
    PROVE  <<c>> \in Seq(Symbols)
           /\ Leads(Reader("text", <<>>, rs), <<c>>, Reader("text", <<>>, rs))
<1>1. Scan(Reader("text", <<>>, rs), c) = Reader("text", <<>>, rs)
  BY Scans
<1> QED
  BY <1>1, LeadsOne

\* The keywords of a statement, and the commas in it.
LEMMA Keywords ==
    /\ Prefix \in Seq(Symbols) /\ Postfix \in Seq(Symbols)
    /\ Command \in Seq(Symbols) /\ <<Comma>> \in Seq(Symbols)
    /\ \A rs : /\ Leads(Reader("text", <<>>, rs), Prefix, Reader("text", <<>>, rs))
               /\ Leads(Reader("text", <<>>, rs), Postfix, Reader("text", <<>>, rs))
               /\ Leads(Reader("text", <<>>, rs), Command, Reader("text", <<>>, rs))
               /\ Leads(Reader("text", <<>>, rs), <<Comma>>, Reader("text", <<>>, rs))
<1> DEFINE w == {"INSERT", "ON DUPLICATE", "COM_QUERY", Comma}
<1>1. \A c \in w : c \in Symbols /\ c # Quote
  BY Distinct
<1>2. \A c \in w : \A rs : /\ <<c>> \in Seq(Symbols)
                            /\ Leads(Reader("text", <<>>, rs), <<c>>, Reader("text", <<>>, rs))
  <2> HIDE DEF w
  <2> QED
    BY <1>1, PlainText
<1> QED
  BY <1>2 DEF Prefix, Postfix, Command

\* What is added to makes no statement empty.
LEMMA Longer ==
    ASSUME NEW s \in Seq(Symbols), NEW t \in Seq(Symbols), s # <<>>
    PROVE  s \o t # <<>>
BY ConcatEqualIffEmpty

\* A row added to a statement.
LEMMA RowAdded ==
    ASSUME NEW said \in Seq(Symbols), NEW b, NEW v \in Seq(Characters),
           Carries(said, b), said # <<>>
    PROVE  /\ said \o RowText(v) \in Seq(Symbols) /\ said \o RowText(v) # <<>>
           /\ Carries(said \o RowText(v), Append(b, v))
<1>1. RowText(v) \in Seq(Symbols)
      /\ Leads(Reader("text", <<>>, b), RowText(v), Reader("text", <<>>, Append(b, v)))
  BY RowTextLeads
<1>2. said \o RowText(v) # <<>>
  BY <1>1, Longer
<1> QED
  BY <1>1, <1>2, LeadsOn, ConcatProperties DEF Carries

\* A comma added to a statement.
LEMMA WordAdded ==
    ASSUME NEW said \in Seq(Symbols), NEW b, Carries(said, b),
           NEW w \in Seq(Symbols), Leads(Reader("text", <<>>, b), w, Reader("text", <<>>, b))
    PROVE  said \o w \in Seq(Symbols) /\ Carries(said \o w, b)
BY LeadsOn, ConcatProperties DEF Carries

\* A statement with one row, and a statement as it is sent.
LEMMA NewStatement ==
    ASSUME NEW v \in Seq(Characters)
    PROVE  /\ Prefix \o RowText(v) \in Seq(Symbols) /\ Prefix \o RowText(v) # <<>>
           /\ Carries(Prefix \o RowText(v), <<v>>)
<1> DEFINE none == <<>>
<1>1. Prefix \in Seq(Symbols) /\ Prefix # <<>> /\ Carries(Prefix, none)
  BY Keywords DEF Carries, Start, Prefix
<1>2. Append(none, v) = <<v>>
  OBVIOUS
<1> HIDE DEF none
<1> QED
  BY <1>1, <1>2, RowAdded

\* A statement as it is sent carries the rows of the statement in hand.
LEMMA StatementSent ==
    ASSUME NEW said \in Seq(Symbols), NEW b, Carries(said, b)
    PROVE  LET p == Command \o said \o Postfix IN p \in Seq(Symbols) /\ Carries(p, b)
<1> DEFINE x == Reader("text", <<>>, b)
           s == Command
           e == Postfix
<1>1. /\ s \in Seq(Symbols) /\ e \in Seq(Symbols)
      /\ Leads(Start, s, Start) /\ Leads(x, e, x)
  BY Keywords DEF Start
<1>2. Leads(Start, said, x)
  BY DEF Carries
<1> HIDE DEF x, s, e
<1>3. s \o said \in Seq(Symbols) /\ Leads(Start, s \o said, x)
  BY <1>1, <1>2, LeadsOn, ConcatProperties
<1>4. (s \o said) \o e \in Seq(Symbols) /\ Leads(Start, (s \o said) \o e, x)
  BY <1>1, <1>3, LeadsOn, ConcatProperties
<1> QED
  BY <1>4 DEF Carries, x, s, e

\* The rows found in a packet are those it carries.
LEMMA PacketRows ==
    ASSUME NEW p \in Seq(Symbols), NEW a, Carries(p, a)
    PROVE  RowsOf(p) = a
<1>1. RowsOf(p) = Reader("text", <<>>, a).rows
  BY LeadsRows DEF Carries
<1> QED
  BY <1>1, Readers

\* No row is lost to begin with; then the rows arrive; and every step keeps it so.
LEMMA ArriveInit == StatementInit => ArriveInv
<1> SUFFICES ASSUME StatementInit
             PROVE  ArriveInv
  OBVIOUS
<1>1. given \in RowSeqs
  <2>1. PICK n \in 1..MaxRows : given \in [1..n -> Values]
    BY DEF StatementInit
  <2>2. n \in Nat
    BY StatementAssumption
  <2>3. Values \subseteq Seq(Characters)
    BY StatementAssumption, SeqDef DEF Values
  <2>4. given \in [1..n -> Seq(Characters)]
    BY <2>1, <2>3
  <2> QED
    BY <2>2, <2>4, TupleIsSeq DEF RowSeqs
<1>2. <<>> \in RowSeqs /\ <<>> \in Seq(Symbols)
  BY EmptySeq DEF RowSeqs
<1>3. Parts(given, <<>>, <<>>, <<>>, given)
  BY <1>1, PartsBegin DEF RowSeqs
<1>4. Carries(<<>>, <<>>)
  BY LeadsNowhere DEF Carries, Start
<1>5. /\ args = given /\ sql = <<>> /\ stream = <<>> /\ stored = <<>>
  BY DEF StatementInit
<1> QED
  BY <1>1, <1>2, <1>3, <1>4, <1>5 DEF ArriveInv

LEMMA ArriveSound == ArriveInv => RowsArrive
<1> SUFFICES ASSUME ArriveInv
             PROVE  RowsArrive
  OBVIOUS
<1>1. PICK a \in RowSeqs, b \in RowSeqs :
          /\ Parts(given, stored, a, b, args)
          /\ Carries(sql, b) /\ (sql = <<>> => b = <<>>)
          /\ \/ stream = <<>> /\ a = <<>>
             \/ \E p \in Seq(Symbols) : stream = Frames(p) /\ Carries(p, a)
  BY DEF ArriveInv
<1>2. given \in RowSeqs /\ args \in RowSeqs /\ stored \in RowSeqs
  BY DEF ArriveInv
<1>3. stream # <<>> => ReadPacket(stream, 0).ok
  <2> SUFFICES ASSUME stream # <<>>
               PROVE  ReadPacket(stream, 0).ok
    OBVIOUS
  <2>1. PICK p \in Seq(Symbols) : stream = Frames(p)
    BY <1>1
  <2>2. ReadPacket(stream, 0) = [ok |-> TRUE, payload |-> p, rest |-> <<>>]
    BY <2>1, PacketReturns
  <2> QED
    BY <2>2
<1>4. stored = SubSeq(given, 1, Len(stored))
  BY <1>1, <1>2, PartsFirst DEF RowSeqs
<1>5. Idle => stored = given
  <2> SUFFICES ASSUME Idle
               PROVE  stored = given
    OBVIOUS
  <2>1. args = <<>> /\ b = <<>> /\ stream = <<>>
    BY <1>1 DEF Idle, Begun
  <2>2. a = <<>>
    BY <1>1, <2>1, PacketReturns
  <2> QED
    BY <1>1, <1>2, <2>1, <2>2, PartsEnd DEF RowSeqs
<1> QED
  BY <1>3, <1>4, <1>5 DEF RowsArrive

LEMMA ArriveStays == ArriveInv /\ [StatementNext]_statementVars => ArriveInv'
<1> SUFFICES ASSUME ArriveInv, [StatementNext]_statementVars
             PROVE  ArriveInv'
  OBVIOUS
<1> DEFINE S == Seq(Characters)
<1>1. PICK a \in RowSeqs, b \in RowSeqs :
          /\ Parts(given, stored, a, b, args)
          /\ Carries(sql, b) /\ (sql = <<>> => b = <<>>)
          /\ \/ stream = <<>> /\ a = <<>>
             \/ \E p \in Seq(Symbols) : stream = Frames(p) /\ Carries(p, a)
  BY DEF ArriveInv
<1>2. given \in Seq(S) /\ args \in Seq(S) /\ stored \in Seq(S) /\ sql \in Seq(Symbols)
      /\ a \in Seq(S) /\ b \in Seq(S) /\ RowSeqs = Seq(S)
  BY DEF ArriveInv, RowSeqs
<1>3. stream = <<>> => a = <<>>
  BY <1>1, PacketReturns
<1>4. args # <<>> =>
        /\ Head(args) \in S /\ Tail(args) \in Seq(S) /\ Append(b, Head(args)) \in Seq(S)
        /\ Parts(given, stored, a, Append(b, Head(args)), Tail(args))
  BY <1>1, <1>2, PartsMove
<1>5. <<>> \in Seq(S)
  BY EmptySeq
<1> HIDE DEF S
<1>6. ASSUME NEW x \in Seq(S), NEW y \in Seq(S), NEW s \in Seq(Symbols),
             backslashes' = backslashes, given' = given, sql' = s,
             args' \in Seq(S), stored' \in Seq(S),
             Parts(given, stored', x, y, args'),
             Carries(s, y), s = <<>> => y = <<>>,
             \/ stream' = <<>> /\ x = <<>>
             \/ \E p \in Seq(Symbols) : stream' = Frames(p) /\ Carries(p, x)
      PROVE  ArriveInv'
  <2>1. Carries(s, y)'
    BY <1>6, LeadsPrimed
  <2>2. \/ stream' = <<>> /\ x = <<>>
        \/ \E p \in Seq(Symbols) : stream' = Frames(p) /\ Carries(p, x)'
    BY <1>6, LeadsPrimed
  <2>3. Parts(given, stored, x, y, args)'
    BY <1>6 DEF Parts
  <2>4. (Carries(sql, y))'
    BY <1>6, <2>1 DEF Carries
  <2> QED
    BY <1>2, <1>6, <2>2, <2>3, <2>4 DEF ArriveInv
<1>7. CASE AddRow
  <2> DEFINE v == Head(args)
  <2>1. backslashes' = backslashes /\ given' = given /\ stored' = stored /\ stream' = stream
        /\ args' = Tail(args) /\ args # <<>>
    BY <1>7 DEF AddRow
  <2>2. v \in Seq(Characters) /\ Append(b, v) \in Seq(S) /\ args' \in Seq(S)
        /\ Parts(given, stored', a, Append(b, v), args')
    BY <1>4, <2>1 DEF S
  <2>3. sql' \in Seq(Symbols) /\ sql' # <<>> /\ Carries(sql', Append(b, v))
    <3>1. CASE ~Begun /\ sql' = Prefix \o RowText(v)
      <4>1. b = <<>> /\ Append(<<>>, v) = <<v>>
        BY <1>1, <3>1 DEF Begun
      <4> HIDE DEF v
      <4>2. sql' \in Seq(Symbols) /\ sql' # <<>> /\ Carries(sql', <<v>>)
        BY <2>2, <3>1, NewStatement
      <4> QED
        BY <4>1, <4>2
    <3>2. CASE Begun /\ sql' = sql \o <<Comma>> \o RowText(v)
      <4> DEFINE q == sql \o <<Comma>>
                 comma == <<Comma>>
      <4>1. comma \in Seq(Symbols) /\ sql # <<>>
            /\ Leads(Reader("text", <<>>, b), comma, Reader("text", <<>>, b))
        BY <3>2, Keywords DEF Begun
      <4> HIDE DEF comma
      <4>2. sql \o comma \in Seq(Symbols) /\ sql \o comma # <<>> /\ Carries(sql \o comma, b)
        BY <1>1, <1>2, <4>1, WordAdded, Longer
      <4>3. q \in Seq(Symbols) /\ q # <<>> /\ Carries(q, b)
        BY <4>2 DEF comma
      <4>4. sql' = q \o RowText(v)
        BY <3>2
      <4> HIDE DEF q, v
      <4> QED
        BY <2>2, <4>3, <4>4, RowAdded
    <3> QED
      BY <1>7, <3>1, <3>2 DEF AddRow
  <2> HIDE DEF v
  <2> QED
    BY <1>1, <1>2, <1>6, <2>1, <2>2, <2>3
<1>8. CASE FlushRow
  <2> DEFINE v == Head(args)
             p == Command \o sql \o Postfix
  <2>1. /\ backslashes' = backslashes /\ given' = given /\ stored' = stored
        /\ args' = Tail(args) /\ args # <<>>
        /\ stream = <<>> /\ stream' = Frames(p) /\ sql' = Prefix \o RowText(v)
    BY <1>8 DEF FlushRow, Execute
  <2>2. p \in Seq(Symbols) /\ Carries(p, b)
    BY <1>1, <1>2, StatementSent
  <2>3. v \in Seq(Characters) /\ args' \in Seq(S)
    BY <1>4, <2>1 DEF S
  <2>4. /\ Append(<<>>, v) = <<v>> /\ <<v>> \in Seq(S)
        /\ Parts(given, stored', b, <<v>>, args')
    <3> DEFINE none == <<>>
    <3>1. Append(none, v) = <<v>> /\ none \in Seq(S)
      BY <1>5
    <3>2. Parts(given, stored, none, b, args)
      BY <1>1, <1>3, <2>1
    <3> HIDE DEF none, v
    <3>3. Parts(given, stored, b, none, args)
      BY <1>2, <3>2, PartsSent DEF none
    <3>4. Append(none, Head(args)) \in Seq(S)
          /\ Parts(given, stored, b, Append(none, Head(args)), Tail(args))
      BY <1>2, <2>1, <3>1, <3>3, PartsMove
    <3> QED
      BY <2>1, <3>1, <3>4 DEF none, v
  <2> HIDE DEF v, p
  <2>5. sql' \in Seq(Symbols) /\ sql' # <<>> /\ Carries(sql', <<v>>)
    BY <2>1, <2>3, NewStatement
  <2> QED
    BY <1>2, <1>6, <2>1, <2>2, <2>3, <2>4, <2>5
<1>9. CASE FlushLast
  <2> DEFINE p == Command \o sql \o Postfix
             none == <<>>
  <2>1. /\ backslashes' = backslashes /\ given' = given /\ stored' = stored /\ args' = args
        /\ stream = <<>> /\ stream' = Frames(p) /\ sql' = none
    BY <1>9 DEF FlushLast, Execute
  <2>2. p \in Seq(Symbols) /\ Carries(p, b)
    BY <1>1, <1>2, StatementSent
  <2>3. none \in Seq(S) /\ none \in Seq(Symbols) /\ Carries(none, none)
    BY <1>5, LeadsNowhere DEF Carries, Start
  <2>4. Parts(given, stored, b, none, args)
    BY <1>1, <1>2, <1>3, <2>1, PartsSent
  <2> HIDE DEF p, none
  <2> QED
    BY <1>2, <1>6, <2>1, <2>2, <2>3, <2>4
<1>10. CASE Insert
  <2>1. PICK p \in Seq(Symbols) : stream = Frames(p) /\ Carries(p, a)
    BY <1>1, <1>10 DEF Insert
  <2>2. ReadPacket(stream, 0) = [ok |-> TRUE, payload |-> p, rest |-> <<>>]
    BY <2>1, PacketReturns
  <2>3. RowsOf(p) = a
    BY <2>1, PacketRows
  <2>4. /\ backslashes' = backslashes /\ given' = given /\ args' = args /\ sql' = sql
        /\ stored' = stored \o a /\ stream' = <<>>
    <3> DEFINE packet == ReadPacket(stream, 0)
    <3>1. packet.payload = p /\ packet.rest = <<>>
      BY <2>2
    <3>2. /\ backslashes' = backslashes /\ given' = given /\ args' = args /\ sql' = sql
          /\ stored' = stored \o RowsOf(packet.payload) /\ stream' = packet.rest
      BY <1>10 DEF Insert
    <3> HIDE DEF packet
    <3> QED
      BY <2>3, <3>1, <3>2
  <2>5. stored \o a \in Seq(S) /\ Parts(given, stored \o a, <<>>, b, args)
    BY <1>1, <1>2, PartsStored
  <2> QED
    BY <1>1, <1>2, <1>5, <1>6, <2>4, <2>5
<1>11. CASE UNCHANGED <<backslashes, given, args, sql, stream, stored>>
  BY <1>1, <1>2, <1>6, <1>11
<1>12. CASE Select \/ FetchOne \/ FetchAll \/ (\E size \in 1..MaxRows : FetchMany(size))
            \/ (\E r \in 0..MaxRows - 1 : Scroll(r)) \/ UNCHANGED statementVars
  BY <1>11, <1>12 DEF Select, FetchOne, FetchAll, FetchMany, HandOut, Scroll, statementVars
<1> QED
  BY <1>7, <1>8, <1>9, <1>10, <1>12 DEF StatementNext

\* Every row given to executemany arrives, once, unchanged and in order: escape_string,
\* _do_execute_many, _execute_command and _read_packet, for all rows of characters that
\* quoting tells apart, every length of statement and frame.
THEOREM RowsAllArrive == StatementSpec => []RowsArrive
<1>1. StatementInit => ArriveInv
  BY ArriveInit
<1>2. ArriveInv /\ [StatementNext]_statementVars => ArriveInv'
  BY ArriveStays
<1>3. ArriveInv => RowsArrive
  BY ArriveSound
<1> QED
  BY <1>1, <1>2, <1>3, PTL DEF StatementSpec

\* What has been handed out since the last scroll is what the cursor has passed.
HandedInv ==
    /\ stored \in RowSeqs
    /\ rows # None => /\ rows \in RowSeqs /\ rownumber \in 0..Len(rows)
                      /\ got = SubSeq(rows, 1, rownumber)

\* fetchone, fetchmany, fetchall and scroll keep to that.
LEMMA HandedStays ==
    ASSUME ArriveInv, ArriveInv', HandedInv, [StatementNext]_statementVars
    PROVE  HandedInv'
<1>1. stored' \in RowSeqs /\ stored \in RowSeqs
  BY DEF ArriveInv
<1>2. ASSUME NEW n \in Nat, HandOut(n), n <= Left, rownumber' = rownumber + n
      PROVE  HandedInv'
  <2>1. /\ rows # None /\ rows' = rows /\ rows \in RowSeqs /\ rownumber \in 0..Len(rows)
        /\ got = SubSeq(rows, 1, rownumber) /\ got' = got \o [i \in 1..n |-> rows[rownumber + i]]
        /\ n <= Len(rows) - rownumber
    BY <1>2 DEF HandedInv, HandOut, Left
  <2>2. Len(rows) \in Nat
    BY <2>1, LenProperties DEF RowSeqs
  <2>3. n \in 0..(Len(rows) - rownumber) /\ rownumber' \in 0..Len(rows)
    BY <1>2, <2>1, <2>2
  <2>4. got' = SubSeq(rows, 1, rownumber + n)
    BY <2>1, <2>3, HandedOn DEF RowSeqs
  <2> QED
    BY <1>1, <1>2, <2>1, <2>3, <2>4 DEF HandedInv
<1>3. rows # None => Len(rows) \in Nat /\ Left \in Nat /\ Left = Len(rows) - rownumber
                     /\ rownumber \in Nat
  <2> SUFFICES ASSUME rows # None
               PROVE  Len(rows) \in Nat /\ Left \in Nat /\ Left = Len(rows) - rownumber
                      /\ rownumber \in Nat
    OBVIOUS
  <2>1. rows \in RowSeqs /\ rownumber \in 0..Len(rows)
    BY DEF HandedInv
  <2>2. Len(rows) \in Nat
    BY <2>1, LenProperties DEF RowSeqs
  <2> QED
    BY <2>1, <2>2 DEF Left
<1>4. CASE Select
  <2>1. rows' = stored /\ rownumber' = 0 /\ got' = <<>>
    BY <1>4 DEF Select
  <2>2. Len(stored) \in Nat
    BY <1>1, LenProperties DEF RowSeqs
  <2>3. SubSeq(stored, 1, 0) = <<>>
    BY SubSeqEmpty
  <2> QED
    BY <1>1, <2>1, <2>2, <2>3 DEF HandedInv
<1>5. CASE FetchOne
  <2> DEFINE n == IF Left > 0 THEN 1 ELSE 0
  <2>1. HandOut(n) /\ rownumber' = IF Left > 0 THEN rownumber + 1 ELSE rownumber
    BY <1>5 DEF FetchOne
  <2>2. rows # None
    BY <2>1 DEF HandOut
  <2>3. n \in Nat /\ n <= Left /\ rownumber' = rownumber + n
    BY <1>3, <2>1, <2>2
  <2> HIDE DEF n
  <2> QED
    BY <1>2, <2>1, <2>3
<1>6. CASE FetchAll
  <2>1. HandOut(Left) /\ rownumber' = Len(rows)
    BY <1>6 DEF FetchAll
  <2>2. rows # None
    BY <2>1 DEF HandOut
  <2> DEFINE n == Left
  <2>3. n \in Nat /\ n <= Left /\ rownumber' = rownumber + n /\ HandOut(n)
    BY <1>3, <2>1, <2>2
  <2> HIDE DEF n
  <2> QED
    BY <1>2, <2>3
<1>7. ASSUME NEW size \in 1..MaxRows, FetchMany(size)
      PROVE  HandedInv'
  <2> DEFINE n == IF size < Left THEN size ELSE Left
  <2>1. /\ HandOut(n)
        /\ rownumber' = IF rownumber + size < Len(rows) THEN rownumber + size ELSE Len(rows)
    BY <1>7 DEF FetchMany
  <2>2. rows # None /\ size \in Nat
    BY <2>1, StatementAssumption DEF HandOut
  <2>3. n \in Nat /\ n <= Left /\ rownumber' = rownumber + n
    BY <1>3, <2>1, <2>2
  <2> HIDE DEF n
  <2> QED
    BY <1>2, <2>1, <2>3
<1>8. ASSUME NEW r \in 0..MaxRows - 1, Scroll(r)
      PROVE  HandedInv'
  <2>1. rows # None /\ rows' = rows /\ rownumber' = r /\ r < Len(rows) /\ got' = SubSeq(rows, 1, r)
    BY <1>8 DEF Scroll
  <2>2. r \in Nat /\ rows \in RowSeqs
    BY <2>1, StatementAssumption DEF HandedInv
  <2>3. r \in 0..Len(rows)
    BY <1>3, <2>1, <2>2
  <2> QED
    BY <1>1, <2>1, <2>2, <2>3 DEF HandedInv
<1>9. CASE UNCHANGED <<rows, rownumber, got>>
  BY <1>1, <1>9 DEF HandedInv
<1>10. CASE AddRow \/ FlushRow \/ FlushLast \/ Insert \/ UNCHANGED statementVars
  BY <1>9, <1>10 DEF AddRow, FlushRow, FlushLast, Insert, statementVars
<1> QED
  BY <1>4, <1>5, <1>6, <1>7, <1>8, <1>10 DEF StatementNext

\* A buffered cursor hands the rows out in order, none twice and none left out, for any
\* number of rows and calls of fetchone, fetchmany, fetchall and scroll.
THEOREM RowsAllHandedOut == StatementSpec => []RowsHandedOut
<1>1. StatementInit => ArriveInv /\ HandedInv
  <2>1. StatementInit => HandedInv
    BY EmptySeq DEF StatementInit, HandedInv, RowSeqs
  <2> QED
    BY <2>1, ArriveInit
<1>2. (ArriveInv /\ HandedInv) /\ [StatementNext]_statementVars => (ArriveInv /\ HandedInv)'
  BY ArriveStays, HandedStays
<1>3. ArriveInv /\ HandedInv => RowsHandedOut
  <2> SUFFICES ASSUME HandedInv, rows # None
               PROVE  rownumber <= Len(rows) /\ got = SubSeq(rows, 1, rownumber)
    BY DEF RowsHandedOut
  <2>1. rows \in RowSeqs /\ rownumber \in 0..Len(rows) /\ got = SubSeq(rows, 1, rownumber)
    BY DEF HandedInv
  <2>2. Len(rows) \in Nat
    BY <2>1, LenProperties DEF RowSeqs
  <2> QED
    BY <2>1, <2>2
<1> QED
  BY <1>1, <1>2, <1>3, PTL DEF StatementSpec
==============================================================================
