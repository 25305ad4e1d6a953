-------------------------- MODULE LaneKernelProofs ---------------------------
(***************************************************************************)
(* Machine-checked proofs about LaneKernel, for every set of graphs, every *)
(* list of forbidden cycle lengths and every bound: giving up on a score   *)
(* early changes no decision of the search, a checkpoint restores the      *)
(* search exactly, and the bounded ancestries are unbroken.                *)
(***************************************************************************)
EXTENDS LaneKernel, SequenceTheorems, NaturalsInduction, WellFoundedInduction, TLAPS

-----------------------------------------------------------------------------
(* Sums.                                                                   *)

(* A nonempty set of naturals has a least element.                         *)
LEMMA LeastExists ==
    ASSUME NEW T, T \subseteq Nat, T # {}
    PROVE  \E x \in T : \A y \in T : x <= y
<1>1. PICK x \in T : \A y \in T : ~(<<y, x>> \in OpToRel(<, Nat))
  BY NatLessThanWellFounded, WFMin
<1>2. \A y \in T : ~(y < x)
  BY <1>1 DEF OpToRel
<1> QED
  BY <1>2

(* The partial sums of a list of naturals.                                 *)
SumsOf(f, L, B) == f = [i \in 0 .. L |-> IF i = 0 THEN 0 ELSE f[i - 1] + B[i]]

(* They exist.                                                             *)
LEMMA SumsExist ==
    ASSUME NEW L \in Nat, NEW B \in [1 .. L -> Nat]
    PROVE  \E f : SumsOf(f, L, B)
<1> DEFINE T == {m \in Nat : m <= L /\ ~\E f : SumsOf(f, m, B)}
<1>1. SUFFICES ASSUME T # {} PROVE FALSE
  <2>1. L \notin T
    BY <1>1
  <2> QED
    BY <2>1
<1>2. PICK m \in T : \A y \in T : m <= y
  BY <1>1, LeastExists
<1>3. CASE m = 0
  <2> DEFINE f == [i \in 0 .. 0 |-> 0]
  <2>1. SumsOf(f, 0, B)
    BY DEF SumsOf
  <2> QED
    BY <1>2, <1>3, <2>1
<1>4. CASE m # 0
  <2>1. m - 1 \in Nat /\ m - 1 <= L /\ m - 1 \notin T /\ m \in 1 .. L
    BY <1>2, <1>4
  <2>2. PICK g : SumsOf(g, m - 1, B)
    BY <2>1
  <2> DEFINE f == [i \in 0 .. m |-> IF i = m THEN g[m - 1] + B[m] ELSE g[i]]
  <2>3. ASSUME NEW i \in 0 .. m PROVE f[i] = IF i = 0 THEN 0 ELSE f[i - 1] + B[i]
    <3>1. CASE i = m
      <4>1. m - 1 \in 0 .. m /\ m - 1 # m
        BY <2>1
      <4>2. f[m - 1] = g[m - 1]
        BY <4>1
      <4> QED
        BY <1>4, <3>1, <4>2
    <3>2. CASE i # m
      <4>1. i \in 0 .. m - 1 /\ (i # 0 => i - 1 \in 0 .. m /\ i - 1 # m)
        BY <2>1, <3>2
      <4>2. g[i] = IF i = 0 THEN 0 ELSE g[i - 1] + B[i]
        BY <2>2, <4>1 DEF SumsOf
      <4>3. f[i] = g[i] /\ (i # 0 => f[i - 1] = g[i - 1])
        BY <3>2, <4>1
      <4> QED
        BY <4>2, <4>3
    <3> QED
      BY <3>1, <3>2
  <2>4. f = [i \in 0 .. m |-> f[i]]
    OBVIOUS
  <2> HIDE DEF f
  <2>5. SumsOf(f, m, B)
    BY <2>3, <2>4 DEF SumsOf
  <2> QED
    BY <1>2, <2>5
<1> QED
  BY <1>3, <1>4

(* They are naturals.                                                      *)
LEMMA SumsNat ==
    ASSUME NEW L \in Nat, NEW B \in [1 .. L -> Nat], NEW f, SumsOf(f, L, B)
    PROVE  f \in [0 .. L -> Nat]
<1> DEFINE T == {m \in 0 .. L : f[m] \notin Nat}
<1>0. f = [i \in 0 .. L |-> f[i]] /\ \A i \in 0 .. L : f[i] = IF i = 0 THEN 0 ELSE f[i - 1] + B[i]
  BY DEF SumsOf
<1>1. SUFFICES ASSUME T # {} PROVE FALSE
  BY <1>0, <1>1
<1>T. T \subseteq Nat
  OBVIOUS
<1>2. PICK m \in T : \A y \in T : m <= y
  BY <1>1, <1>T, LeastExists
<1>3. m # 0
  BY <1>0, <1>2
<1>4. m - 1 \in 0 .. L /\ m \in 1 .. L /\ m - 1 \notin T
  BY <1>2, <1>3
<1>5. f[m - 1] \in Nat /\ B[m] \in Nat
  BY <1>4
<1>6. f[m] = f[m - 1] + B[m] /\ f[m] \notin Nat
  BY <1>0, <1>2, <1>3
<1> QED
  BY <1>5, <1>6

(* They grow.                                                              *)
LEMMA SumsGrow ==
    ASSUME NEW L \in Nat, NEW B \in [1 .. L -> Nat], NEW f, SumsOf(f, L, B), NEW i \in 0 .. L
    PROVE  f[i] <= f[L]
<1> DEFINE T == {m \in 0 .. L : i <= m /\ ~(f[i] <= f[m])}
<1>0. f \in [0 .. L -> Nat] /\ \A j \in 0 .. L : f[j] = IF j = 0 THEN 0 ELSE f[j - 1] + B[j]
  BY SumsNat DEF SumsOf
<1>1. SUFFICES ASSUME T # {} PROVE FALSE
  <2>1. L \notin T /\ L \in 0 .. L /\ i <= L
    BY <1>1
  <2> QED
    BY <2>1
<1>T. T \subseteq Nat
  OBVIOUS
<1>2. PICK m \in T : \A y \in T : m <= y
  BY <1>1, <1>T, LeastExists
<1>3. m # i /\ i < m /\ m # 0
  BY <1>0, <1>2
<1>4. m - 1 \in 0 .. L /\ m \in 1 .. L /\ m - 1 \notin T
  BY <1>2, <1>3
<1>5. f[i] <= f[m - 1] /\ f[m] = f[m - 1] + B[m] /\ B[m] \in Nat
  BY <1>0, <1>3, <1>4
<1>6. f[i] \in Nat /\ f[m - 1] \in Nat
  BY <1>0, <1>4
<1> QED
  BY <1>2, <1>5, <1>6

-----------------------------------------------------------------------------
(* Scores.                                                                 *)
LengthCount == Len(Lengths)

(* The penalties of a graph, from the longest length on.                   *)
Penalties(g) == [i \in 1 .. LengthCount |-> Bounded(g, LengthCount + 1 - i)]
Weighed(g) ==
    [i \in 1 .. LengthCount |-> Bounded(g, LengthCount + 1 - i) * Weight(LengthCount + 1 - i)]

(* Counts, penalties and weights are naturals.                             *)
LEMMA PenaltyTypes ==
    ASSUME NEW g \in Graphs, NEW i \in 1 .. LengthCount
    PROVE  Counts[g][i] \in Nat /\ Bounded(g, i) \in Nat /\ Weight(i) \in Nat
<1>1. Lengths[i] \in Nat \ {0}
  BY KernelAssumption DEF LengthCount
<1>2. Counts[g][i] \in Nat /\ Cap \in Nat
  BY KernelAssumption DEF LengthCount
<1>3. Bounded(g, i) \in Nat
  BY <1>2 DEF Bounded, AtMost
<1>4. Weight(i) \in Nat
  BY <1>1 DEF Weight
<1> QED
  BY <1>2, <1>3, <1>4

(* A product of naturals, and of the smaller natural.                      *)
LEMMA Products ==
    ASSUME NEW a \in Nat, NEW b \in Nat, NEW w \in Nat
    PROVE  a * w \in Nat /\ (a <= b => a * w <= b * w)
OBVIOUS

(* The lists the sums run over.                                            *)
LEMMA PenaltyLists ==
    ASSUME NEW g \in Graphs
    PROVE  /\ LengthCount \in Nat /\ Penalties(g) \in [1 .. LengthCount -> Nat]
           /\ Weighed(g) \in [1 .. LengthCount -> Nat]
<1>1. LengthCount \in Nat
  BY KernelAssumption DEF LengthCount
<1>2. \A i \in 1 .. LengthCount : LengthCount + 1 - i \in 1 .. LengthCount
  BY <1>1
<1>3. \A i \in 1 .. LengthCount : Penalties(g)[i] \in Nat /\ Weighed(g)[i] \in Nat
  BY <1>2, PenaltyTypes, Products DEF Penalties, Weighed
<1> QED
  BY <1>1, <1>3 DEF Penalties, Weighed

(* PartialTotal and PartialWeighted are partial sums of them.              *)
LEMMA PartialSums ==
    ASSUME NEW g \in Graphs
    PROVE  /\ \E f : SumsOf(f, LengthCount, Penalties(g)) /\ \A n : PartialTotal(g, n) = f[n]
           /\ \E f : SumsOf(f, LengthCount, Weighed(g)) /\ \A n : PartialWeighted(g, n) = f[n]
<1>1. ASSUME NEW f PROVE SumsOf(f, LengthCount, Penalties(g)) <=>
           f = [i \in 0 .. Len(Lengths) |-> IF i = 0 THEN 0 ELSE f[i - 1] + Bounded(g, Len(Lengths) + 1 - i)]
  <2>1. \A i \in 0 .. Len(Lengths) : i # 0 => Penalties(g)[i] = Bounded(g, Len(Lengths) + 1 - i)
    BY PenaltyLists DEF Penalties, LengthCount
  <2> QED
    BY <2>1 DEF SumsOf, LengthCount
<1>2. \E f : f = [i \in 0 .. Len(Lengths) |-> IF i = 0 THEN 0 ELSE f[i - 1] + Bounded(g, Len(Lengths) + 1 - i)]
  BY <1>1, PenaltyLists, SumsExist
<1>3. \E f : SumsOf(f, LengthCount, Penalties(g)) /\ \A n : PartialTotal(g, n) = f[n]
  BY <1>1, <1>2, Zenon DEF PartialTotal
<1>4. ASSUME NEW f PROVE SumsOf(f, LengthCount, Weighed(g)) <=>
           f = [i \in 0 .. Len(Lengths) |-> IF i = 0 THEN 0 ELSE
                    f[i - 1] + Bounded(g, Len(Lengths) + 1 - i) * Weight(Len(Lengths) + 1 - i)]
  <2>1. \A i \in 0 .. Len(Lengths) : i # 0 =>
           Weighed(g)[i] = Bounded(g, Len(Lengths) + 1 - i) * Weight(Len(Lengths) + 1 - i)
    BY PenaltyLists DEF Weighed, LengthCount
  <2> QED
    BY <2>1 DEF SumsOf, LengthCount
<1>5. \E f : f = [i \in 0 .. Len(Lengths) |-> IF i = 0 THEN 0 ELSE
                    f[i - 1] + Bounded(g, Len(Lengths) + 1 - i) * Weight(Len(Lengths) + 1 - i)]
  BY <1>4, PenaltyLists, SumsExist
<1>6. \E f : SumsOf(f, LengthCount, Weighed(g)) /\ \A n : PartialWeighted(g, n) = f[n]
  BY <1>4, <1>5, Zenon DEF PartialWeighted
<1> QED
  BY <1>3, <1>6

(* What the penalties counted so far say of the whole score: they are part *)
(* of it, and the next length adds its own.                                *)
LEMMA PartialBounds ==
    ASSUME NEW g \in Graphs
    PROVE  /\ \A n \in 0 .. LengthCount :
                /\ PartialTotal(g, n) \in Nat /\ PartialTotal(g, n) <= PartialTotal(g, LengthCount)
                /\ PartialWeighted(g, n) \in Nat /\ PartialWeighted(g, n) <= PartialWeighted(g, LengthCount)
           /\ \A n \in 1 .. LengthCount :
                LET i == LengthCount + 1 - n IN
                /\ PartialTotal(g, n) = PartialTotal(g, n - 1) + Bounded(g, i)
                /\ PartialWeighted(g, n) = PartialWeighted(g, n - 1) + Bounded(g, i) * Weight(i)
<1>1. PICK t : SumsOf(t, LengthCount, Penalties(g)) /\ \A n : PartialTotal(g, n) = t[n]
  BY PartialSums
<1>2. PICK w : SumsOf(w, LengthCount, Weighed(g)) /\ \A n : PartialWeighted(g, n) = w[n]
  BY PartialSums
<1>3. t \in [0 .. LengthCount -> Nat] /\ \A n \in 0 .. LengthCount : t[n] <= t[LengthCount]
  BY <1>1, PenaltyLists, SumsNat, SumsGrow
<1>4. w \in [0 .. LengthCount -> Nat] /\ \A n \in 0 .. LengthCount : w[n] <= w[LengthCount]
  BY <1>2, PenaltyLists, SumsNat, SumsGrow
<1>5. ASSUME NEW n \in 1 .. LengthCount
      PROVE  /\ t[n] = t[n - 1] + Bounded(g, LengthCount + 1 - n)
             /\ w[n] = w[n - 1] + Bounded(g, LengthCount + 1 - n) * Weight(LengthCount + 1 - n)
  <2>1. n \in 0 .. LengthCount /\ n # 0
    BY PenaltyLists
  <2>2. t[n] = t[n - 1] + Penalties(g)[n] /\ w[n] = w[n - 1] + Weighed(g)[n]
    BY <1>1, <1>2, <2>1 DEF SumsOf
  <2> QED
    BY <2>2 DEF Penalties, Weighed
<1> QED
  BY <1>1, <1>2, <1>3, <1>4, <1>5

Triples == Nat \X Nat \X Nat

(* Search keys are ordered.                                                *)
LEMMA LessOrder ==
    ASSUME NEW a \in Triples, NEW b \in Triples, NEW c \in Triples
    PROVE  /\ ~Less(a, a)
           /\ Less(a, b) => ~Less(b, a)
           /\ Less(a, b) /\ ~Less(c, b) => Less(a, c)
           /\ ~Less(b, a) /\ Less(b, c) => Less(a, c)
BY DEF Less, Triples

(* A score is a triple of naturals.                                        *)
LEMMA KeyTypes ==
    ASSUME NEW g \in Graphs
    PROVE  OrderingKey(g) \in Triples
<1>1. Size[g] \in Nat /\ LengthCount \in 0 .. LengthCount
  BY KernelAssumption, PenaltyLists
<1> QED
  BY <1>1, PartialBounds DEF OrderingKey, Triples, LengthCount

(* A cutoff that penalties counted so far reach is one the score reaches.  *)
LEMMA CutoffOfPart ==
    ASSUME NEW p \in Triples, NEW f \in Triples, NEW c \in Triples, NEW inclusive \in BOOLEAN,
           p[1] <= f[1], p[2] <= f[2], p[3] = f[3], CutoffReached(p, c, inclusive)
    PROVE  Less(c, f) \/ (inclusive /\ ~Less(f, c))
BY DEF CutoffReached, Less, Triples

(* A score the worker gives up on is no better than the cutoff, and worse  *)
(* when ties are let through.                                              *)
LEMMA DominatedIsWorse ==
    ASSUME NEW g \in Graphs, NEW h \in Graphs, NEW inclusive \in BOOLEAN,
           Dominated(g, OrderingKey(h), inclusive)
    PROVE  Better(h, g) \/ (inclusive /\ ~Better(g, h))
<1>0. PICK n \in 1 .. LengthCount : \E count \in 0 .. AtMost(Counts[g][LengthCount + 1 - n], Cap + 1) :
        CutoffReached(<<PartialTotal(g, n - 1) + AtMost(count, Cap),
                        PartialWeighted(g, n - 1) + AtMost(count, Cap) * Weight(LengthCount + 1 - n), Size[g]>>,
                      OrderingKey(h), inclusive)
  BY DEF Dominated, LengthCount
<1>1. PICK count \in 0 .. AtMost(Counts[g][LengthCount + 1 - n], Cap + 1) :
        CutoffReached(<<PartialTotal(g, n - 1) + AtMost(count, Cap),
                        PartialWeighted(g, n - 1) + AtMost(count, Cap) * Weight(LengthCount + 1 - n), Size[g]>>,
                      OrderingKey(h), inclusive)
  BY <1>0
<1> DEFINE i == LengthCount + 1 - n
           m == AtMost(count, Cap)
           p == <<PartialTotal(g, n - 1) + m, PartialWeighted(g, n - 1) + m * Weight(i), Size[g]>>
<1>2. i \in 1 .. LengthCount /\ n \in 0 .. LengthCount /\ n - 1 \in 0 .. LengthCount /\ LengthCount \in 0 .. LengthCount
  BY PenaltyLists
<1>3. Counts[g][i] \in Nat /\ Bounded(g, i) \in Nat /\ Weight(i) \in Nat /\ Cap \in Nat /\ Size[g] \in Nat
  BY <1>2, PenaltyTypes, KernelAssumption
<1>4. m \in Nat /\ m <= Bounded(g, i)
  BY <1>3 DEF Bounded, AtMost
<1> HIDE DEF m, i
<1>5. m * Weight(i) \in Nat /\ Bounded(g, i) * Weight(i) \in Nat /\ m * Weight(i) <= Bounded(g, i) * Weight(i)
  BY <1>3, <1>4, Products
<1> DEFINE pt == PartialTotal(g, n - 1)
           pw == PartialWeighted(g, n - 1)
           t == PartialTotal(g, n)
           w == PartialWeighted(g, n)
           T == PartialTotal(g, LengthCount)
           W == PartialWeighted(g, LengthCount)
           mw == m * Weight(i)
           bw == Bounded(g, i) * Weight(i)
<1>6. /\ pt \in Nat /\ pw \in Nat /\ t \in Nat /\ w \in Nat /\ T \in Nat /\ W \in Nat
      /\ t <= T /\ w <= W /\ t = pt + Bounded(g, i) /\ w = pw + bw
  BY <1>2, PartialBounds DEF i
<1> HIDE DEF pt, pw, t, w, T, W, mw, bw
<1>7. pt + m \in Nat /\ pw + mw \in Nat /\ pt + m <= T /\ pw + mw <= W
  BY <1>3, <1>4, <1>5, <1>6 DEF mw, bw
<1>8. p = <<pt + m, pw + mw, Size[g]>> /\ OrderingKey(g) = <<T, W, Size[g]>>
  BY DEF OrderingKey, LengthCount, pt, pw, mw, T, W
<1>9. p \in Triples /\ OrderingKey(g) \in Triples /\ OrderingKey(h) \in Triples
  BY <1>3, <1>7, <1>8, KeyTypes DEF Triples
<1>10. p[1] <= OrderingKey(g)[1] /\ p[2] <= OrderingKey(g)[2] /\ p[3] = OrderingKey(g)[3]
  BY <1>7, <1>8
<1>11. CutoffReached(p, OrderingKey(h), inclusive)
  BY <1>1 DEF m, i
<1> HIDE DEF p
<1> QED
  BY <1>9, <1>10, <1>11, CutoffOfPart DEF Better

-----------------------------------------------------------------------------
(* Bounded sequences.                                                      *)

(* Newest keeps the end of a sequence.                                     *)
LEMMA NewestFacts ==
    ASSUME NEW S, NEW s \in Seq(S), NEW n \in Nat
    PROVE  LET t == Newest(s, n) IN
           /\ t \in Seq(S) /\ Len(t) \in Nat /\ Len(t) <= n /\ Len(t) <= Len(s) /\ (Len(s) <= n => t = s)
           /\ n > 0 /\ s # <<>> => t # <<>>
           /\ \A i \in 1 .. Len(t) : t[i] = s[Len(s) - Len(t) + i]
<1>1. Len(s) \in Nat
  OBVIOUS
<1>2. CASE Len(s) <= n
  BY <1>1, <1>2 DEF Newest
<1>3. CASE ~(Len(s) <= n)
  <2> DEFINE m == Len(s) - n + 1
             t == SubSeq(s, m, Len(s))
  <2>1. m \in 1 .. Len(s) + 1 /\ m \in Int
    BY <1>1, <1>3
  <2>2. t \in Seq(S) /\ Len(t) = Len(s) - m + 1 /\ \A i \in 1 .. Len(s) - m + 1 : t[i] = s[m + i - 1]
    BY <1>1, <2>1, SubSeqProperties, SMTT(30)
  <2>3. Newest(s, n) = t
    BY <1>3 DEF Newest
  <2> HIDE DEF t
  <2>4. Len(t) = n /\ \A i \in 1 .. n : t[i] = s[Len(s) - n + i]
    <3>1. Len(s) - m + 1 = n /\ \A i \in 1 .. n : m + i - 1 = Len(s) - n + i
      BY <1>1
    <3> QED
      BY <2>2, <3>1
  <2>5. n > 0 => t # <<>>
    BY <2>2, <2>4
  <2> QED
    BY <1>1, <1>3, <2>2, <2>3, <2>4, <2>5
<1> QED
  BY <1>2, <1>3

Records == [id : Graphs, parent : Graphs \cup {None}]

(* The end of a chain is a chain.                                          *)
LEMMA NewestChained ==
    ASSUME NEW s \in Seq(Records), NEW last, Chained(s, last), NEW n \in Nat
    PROVE  Chained(Newest(s, n), last)
<1> DEFINE t == Newest(s, n)
           d == Len(s) - Len(t)
<1>1. /\ t \in Seq(Records) /\ Len(t) \in Nat /\ Len(t) <= Len(s) /\ Len(s) \in Nat
      /\ \A i \in 1 .. Len(t) : t[i] = s[d + i]
  BY NewestFacts
<1> HIDE DEF t
<1>2. ASSUME NEW i \in 1 .. Len(t) - 1 PROVE t[i + 1].parent = t[i].id
  <2>1. i \in 1 .. Len(t) /\ i + 1 \in 1 .. Len(t) /\ d + i \in 1 .. Len(s) - 1 /\ d + (i + 1) = (d + i) + 1
    BY <1>1
  <2>2. s[(d + i) + 1].parent = s[d + i].id
    BY <2>1 DEF Chained
  <2> QED
    BY <1>1, <2>1, <2>2
<1>3. ASSUME t # <<>> PROVE t[Len(t)].id = last
  <2>1. Len(t) \in 1 .. Len(t) /\ d + Len(t) = Len(s) /\ s # <<>>
    <3>1. Len(t) # 0
      BY <1>1, <1>3, EmptySeq
    <3> QED
      BY <1>1, <3>1
  <2> QED
    BY <1>1, <2>1 DEF Chained
<1> QED
  BY <1>2, <1>3 DEF Chained, t

(* A chain is continued by a child of its last graph.                      *)
LEMMA AppendChained ==
    ASSUME NEW s \in Seq(Records), NEW r \in Records, Chained(s, r.parent)
    PROVE  Chained(Append(s, r), r.id) /\ Append(s, r) \in Seq(Records) /\ Len(Append(s, r)) = Len(s) + 1
<1> DEFINE t == Append(s, r)
<1>1. /\ t \in Seq(Records) /\ Len(t) = Len(s) + 1 /\ Len(s) \in Nat /\ t[Len(t)] = r
      /\ \A i \in 1 .. Len(s) : t[i] = s[i]
  OBVIOUS
<1> HIDE DEF t
<1>2. ASSUME NEW i \in 1 .. Len(t) - 1 PROVE t[i + 1].parent = t[i].id
  <2>1. CASE i = Len(s)
    <3>1. s # <<>>
      BY <1>1, <2>1
    <3> QED
      BY <1>1, <2>1, <3>1 DEF Chained
  <2>2. CASE i # Len(s)
    <3>1. i \in 1 .. Len(s) - 1 /\ i + 1 \in 1 .. Len(s) /\ i \in 1 .. Len(s)
      BY <1>1, <2>2
    <3> QED
      BY <1>1, <3>1 DEF Chained
  <2> QED
    BY <2>1, <2>2
<1>3. Chained(t, r.id)
  BY <1>1, <1>2 DEF Chained
<1> QED
  BY <1>1, <1>3 DEF t

(* No ancestry is a chain.                                                 *)
LEMMA EmptyChained ==
    ASSUME NEW last
    PROVE  Chained(<<>>, last) /\ <<>> \in Seq(Records) /\ Len(<<>>) = 0
BY DEF Chained

-----------------------------------------------------------------------------
(* Kernels and checkpoints.                                                *)
SearchKeys == {"fast", "legacy", "offset"} \X Graphs
KernelTypes ==
    [graph : Graphs, score : Graphs, best : Graphs, curId : Graphs \cup {None}, bestId : Graphs,
     prov : Graphs \cup {None}, accepted : Seq(Records), bestAncestry : Seq(Records),
     evaluated : Nat, scheme : {"fast", "legacy"}, key : SearchKeys, tabu : Seq(SearchKeys),
     high : Int, tenure : Nat \ {0}]

CheckpointTypes ==
    [lane_version : Nat, graph : Graphs, score : Graphs, best : Graphs, bestId : Graphs,
     evaluated : Nat, tabu : Seq(SearchKeys), scheme : {"fast", "legacy"}, high : Int,
     tenure : Nat \ {0}, accepted : Seq(Records), bestAncestry : Seq(Records),
     curId : Graphs, bestProv : Graphs]

(* The bounded parts of the search state are within their bounds, so that  *)
(* putting them back loses nothing, and the tabu list is never empty.      *)
PartsBounded(x) ==
    /\ x.tabu # <<>> /\ Len(x.tabu) <= x.tenure
    /\ Len(x.accepted) <= AncestryLimit /\ Len(x.bestAncestry) <= AncestryLimit
    /\ Independent => x.accepted = <<>> /\ x.bestAncestry = <<>>

(* Both ancestries lead to what they are the ancestry of.                  *)
PartsLinked(x) == Chained(x.accepted, x.curId) /\ Chained(x.bestAncestry, x.best)

(* The record is no worse than the current score.                          *)
RecordKept(x) == ~Better(x.score, x.best)

KernelSound(x) ==
    /\ x \in KernelTypes /\ PartsBounded(x) /\ PartsLinked(x) /\ RecordKept(x)
    /\ Independent => x.prov \in {None, x.best}
    /\ ~Independent => x.curId \in Graphs

CheckpointSound(c) ==
    /\ c \in CheckpointTypes /\ PartsBounded(c) /\ PartsLinked(c) /\ RecordKept(c)
    /\ Independent => c.bestProv = c.best

(* A graph is not better than itself.                                      *)
LEMMA NotBetterThanItself ==
    ASSUME NEW g \in Graphs
    PROVE  ~Better(g, g)
BY KeyTypes, LessOrder DEF Better

(* A new seed.                                                             *)
LEMMA SeedSound ==
    ASSUME NEW x \in KernelTypes, NEW s \in Graphs
    PROVE  KernelSound(NewSeed(x, s)) /\ NewSeed(x, s).high = x.high /\ NewSeed(x, s).graph = s
<1> DEFINE e == <<>>
           q == <<"fast", s>>
           t == <<q>>
           n == [x EXCEPT !.graph = s, !.score = s, !.best = s, !.curId = s, !.bestId = s,
                   !.prov = None, !.accepted = e, !.bestAncestry = e, !.evaluated = 0,
                   !.scheme = "fast", !.key = q, !.tabu = t]
<1>0. NewSeed(x, s) = n
  BY DEF NewSeed
<1>1. e \in Seq(Records) /\ Chained(e, s) /\ Len(e) = 0
  BY EmptyChained
<1>2. q \in SearchKeys
  BY DEF SearchKeys
<1>4. t \in Seq(SearchKeys) /\ t # <<>> /\ Len(t) = 1
  <2> HIDE DEF q
  <2> QED
    BY <1>2
<1>5. e = <<>>
  OBVIOUS
<1> HIDE DEF e, q, t
<1>6. n \in KernelTypes
  BY <1>1, <1>2, <1>4 DEF KernelTypes
<1>7. /\ n.graph = s /\ n.score = s /\ n.best = s /\ n.curId = s /\ n.prov = None /\ n.accepted = e
      /\ n.bestAncestry = e /\ n.tabu = t /\ n.tenure = x.tenure /\ n.high = x.high
  BY DEF KernelTypes
<1>8. x.tenure \in Nat \ {0} /\ AncestryLimit \in Nat \ {0}
  BY KernelAssumption DEF KernelTypes
<1> HIDE DEF n
<1>9. PartsBounded(n)
  <2>1. Len(t) <= x.tenure /\ Len(e) <= AncestryLimit
    BY <1>1, <1>4, <1>8
  <2> QED
    BY <1>4, <1>5, <1>7, <2>1 DEF PartsBounded
<1>10. PartsLinked(n)
  BY <1>1, <1>7 DEF PartsLinked
<1>11. RecordKept(n)
  BY <1>7, NotBetterThanItself DEF RecordKept
<1> QED
  BY <1>0, <1>6, <1>7, <1>9, <1>10, <1>11 DEF KernelSound

(* Fields that the invariant does not read.                                *)
LEMMA OthersChanged ==
    ASSUME NEW x, KernelSound(x), NEW y \in KernelTypes, y.score = x.score, y.best = x.best,
           y.curId = x.curId, y.prov = x.prov, y.accepted = x.accepted, y.bestAncestry = x.bestAncestry,
           y.tabu = x.tabu, y.tenure = x.tenure
    PROVE  KernelSound(y)
<1>1. PartsBounded(y)
  BY DEF KernelSound, PartsBounded
<1>2. PartsLinked(y)
  BY DEF KernelSound, PartsLinked
<1>3. RecordKept(y)
  BY DEF KernelSound, RecordKept
<1> QED
  BY <1>1, <1>2, <1>3 DEF KernelSound

(* The counters.                                                           *)
LEMMA CountersSound ==
    ASSUME NEW x, KernelSound(x), NEW h \in Int
    PROVE  /\ KernelSound([x EXCEPT !.evaluated = @ + 1]) /\ [x EXCEPT !.evaluated = @ + 1].graph = x.graph
           /\ KernelSound([x EXCEPT !.high = h])
<1> DEFINE n == x.evaluated + 1
           y == [x EXCEPT !.evaluated = n]
           z == [x EXCEPT !.high = h]
<1>1. x \in KernelTypes /\ x.evaluated \in Nat
  BY DEF KernelSound, KernelTypes
<1>2. n \in Nat
  BY <1>1
<1> HIDE DEF n
<1>3. /\ y \in KernelTypes /\ y.score = x.score /\ y.best = x.best /\ y.graph = x.graph
      /\ y.curId = x.curId /\ y.prov = x.prov /\ y.accepted = x.accepted /\ y.bestAncestry = x.bestAncestry
      /\ y.tabu = x.tabu /\ y.tenure = x.tenure
  BY <1>1, <1>2 DEF KernelTypes
<1>4. /\ z \in KernelTypes /\ z.score = x.score /\ z.best = x.best
      /\ z.curId = x.curId /\ z.prov = x.prov /\ z.accepted = x.accepted /\ z.bestAncestry = x.bestAncestry
      /\ z.tabu = x.tabu /\ z.tenure = x.tenure
  BY <1>1 DEF KernelTypes
<1>5. y = [x EXCEPT !.evaluated = @ + 1]
  BY DEF n
<1> HIDE DEF y, z
<1>6. KernelSound(y)
  BY <1>3, OthersChanged
<1>7. KernelSound(z)
  BY <1>4, OthersChanged
<1> QED
  BY <1>3, <1>5, <1>6, <1>7 DEF z

(* A restart that raises: what was assigned before stays.                  *)
LEMMA RaisedSound ==
    ASSUME KernelSound(k), NEW s \in Graphs \cup {None}
    PROVE  KernelSound(SeedRaised(s))
<1> DEFINE g == IF s = None THEN k.graph ELSE s
           y == [k EXCEPT !.scheme = "fast", !.graph = g]
<1>1. k \in KernelTypes /\ g \in Graphs
  BY DEF KernelSound, KernelTypes
<1>2. SeedRaised(s) = y
  BY DEF SeedRaised
<1> HIDE DEF g
<1>3. /\ y \in KernelTypes /\ y.score = k.score /\ y.best = k.best
      /\ y.curId = k.curId /\ y.prov = k.prov /\ y.accepted = k.accepted /\ y.bestAncestry = k.bestAncestry
      /\ y.tabu = k.tabu /\ y.tenure = k.tenure
  BY <1>1 DEF KernelTypes
<1> HIDE DEF y
<1> QED
  BY <1>2, <1>3, OthersChanged

(* Another tenure keeps the newest part of the tabu list.                  *)
LEMMA PatchedSound ==
    ASSUME NEW x, KernelSound(x), NEW t \in Nat \ {0}
    PROVE  KernelSound([x EXCEPT !.tenure = t, !.tabu = Newest(@, t)])
<1> DEFINE q == Newest(x.tabu, t)
           y == [x EXCEPT !.tenure = t, !.tabu = q]
<1>1. x \in KernelTypes /\ x.tabu \in Seq(SearchKeys) /\ x.tabu # <<>>
  BY DEF KernelSound, KernelTypes, PartsBounded
<1>2. t \in Nat /\ t > 0
  OBVIOUS
<1>3. q \in Seq(SearchKeys) /\ Len(q) <= t /\ q # <<>>
  <2> HIDE DEF SearchKeys
  <2> QED
    BY <1>1, <1>2, NewestFacts
<1>4. [x EXCEPT !.tenure = t, !.tabu = Newest(@, t)] = y
  BY <1>1 DEF KernelTypes
<1> HIDE DEF q
<1>5. /\ y \in KernelTypes /\ y.score = x.score /\ y.best = x.best
      /\ y.curId = x.curId /\ y.prov = x.prov /\ y.accepted = x.accepted /\ y.bestAncestry = x.bestAncestry
      /\ y.tabu = q /\ y.tenure = t
  BY <1>1, <1>3 DEF KernelTypes
<1> HIDE DEF y
<1>6. PartsBounded(y)
  BY <1>3, <1>5 DEF KernelSound, PartsBounded
<1>7. PartsLinked(y) /\ RecordKept(y)
  BY <1>5 DEF KernelSound, PartsLinked, RecordKept
<1> QED
  BY <1>4, <1>5, <1>6, <1>7 DEF KernelSound

(* What a checkpoint says of a kernel.                                     *)
LEMMA CheckpointOfSound ==
    ASSUME NEW x, KernelSound(x), NEW v \in Nat
    PROVE  CheckpointSound(Checkpoint(x, v))
<1> DEFINE i == CheckpointIds(x).curId
           b == CheckpointIds(x).bestProv
           c == Checkpoint(x, v)
<1>1. x \in KernelTypes
  BY DEF KernelSound
<1>2. /\ i = IF Independent \/ x.curId = None THEN x.graph ELSE x.curId
      /\ b = IF Independent THEN IF x.prov = None THEN x.best ELSE x.prov ELSE x.bestId
  BY DEF CheckpointIds
<1>3. /\ i \in Graphs /\ b \in Graphs /\ (Independent => b = x.best) /\ (~Independent => i = x.curId)
  <2>1. /\ x.curId \in Graphs \cup {None} /\ x.graph \in Graphs /\ x.best \in Graphs /\ x.bestId \in Graphs
        /\ x.prov \in Graphs \cup {None}
    BY <1>1 DEF KernelTypes
  <2>2. (Independent => x.prov \in {None, x.best}) /\ (~Independent => x.curId \in Graphs) /\ None \notin Graphs
    BY KernelAssumption DEF KernelSound
  <2> HIDE DEF i, b
  <2> QED
    BY <1>2, <2>1, <2>2
<1> HIDE DEF i, b
<1>4. /\ c.lane_version = v /\ c.graph = x.graph /\ c.score = x.score /\ c.best = x.best /\ c.tabu = x.tabu
      /\ c.tenure = x.tenure /\ c.accepted = x.accepted /\ c.bestAncestry = x.bestAncestry
      /\ c.curId = i /\ c.bestProv = b
  BY DEF Checkpoint, i, b
<1>5. c \in CheckpointTypes
  BY <1>1, <1>3 DEF Checkpoint, CheckpointTypes, KernelTypes, i, b
<1> HIDE DEF c
<1>6. PartsBounded(c)
  BY <1>4 DEF KernelSound, PartsBounded
<1>7. PartsLinked(c)
  <2>1. CASE Independent
    BY <1>4, <2>1, EmptyChained DEF KernelSound, PartsBounded, PartsLinked
  <2>2. CASE ~Independent
    BY <1>3, <1>4, <2>2 DEF KernelSound, PartsLinked
  <2> QED
    BY <2>1, <2>2
<1>8. RecordKept(c) /\ (Independent => c.bestProv = c.best)
  BY <1>3, <1>4 DEF KernelSound, RecordKept
<1> QED
  BY <1>5, <1>6, <1>7, <1>8 DEF CheckpointSound, c

(* What a checkpoint gives back, to a restored lane or to a fork.          *)
LEMMA AncestryRestored ==
    ASSUME NEW c, CheckpointSound(c)
    PROVE  RestoredAncestry(c.accepted) = c.accepted /\ RestoredAncestry(c.bestAncestry) = c.bestAncestry
<1>1. /\ c.accepted \in Seq(Records) /\ c.bestAncestry \in Seq(Records) /\ AncestryLimit \in Nat
      /\ Len(c.accepted) <= AncestryLimit /\ Len(c.bestAncestry) <= AncestryLimit
  BY KernelAssumption DEF CheckpointSound, CheckpointTypes, PartsBounded
<1>2. Independent => c.accepted = <<>> /\ c.bestAncestry = <<>>
  BY DEF CheckpointSound, PartsBounded
<1> QED
  BY <1>1, <1>2, NewestFacts DEF RestoredAncestry

(* A lane restored from a checkpoint, or forked from it.                   *)
LEMMA RestoredSound ==
    ASSUME NEW c, CheckpointSound(c), NEW forked \in BOOLEAN
    PROVE  KernelSound(Restored(c, forked))
<1> DEFINE q == <<c.scheme, c.graph>>
           t == RestoredTabu(c, forked)
           x == Restored(c, forked)
<1>1. c \in CheckpointTypes /\ q \in SearchKeys /\ c.tabu \in Seq(SearchKeys) /\ c.tenure \in Nat \ {0}
  BY DEF CheckpointSound, CheckpointTypes, SearchKeys
<1>2. c.tabu # <<>> /\ Len(c.tabu) <= c.tenure
  BY DEF CheckpointSound, PartsBounded
<1>3. t \in Seq(SearchKeys) /\ t # <<>> /\ Len(t) <= c.tenure
  <2>1. t = IF forked THEN <<q>> ELSE Newest(c.tabu, c.tenure)
    BY <1>2 DEF RestoredTabu
  <2> HIDE DEF t, q, SearchKeys
  <2>2. CASE forked
    <3>1. <<q>> \in Seq(SearchKeys) /\ <<q>> # <<>> /\ Len(<<q>>) = 1
      BY <1>1
    <3> QED
      BY <1>1, <2>1, <2>2, <3>1
  <2>3. CASE ~forked
    <3>1. c.tenure \in Nat /\ c.tenure > 0
      BY <1>1
    <3> QED
      BY <1>1, <1>2, <2>1, <2>3, <3>1, NewestFacts
  <2> QED
    BY <2>2, <2>3
<1> HIDE DEF t, q
<1>4. /\ x.score = c.score /\ x.best = c.best /\ x.curId = c.curId /\ x.prov = c.bestProv
      /\ x.accepted = c.accepted /\ x.bestAncestry = c.bestAncestry /\ x.tabu = t /\ x.tenure = c.tenure
  BY AncestryRestored DEF Restored, t
<1>5. x \in KernelTypes
  BY <1>1, <1>3, AncestryRestored DEF Restored, CheckpointTypes, KernelTypes, t, q
<1>6. c.curId \in Graphs
  BY <1>1 DEF CheckpointTypes
<1> HIDE DEF x
<1>7. PartsBounded(x)
  BY <1>3, <1>4 DEF CheckpointSound, PartsBounded
<1>8. PartsLinked(x) /\ RecordKept(x)
  BY <1>4 DEF CheckpointSound, PartsLinked, RecordKept
<1> QED
  BY <1>4, <1>5, <1>6, <1>7, <1>8 DEF CheckpointSound, KernelSound, x

(* restart_from_checkpoint.                                                *)
LEMMA RestartedSound ==
    ASSUME KernelSound(k), NEW c, CheckpointSound(c)
    PROVE  KernelSound(RestartedFrom(c))
<1> DEFINE q == <<"fast", c.graph>>
           t == <<q>>
           y == [k EXCEPT !.graph = c.graph, !.score = c.score, !.best = c.best, !.curId = c.curId,
                    !.bestId = c.bestId, !.prov = None, !.accepted = c.accepted,
                    !.bestAncestry = c.bestAncestry, !.evaluated = 0, !.scheme = "fast",
                    !.key = q, !.tabu = t]
<1>0. RestartedFrom(c) = y
  BY AncestryRestored DEF RestartedFrom
<1>1. k \in KernelTypes /\ c \in CheckpointTypes /\ q \in SearchKeys /\ c.curId \in Graphs
  BY DEF KernelSound, CheckpointSound, CheckpointTypes, SearchKeys
<1>2. t \in Seq(SearchKeys) /\ t # <<>> /\ Len(t) = 1
  <2> HIDE DEF q, SearchKeys
  <2> QED
    BY <1>1
<1> HIDE DEF q, t
<1>3. /\ c.graph \in Graphs /\ c.score \in Graphs /\ c.best \in Graphs /\ c.curId \in Graphs /\ c.bestId \in Graphs
      /\ c.accepted \in Seq(Records) /\ c.bestAncestry \in Seq(Records)
  BY <1>1 DEF CheckpointTypes
<1>4. y \in KernelTypes
  BY <1>1, <1>2, <1>3 DEF KernelTypes
<1>5. /\ y.score = c.score /\ y.best = c.best /\ y.curId = c.curId /\ y.prov = None
      /\ y.accepted = c.accepted /\ y.bestAncestry = c.bestAncestry /\ y.tabu = t /\ y.tenure = k.tenure
  BY <1>1 DEF KernelTypes
<1>6. k.tenure \in Nat \ {0}
  BY <1>1 DEF KernelTypes
<1> HIDE DEF y
<1>7. PartsBounded(y)
  <2>1. Len(t) <= k.tenure
    BY <1>2, <1>6
  <2> QED
    BY <1>2, <1>5, <2>1 DEF CheckpointSound, PartsBounded
<1>8. PartsLinked(y) /\ RecordKept(y)
  BY <1>5 DEF CheckpointSound, PartsLinked, RecordKept
<1> QED
  BY <1>0, <1>3, <1>4, <1>5, <1>7, <1>8 DEF KernelSound

-----------------------------------------------------------------------------
(* One evaluation.                                                         *)

(* A search key names its candidate.                                       *)
LEMMA SearchKeyType ==
    ASSUME NEW x \in KernelTypes, NEW g \in Graphs
    PROVE  SearchKey(x, g) \in SearchKeys
<1>1. x.key[1] \in {"fast", "legacy", "offset"}
  BY DEF KernelTypes, SearchKeys
<1>2. \A s \in {"fast", "legacy", "offset"} : <<s, g>> \in SearchKeys
  BY DEF SearchKeys
<1> QED
  BY <1>1, <1>2 DEF SearchKey

(* A candidate that is accepted.                                           *)
LEMMA AcceptedFields ==
    ASSUME NEW x, KernelSound(x), NEW g \in Graphs, NEW key \in SearchKeys
    PROVE  LET y == Accepted(x, g, key) IN
           /\ y \in KernelTypes /\ y.score = g /\ y.best = x.best /\ y.prov = x.prov
           /\ y.curId = IF Independent THEN None ELSE g
           /\ y.bestAncestry = x.bestAncestry
           /\ PartsBounded(y) /\ PartsLinked(y)
<1> DEFINE i == IF Independent THEN None ELSE g
           r == Record(x, g)
           a == IF Independent THEN x.accepted ELSE Newest(Append(x.accepted, r), AncestryLimit)
           t == IF algorithm = "tabu" THEN Newest(Append(x.tabu, key), x.tenure) ELSE x.tabu
           y == [x EXCEPT !.graph = g, !.score = g, !.key = key, !.curId = i, !.accepted = a, !.tabu = t]
<1>1. /\ x \in KernelTypes /\ x.accepted \in Seq(Records) /\ x.tabu \in Seq(SearchKeys)
      /\ x.tenure \in Nat /\ x.tenure > 0 /\ AncestryLimit \in Nat /\ x.curId \in Graphs \cup {None}
  BY KernelAssumption DEF KernelSound, KernelTypes
<1>2. Accepted(x, g, key) = y
  BY <1>1 DEF Accepted, KernelTypes
<1>3. i \in Graphs \cup {None}
  OBVIOUS
<1>4. a \in Seq(Records) /\ Len(a) <= AncestryLimit /\ (Independent => a = <<>>) /\ Chained(a, i)
  <2>1. CASE Independent
    <3>1. a = <<>>
      BY <2>1 DEF KernelSound, PartsBounded
    <3> HIDE DEF a
    <3>2. a \in Seq(Records) /\ Chained(a, i) /\ Len(a) = 0
      BY <3>1, EmptyChained
    <3> QED
      BY <1>1, <3>1, <3>2
  <2>2. CASE ~Independent
    <3>1. r \in Records /\ r.parent = x.curId /\ r.id = g
      BY <1>1 DEF Record, Records
    <3>2. Chained(x.accepted, x.curId)
      BY DEF KernelSound, PartsLinked
    <3> HIDE DEF r, Records
    <3>3. Append(x.accepted, r) \in Seq(Records) /\ Chained(Append(x.accepted, r), g)
      BY <1>1, <3>1, <3>2, AppendChained
    <3> QED
      BY <1>1, <2>2, <3>3, NewestFacts, NewestChained
  <2> QED
    BY <2>1, <2>2
<1>5. t \in Seq(SearchKeys) /\ t # <<>> /\ Len(t) <= x.tenure
  <2>1. x.tabu # <<>> /\ Len(x.tabu) <= x.tenure
    BY DEF KernelSound, PartsBounded
  <2> HIDE DEF SearchKeys
  <2>2. CASE algorithm = "tabu"
    <3>1. Append(x.tabu, key) \in Seq(SearchKeys) /\ Append(x.tabu, key) # <<>>
      BY <1>1
    <3> QED
      BY <1>1, <2>2, <3>1, NewestFacts, ZenonT(30)
  <2>3. CASE algorithm # "tabu"
    BY <1>1, <2>1, <2>3
  <2> QED
    BY <2>2, <2>3
<1> HIDE DEF i, a, t
<1>6. y \in KernelTypes
  BY <1>1, <1>3, <1>4, <1>5 DEF KernelTypes
<1>7. /\ y.score = g /\ y.best = x.best /\ y.prov = x.prov /\ y.curId = i /\ y.accepted = a
      /\ y.bestAncestry = x.bestAncestry /\ y.tabu = t /\ y.tenure = x.tenure
  BY <1>1 DEF KernelTypes
<1> HIDE DEF y
<1>8. PartsBounded(y)
  BY <1>4, <1>5, <1>7 DEF KernelSound, PartsBounded
<1>9. PartsLinked(y)
  BY <1>4, <1>7 DEF KernelSound, PartsLinked
<1> QED
  BY <1>2, <1>6, <1>7, <1>8, <1>9 DEF i

(* A record, accepted or not.                                              *)
LEMMA RecordedSound ==
    ASSUME NEW x, KernelSound(x), NEW g \in Graphs, NEW key \in SearchKeys, NEW accept \in BOOLEAN,
           IsRecord(x, g), NEW y, y = IF accept THEN Accepted(x, g, key) ELSE x
    PROVE  KernelSound(Recorded(x, y, g, accept))
<1> DEFINE p == IF Independent THEN g ELSE y.prov
           i == IF Independent /\ accept THEN g ELSE y.curId
           a == IF Independent THEN y.bestAncestry ELSE RecordAncestry(x, g, accept)
           z == [y EXCEPT !.best = g, !.bestId = g, !.prov = p, !.curId = i, !.bestAncestry = a]
<1>1. /\ y \in KernelTypes /\ y.score \in {x.score, g} /\ PartsBounded(y) /\ PartsLinked(y)
      /\ y.curId \in Graphs \cup {None} /\ (~Independent => y.curId \in Graphs)
      /\ y.prov \in Graphs \cup {None}
  <2>1. CASE accept
    BY <2>1, AcceptedFields DEF KernelTypes
  <2>2. CASE ~accept
    BY <2>2 DEF KernelSound, KernelTypes
  <2> QED
    BY <2>1, <2>2
<1>2. Recorded(x, y, g, accept) = z
  BY <1>1 DEF Recorded, KernelTypes
<1>3. p \in Graphs \cup {None} /\ i \in Graphs \cup {None} /\ (~Independent => i = y.curId)
  BY <1>1
<1>4. a \in Seq(Records) /\ Len(a) <= AncestryLimit /\ (Independent => a = <<>>) /\ Chained(a, g)
  <2>0. AncestryLimit \in Nat /\ AncestryLimit - 1 \in Nat
    BY KernelAssumption
  <2>1. CASE Independent
    <3>1. a = <<>>
      BY <1>1, <2>1 DEF PartsBounded
    <3> HIDE DEF a
    <3>2. a \in Seq(Records) /\ Chained(a, g) /\ Len(a) = 0
      BY <3>1, EmptyChained
    <3> QED
      BY <2>0, <3>1, <3>2
  <2>2. CASE ~Independent
    <3> DEFINE r == Record(x, g)
               o == Newest(x.accepted, AncestryLimit - 1)
    <3>1. r \in Records /\ r.parent = x.curId /\ r.id = g
      BY <2>2 DEF Record, Records, KernelSound, KernelTypes
    <3>2. x.accepted \in Seq(Records) /\ Chained(x.accepted, x.curId)
      BY DEF KernelSound, KernelTypes, PartsLinked
    <3>3. a = IF accept THEN Newest(Append(x.accepted, r), AncestryLimit) ELSE Append(o, r)
      BY <2>2 DEF RecordAncestry
    <3> HIDE DEF r, a, Records
    <3>4. CASE accept
      <4>1. Append(x.accepted, r) \in Seq(Records) /\ Chained(Append(x.accepted, r), g)
        BY <3>1, <3>2, AppendChained
      <4> QED
        BY <2>0, <2>2, <3>3, <3>4, <4>1, NewestFacts, NewestChained
    <3>5. CASE ~accept
      <4>1. /\ o \in Seq(Records) /\ Len(o) \in Nat /\ Len(o) <= AncestryLimit - 1
            /\ Chained(o, x.curId)
        BY <2>0, <3>2, NewestFacts, NewestChained
      <4> HIDE DEF o
      <4>2. Append(o, r) \in Seq(Records) /\ Chained(Append(o, r), g) /\ Len(Append(o, r)) = Len(o) + 1
        BY <3>1, <4>1, AppendChained
      <4>3. Len(Append(o, r)) <= AncestryLimit
        BY <2>0, <4>1, <4>2
      <4> QED
        BY <2>2, <3>3, <3>5, <4>2, <4>3
    <3> QED
      BY <3>4, <3>5
  <2> QED
    BY <2>1, <2>2
<1>5. (Independent => p = g) /\ (~Independent => i \in Graphs)
  BY <1>1
<1> HIDE DEF p, i, a
<1>6. z \in KernelTypes
  BY <1>1, <1>3, <1>4 DEF KernelTypes
<1>7. /\ z.score = y.score /\ z.best = g /\ z.prov = p /\ z.curId = i /\ z.accepted = y.accepted
      /\ z.bestAncestry = a /\ z.tabu = y.tabu /\ z.tenure = y.tenure
  BY <1>1 DEF KernelTypes
<1> HIDE DEF z
<1>8. PartsBounded(z)
  BY <1>1, <1>4, <1>7 DEF PartsBounded
<1>9. PartsLinked(z)
  <2>1. CASE Independent
    <3>1. z.accepted = <<>>
      BY <1>1, <1>7, <2>1 DEF PartsBounded
    <3> QED
      BY <1>4, <1>7, <3>1, EmptyChained DEF PartsLinked
  <2>2. CASE ~Independent
    BY <1>1, <1>3, <1>4, <1>7, <2>2 DEF PartsLinked
  <2> QED
    BY <2>1, <2>2
<1>10. RecordKept(z)
  <2>1. ~Better(g, g) /\ ~Better(x.score, g)
    <3>1. x.score \in Graphs /\ x.best \in Graphs /\ ~Better(x.score, x.best) /\ Better(g, x.best)
      BY DEF KernelSound, KernelTypes, RecordKept, IsRecord
    <3>2. Less(OrderingKey(g), OrderingKey(x.best)) /\ ~Less(OrderingKey(x.score), OrderingKey(x.best))
      BY <3>1 DEF Better
    <3>3. Less(OrderingKey(g), OrderingKey(x.score))
      BY <3>1, <3>2, KeyTypes, LessOrder
    <3> QED
      BY <3>1, <3>3, KeyTypes, LessOrder DEF Better
  <2> QED
    BY <1>1, <1>7, <2>1 DEF RecordKept
<1> QED
  BY <1>2, <1>5, <1>6, <1>7, <1>8, <1>9, <1>10 DEF KernelSound

(* A candidate that is no record.                                          *)
LEMMA MovedSound ==
    ASSUME NEW x, KernelSound(x), NEW g \in Graphs, NEW key \in SearchKeys, ~IsRecord(x, g)
    PROVE  KernelSound(Accepted(x, g, key))
<1> DEFINE y == Accepted(x, g, key)
<1>1. /\ y \in KernelTypes /\ y.score = g /\ y.best = x.best /\ y.prov = x.prov
      /\ y.curId = IF Independent THEN None ELSE g
      /\ PartsBounded(y) /\ PartsLinked(y)
  BY AcceptedFields
<1> HIDE DEF y
<1>2. RecordKept(y)
  BY <1>1 DEF RecordKept, IsRecord
<1> QED
  BY <1>1, <1>2 DEF KernelSound, y

(* run_batch's loop body.                                                  *)
LEMMA EvaluatedSound ==
    ASSUME NEW x, KernelSound(x), NEW g \in Graphs, NEW accept \in BOOLEAN
    PROVE  KernelSound(Evaluated(x, g, accept))
<1> DEFINE c == [x EXCEPT !.evaluated = @ + 1]
           key == SearchKey(c, g)
           moved == IF accept THEN Accepted(c, g, key) ELSE c
<1>0. 0 \in Int
  OBVIOUS
<1>1. KernelSound(c)
  BY <1>0, CountersSound
<1>2. key \in SearchKeys
  BY <1>1, SearchKeyType DEF KernelSound
<1>3. \/ Evaluated(x, g, accept) = c
      \/ IsRecord(c, g) /\ Evaluated(x, g, accept) = Recorded(c, moved, g, accept)
      \/ ~IsRecord(c, g) /\ Evaluated(x, g, accept) = moved
  BY DEF Evaluated
<1> HIDE DEF c, key
<1>4. IsRecord(c, g) => KernelSound(Recorded(c, moved, g, accept))
  BY <1>1, <1>2, RecordedSound
<1>5. ~IsRecord(c, g) => KernelSound(moved)
  BY <1>1, <1>2, MovedSound
<1> HIDE DEF moved
<1> QED
  BY <1>1, <1>3, <1>4, <1>5

-----------------------------------------------------------------------------
(* The invariant.                                                          *)
IInv == KernelSound(k) /\ CheckpointSound(ckpt) /\ ver \in Nat /\ batch \in Nat

(* A step to a sound kernel and a sound checkpoint, for one algorithm.     *)
LEMMA StepInv ==
    ASSUME algorithm' = algorithm, KernelSound(k'), CheckpointSound(ckpt'), ver' \in Nat, batch' \in Nat
    PROVE  IInv'
<1>1. Independent' = Independent
  BY DEF Independent
<1>2. KernelSound(k)'
  BY <1>1 DEF KernelSound, PartsBounded, PartsLinked, RecordKept
<1>3. CheckpointSound(ckpt)'
  BY <1>1 DEF CheckpointSound, PartsBounded, PartsLinked, RecordKept
<1> QED
  BY <1>2, <1>3 DEF IInv

(* A lane begins from a seed, in either key scheme.                        *)
LEMMA FreshSound ==
    ASSUME NEW s \in Graphs, NEW t \in Nat \ {0}
    PROVE  KernelSound(Fresh(s, t))
<1> DEFINE q == <<"fast", s>>
           e == <<>>
           x == [graph |-> s, score |-> s, best |-> s, curId |-> s, bestId |-> s, prov |-> None,
                 accepted |-> e, bestAncestry |-> e, evaluated |-> 0, scheme |-> "fast",
                 key |-> q, tabu |-> e, high |-> 0, tenure |-> t]
<1>1. q \in SearchKeys
  BY DEF SearchKeys
<1>2. e \in Seq(Records) /\ e \in Seq(SearchKeys)
  OBVIOUS
<1> HIDE DEF q, e
<1>3. x \in KernelTypes
  BY <1>1, <1>2 DEF KernelTypes
<1>4. Fresh(s, t) = NewSeed(x, s)
  BY DEF Fresh, q, e
<1> QED
  BY <1>3, <1>4, SeedSound

(* The first state.                                                        *)
LEMMA InitInv ==
    ASSUME Init
    PROVE  IInv
<1>1. PICK s \in Graphs, t \in Tenures, scheme \in {"fast", "legacy"} :
        k = [Fresh(s, t) EXCEPT !.scheme = scheme, !.key = <<scheme, s>>, !.tabu = << <<scheme, s>> >>]
  BY DEF Init
<1> DEFINE q == <<scheme, s>>
           u == <<q>>
           x == Fresh(s, t)
<1>2. t \in Nat \ {0} /\ KernelSound(x)
  BY KernelAssumption, FreshSound
<1>3. q \in SearchKeys
  BY DEF SearchKeys
<1>4. u \in Seq(SearchKeys) /\ u # <<>> /\ Len(u) = 1
  <2> HIDE DEF q, SearchKeys
  <2> QED
    BY <1>3
<1> HIDE DEF q, u, x
<1>5. k = [x EXCEPT !.scheme = scheme, !.key = q, !.tabu = u] /\ x \in KernelTypes
  BY <1>1, <1>2 DEF q, u, x, KernelSound
<1>6. k \in KernelTypes
  BY <1>3, <1>4, <1>5 DEF KernelTypes
<1>7. /\ k.score = x.score /\ k.best = x.best /\ k.curId = x.curId /\ k.prov = x.prov
      /\ k.accepted = x.accepted /\ k.bestAncestry = x.bestAncestry /\ k.tabu = u /\ k.tenure = x.tenure
  BY <1>5 DEF KernelTypes
<1>8. x.tenure \in Nat \ {0}
  BY <1>5 DEF KernelTypes
<1>9. PartsBounded(k)
  <2>1. Len(u) <= x.tenure
    BY <1>4, <1>8
  <2> QED
    BY <1>2, <1>4, <1>7, <2>1 DEF KernelSound, PartsBounded
<1>10. PartsLinked(k) /\ RecordKept(k)
  BY <1>2, <1>7 DEF KernelSound, PartsLinked, RecordKept
<1>11. KernelSound(k)
  BY <1>2, <1>6, <1>7, <1>9, <1>10 DEF KernelSound
<1>12. CheckpointSound(ckpt)
  BY <1>11, CheckpointOfSound DEF Init
<1> QED
  BY <1>11, <1>12 DEF IInv, Init

(* The end of a batch.                                                     *)
LEMMA EndInv ==
    ASSUME IInv, NEW x, KernelSound(x), EndsWith(x), algorithm' = algorithm, ver' = ver
    PROVE  IInv'
<1> DEFINE h == x.high + BatchCandidates - batch + 1
           y == [x EXCEPT !.high = h]
<1>1. x \in KernelTypes /\ x.high \in Int /\ BatchCandidates \in Nat /\ batch \in Nat
  BY KernelAssumption DEF IInv, KernelSound, KernelTypes
<1>2. h \in Int
  BY <1>1
<1>3. [x EXCEPT !.high = @ + BatchCandidates - batch + 1] = y
  BY <1>1 DEF KernelTypes
<1>4. k' = y /\ ckpt' = Checkpoint(y, ver) /\ batch' = 0
  BY <1>3 DEF EndsWith
<1> HIDE DEF h
<1>5. KernelSound(y)
  BY <1>2, CountersSound
<1> HIDE DEF y
<1>6. CheckpointSound(ckpt') /\ KernelSound(k')
  BY <1>4, <1>5, CheckpointOfSound DEF IInv
<1> QED
  BY <1>4, <1>6, StepInv DEF IInv

(* One evaluation.                                                         *)
LEMMA EvaluateInv ==
    ASSUME IInv, NEW s \in Graphs, NEW g \in Graphs, NEW accept \in BOOLEAN, Evaluate(s, g, accept)
    PROVE  IInv'
<1> DEFINE start == IF RestartDue THEN NewSeed(k, s) ELSE k
           x == Evaluated(start, g, accept)
<1>1. KernelSound(start)
  BY SeedSound DEF IInv, KernelSound
<1>2. KernelSound(x)
  <2> HIDE DEF start
  <2> QED
    BY <1>1, EvaluatedSound
<1>3. /\ algorithm' = algorithm /\ ver' = ver /\ batch > 0
      /\ IF batch = 1 THEN EndsWith(x) ELSE k' = x /\ batch' = batch - 1 /\ ckpt' = ckpt
  BY DEF Evaluate
<1> HIDE DEF x
<1>4. CASE batch = 1
  BY <1>2, <1>3, <1>4, EndInv
<1>5. CASE batch # 1
  <2>1. batch' \in Nat
    BY <1>3, <1>5 DEF IInv
  <2> QED
    BY <1>2, <1>3, <1>5, <2>1, StepInv DEF IInv
<1> QED
  BY <1>4, <1>5

(* A command that is applied.                                              *)
LEMMA AppliedInv ==
    ASSUME IInv, NEW x, KernelSound(x), Applied(x)
    PROVE  IInv'
<1>1. /\ k' = x /\ ver' = ver + 1 /\ ckpt' = Checkpoint(x, ver + 1) /\ UNCHANGED <<algorithm, batch>>
      /\ ver \in Nat /\ batch \in Nat
  BY DEF Applied, IInv
<1>2. ver + 1 \in Nat
  BY <1>1
<1>3. CheckpointSound(ckpt')
  BY <1>1, <1>2, CheckpointOfSound
<1> QED
  BY <1>1, <1>2, <1>3, StepInv

(* Every step keeps the invariant.                                         *)
LEMMA NextInv ==
    ASSUME IInv, [Next]_vars
    PROVE  IInv'
<1>1. ASSUME UNCHANGED <<algorithm, k, ckpt, ver>>, batch' \in Nat PROVE IInv'
  BY <1>1, StepInv DEF IInv
<1>2. CASE BeginBatch \/ BatchRaises \/ UNCHANGED vars
  <2>1. UNCHANGED <<algorithm, k, ckpt, ver>> /\ batch' \in Nat
    BY <1>2, KernelAssumption DEF BeginBatch, BatchRaises, vars, IInv
  <2> QED
    BY <1>1, <2>1
<1>3. CASE \E s, g \in Graphs, accept \in BOOLEAN : Evaluate(s, g, accept)
  BY <1>3, EvaluateInv
<1>4. CASE Stop
  <2>1. CASE batch = 0
    BY <1>1, <1>4, <2>1 DEF Stop, IInv
  <2>2. CASE batch # 0
    <3> DEFINE h == k.high - 1
               y == [k EXCEPT !.high = h]
    <3>1. k \in KernelTypes /\ h \in Int
      BY DEF IInv, KernelSound, KernelTypes
    <3>2. y = [k EXCEPT !.high = @ - 1]
      OBVIOUS
    <3>3. EndsWith(y) /\ algorithm' = algorithm /\ ver' = ver
      BY <1>4, <2>2, <3>2 DEF Stop
    <3> HIDE DEF h
    <3>4. KernelSound(y)
      BY <3>1, CountersSound DEF IInv
    <3> HIDE DEF y
    <3> QED
      BY <3>3, <3>4, EndInv
  <2> QED
    BY <2>1, <2>2
<1>5. CASE \E t \in Tenures : CommandPatch(t)
  <2>1. PICK t \in Tenures : CommandPatch(t)
    BY <1>5
  <2> DEFINE x == [k EXCEPT !.tenure = t, !.tabu = Newest(@, t)]
  <2>2. t \in Nat \ {0} /\ Applied(x)
    BY <2>1, KernelAssumption DEF CommandPatch
  <2>3. KernelSound(x)
    BY <2>2, PatchedSound DEF IInv
  <2> HIDE DEF x
  <2> QED
    BY <2>2, <2>3, AppliedInv
<1>6. CASE \E s \in Graphs : CommandRestart(s)
  BY <1>6, SeedSound, AppliedInv DEF CommandRestart, IInv, KernelSound
<1>7. CASE \E c \in Checkpoints : CommandRestartFrom(c)
  <2>1. PICK c \in Checkpoints : CommandRestartFrom(c)
    BY <1>7
  <2>2. CheckpointSound(c)
    <3>1. k.tenure \in Nat \ {0}
      BY DEF IInv, KernelSound, KernelTypes
    <3>2. \A g \in Graphs : CheckpointSound(Checkpoint(Fresh(g, k.tenure), 0))
      BY <3>1, FreshSound, CheckpointOfSound
    <3> QED
      BY <2>1, <3>2 DEF Checkpoints, IInv
  <2> QED
    BY <2>1, <2>2, RestartedSound, AppliedInv DEF CommandRestartFrom, IInv
<1>8. CASE \E s \in Graphs \cup {None} : CommandRestartRaises(s)
  <2>1. PICK s \in Graphs \cup {None} : CommandRestartRaises(s)
    BY <1>8
  <2>2. k' = SeedRaised(s) /\ UNCHANGED <<algorithm, batch, ckpt, ver>>
    BY <2>1 DEF CommandRestartRaises
  <2>3. KernelSound(k')
    BY <2>2, RaisedSound DEF IInv
  <2> QED
    BY <2>2, <2>3, StepInv DEF IInv
<1>9. CASE \E forked \in BOOLEAN : Restore(forked)
  <2>1. PICK forked \in BOOLEAN : Restore(forked)
    BY <1>9
  <2>2. /\ k' = Restored(ckpt, forked) /\ ver' = (IF forked THEN 0 ELSE ckpt.lane_version)
        /\ ckpt' = Checkpoint(k', ver') /\ batch' = 0 /\ algorithm' = algorithm
    BY <2>1 DEF Restore
  <2>3. ver' \in Nat
    BY <2>2 DEF IInv, CheckpointSound, CheckpointTypes
  <2>4. KernelSound(k')
    BY <2>2, RestoredSound DEF IInv
  <2>5. CheckpointSound(ckpt')
    BY <2>2, <2>3, <2>4, CheckpointOfSound
  <2> QED
    BY <2>2, <2>3, <2>4, <2>5, StepInv
<1> QED
  BY <1>2, <1>3, <1>4, <1>5, <1>6, <1>7, <1>8, <1>9 DEF Next

-----------------------------------------------------------------------------
(* The theorems.                                                           *)

(* In every state of a lane its kernel and its last checkpoint are sound:  *)
(* bounded lists within their bounds, unbroken ancestries, and a record no *)
(* worse than the current score.                                           *)
THEOREM Invariant == Spec => []IInv
<1>1. Init => IInv
  BY InitInv
<1>2. IInv /\ [Next]_vars => IInv'
  BY NextInv
<1> QED
  BY <1>1, <1>2, PTL DEF Spec

(* A candidate that is given up on early, in a sound kernel.               *)
LEMMA EarlyRejectedIsRejected ==
    ASSUME NEW x, KernelSound(x), NEW g \in Graphs, NEW key, EarlyRejected(x, g, key)
    PROVE  ~IsRecord(x, g) /\ TRUE \notin Acceptances(x, g, key)
<1>1. x.score \in Graphs /\ x.best \in Graphs /\ ~Better(x.score, x.best)
  BY DEF KernelSound, KernelTypes, RecordKept
<1>2. algorithm = "tabu" /\ ~Perturbs(x)
  BY DEF EarlyRejected
<1>3. Acceptances(x, g, key) = {key \notin Elements(x.tabu) /\ ~Better(x.score, g)}
  BY <1>2 DEF Acceptances, Independent
<1>4. CASE key \in Elements(x.tabu)
  <2>1. Dominated(g, OrderingKey(x.best), TRUE)
    BY <1>4 DEF EarlyRejected, Cutoff
  <2>2. Better(x.best, g) \/ ~Better(g, x.best)
    BY <1>1, <2>1, DominatedIsWorse
  <2>3. ~Better(g, x.best)
    BY <1>1, <2>2, KeyTypes, LessOrder DEF Better
  <2> QED
    BY <1>3, <1>4, <2>3 DEF IsRecord
<1>5. CASE key \notin Elements(x.tabu)
  <2>1. Dominated(g, OrderingKey(x.score), FALSE)
    BY <1>5 DEF EarlyRejected, Cutoff
  <2>2. Better(x.score, g)
    BY <1>1, <2>1, DominatedIsWorse
  <2>3. ~Better(g, x.best)
    <3>1. Less(OrderingKey(x.score), OrderingKey(g)) /\ ~Less(OrderingKey(x.score), OrderingKey(x.best))
      BY <1>1, <2>2 DEF Better
    <3>2. /\ OrderingKey(x.score) \in Triples /\ OrderingKey(g) \in Triples /\ OrderingKey(x.best) \in Triples
      BY <1>1, KeyTypes
    <3>3. Less(OrderingKey(x.best), OrderingKey(g))
      BY <3>1, <3>2, LessOrder
    <3> QED
      BY <3>2, <3>3, LessOrder DEF Better
  <2> QED
    BY <1>3, <2>2, <2>3 DEF IsRecord
<1> QED
  BY <1>4, <1>5

(* Giving up on a score as soon as the penalties of the longest cycles     *)
(* reach the cutoff changes no decision of the search: the candidate would *)
(* have been neither accepted nor a record (_score_cutoff, serve).  It     *)
(* rests on the partial penalties being part of the score, on the          *)
(* lexicographic order, and on the record being no worse than the current  *)
(* score.                                                                  *)
THEOREM CutoffIsSound == Spec => []CutoffSound
<1>1. ASSUME IInv PROVE CutoffSound
  <2>1. ASSUME NEW g \in Graphs,
               EarlyRejected([k EXCEPT !.evaluated = @ + 1], g, SearchKey([k EXCEPT !.evaluated = @ + 1], g))
        PROVE  /\ ~IsRecord([k EXCEPT !.evaluated = @ + 1], g)
               /\ TRUE \notin Acceptances([k EXCEPT !.evaluated = @ + 1], g,
                                          SearchKey([k EXCEPT !.evaluated = @ + 1], g))
    <3> DEFINE x == [k EXCEPT !.evaluated = @ + 1]
    <3>0. 0 \in Int
      OBVIOUS
    <3>1. KernelSound(x)
      BY <1>1, <3>0, CountersSound DEF IInv
    <3> HIDE DEF x
    <3>2. EarlyRejected(x, g, SearchKey(x, g))
      BY <2>1 DEF x
    <3>3. ~IsRecord(x, g) /\ TRUE \notin Acceptances(x, g, SearchKey(x, g))
      BY <3>1, <3>2, EarlyRejectedIsRejected
    <3> QED
      BY <3>3 DEF x
  <2> QED
    BY <2>1 DEF CutoffSound
<1> QED
  BY <1>1, Invariant, PTL

(* The bounded ancestries of a lane are unbroken and lead to its current   *)
(* and its best candidate, through records that were not accepted,         *)
(* restarts, forks and restores (run_batch, checkpoint,                    *)
(* restart_from_checkpoint).                                               *)
THEOREM AncestryUnbroken == Spec => []AncestryLinked
<1>1. IInv => AncestryLinked
  BY DEF IInv, KernelSound, PartsLinked, AncestryLinked
<1> QED
  BY <1>1, Invariant, PTL

(* A lane restored from the checkpoint of a coherent kernel goes on from   *)
(* the same search state, whatever commands came before (checkpoint,       *)
(* _LaneKernel.__init__).                                                  *)
THEOREM ResumesExactly == Spec => []ResumeExact
<1>1. ASSUME IInv, Coherent PROVE SearchState(Restored(Checkpoint(k, ver), FALSE)) = SearchState(k)
  <2> DEFINE c == Checkpoint(k, ver)
             x == Restored(c, FALSE)
  <2>1. CheckpointSound(c)
    BY <1>1, CheckpointOfSound DEF IInv
  <2>2. /\ c.graph = k.graph /\ c.score = k.score /\ c.best = k.best /\ c.evaluated = k.evaluated
        /\ c.tabu = k.tabu /\ c.scheme = k.scheme /\ c.high = k.high /\ c.tenure = k.tenure
        /\ c.accepted = k.accepted /\ c.bestAncestry = k.bestAncestry
    BY DEF Checkpoint
  <2> HIDE DEF c
  <2>3. RestoredTabu(c, FALSE) = k.tabu
    <3>1. k.tabu \in Seq(SearchKeys) /\ k.tabu # <<>> /\ Len(k.tabu) <= k.tenure /\ k.tenure \in Nat
      BY <1>1 DEF IInv, KernelSound, KernelTypes, PartsBounded
    <3>2. Newest(k.tabu, k.tenure) = k.tabu
      <4> HIDE DEF SearchKeys
      <4> QED
        BY <3>1, NewestFacts
    <3> QED
      BY <2>2, <3>1, <3>2 DEF RestoredTabu
  <2>4. RestoredAncestry(c.accepted) = k.accepted /\ RestoredAncestry(c.bestAncestry) = k.bestAncestry
    BY <2>1, <2>2, AncestryRestored
  <2>5. k.key = <<k.scheme, k.graph>>
    BY <1>1 DEF Coherent
  <2>6. /\ x.graph = k.graph /\ x.score = k.score /\ x.best = k.best /\ x.key = k.key
        /\ x.scheme = k.scheme /\ x.tabu = k.tabu /\ x.evaluated = k.evaluated /\ x.high = k.high
        /\ x.accepted = k.accepted /\ x.bestAncestry = k.bestAncestry
    BY <2>2, <2>3, <2>4, <2>5 DEF Restored
  <2> HIDE DEF x
  <2>7. SearchState(x) = SearchState(k)
    BY <2>6 DEF SearchState
  <2> QED
    BY <2>7 DEF x, c
<1>2. IInv => ResumeExact
  BY <1>1 DEF ResumeExact
<1> QED
  BY <1>2, Invariant, PTL
=============================================================================
