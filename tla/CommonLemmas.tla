----------------------------- MODULE CommonLemmas ------------------------------
(* Facts about sequences used as queues, and about the sum of a function.      *)
EXTENDS Integers, Sequences, Functions, SequenceTheorems, FiniteSetTheorems,
        WellFoundedInduction, TLAPS

(* The elements and the length of a queue after adding and removing.           *)
LEMMA QueueTypes ==
  ASSUME NEW S, NEW q \in Seq(S)
  PROVE  /\ \A x \in S : Append(q, x) \in Seq(S) /\ Len(Append(q, x)) = Len(q) + 1
         /\ q # <<>> => /\ Head(q) \in S
                       /\ Tail(q) \in Seq(S)
                       /\ Len(Tail(q)) = Len(q) - 1
         /\ Len(q) \in Nat
         /\ \A i \in DOMAIN q : q[i] \in S
  OBVIOUS

LEMMA EmptyQueue == \A S : <<>> \in Seq(S) /\ Len(<<>>) = 0
  OBVIOUS

(* Adding one at the end.                                                      *)
LEMMA AppendRange ==
  ASSUME NEW S, NEW q \in Seq(S), NEW x \in S
  PROVE  /\ Range(Append(q, x)) = Range(q) \cup {x}
         /\ x \notin Range(q) /\ IsInjective(q) => IsInjective(Append(q, x))
<1>1. /\ DOMAIN q = 1 .. Len(q)
      /\ DOMAIN Append(q, x) = 1 .. Len(q) + 1
      /\ \A i \in 1 .. Len(q) : Append(q, x)[i] = q[i]
      /\ Append(q, x)[Len(q) + 1] = x
      /\ Len(q) \in Nat
  BY AppendProperties, LenProperties
<1>2. QED
  BY <1>1 DEF Range, IsInjective

(* Taking the head of a queue without repetitions.                             *)
LEMMA TailDropsHead ==
  ASSUME NEW S, NEW q \in Seq(S), q # <<>>, IsInjective(q)
  PROVE  /\ Head(q) \in Range(q)
         /\ Range(Tail(q)) = Range(q) \ {Head(q)}
         /\ IsInjective(Tail(q))
<1>1. /\ Len(q) \in Nat \ {0}
      /\ DOMAIN q = 1 .. Len(q)
      /\ Head(q) = q[1]
      /\ Tail(q) \in Seq(S)
      /\ Len(Tail(q)) = Len(q) - 1
      /\ \A i \in 1 .. Len(Tail(q)) : Tail(q)[i] = q[i + 1]
  BY HeadTailProperties, EmptySeq, LenProperties
<1>2. DOMAIN Tail(q) = 1 .. Len(q) - 1
  BY <1>1, LenProperties
<1>3. Head(q) \in Range(q)
  BY <1>1 DEF Range
<1>4. ASSUME NEW i \in 1 .. Len(q), i # 1
      PROVE  i - 1 \in 1 .. Len(q) - 1 /\ Tail(q)[i - 1] = q[i]
  BY <1>1, <1>4
<1>5. Range(Tail(q)) = Range(q) \ {Head(q)}
  <2>1. Range(Tail(q)) \subseteq Range(q) \ {Head(q)}
    BY <1>1, <1>2 DEF Range, IsInjective
  <2>2. Range(q) \ {Head(q)} \subseteq Range(Tail(q))
    <3>1. SUFFICES ASSUME NEW i \in 1 .. Len(q), q[i] # q[1]
                   PROVE  q[i] \in Range(Tail(q))
      BY <1>1 DEF Range
    <3>2. i # 1
      BY <3>1
    <3>3. QED
      BY <1>2, <1>4, <3>2 DEF Range
  <2>3. QED
    BY <2>1, <2>2
<1>6. IsInjective(Tail(q))
  BY <1>1, <1>2 DEF IsInjective
<1>7. QED
  BY <1>3, <1>5, <1>6

(* Taking the head leaves the other elements, and perhaps the same ones again. *)
LEMMA HeadAndTail ==
  ASSUME NEW S, NEW q \in Seq(S), q # <<>>
  PROVE  Range(q) = {Head(q)} \cup Range(Tail(q))
<1>1. /\ Len(q) \in Nat \ {0}
      /\ DOMAIN q = 1 .. Len(q)
      /\ Head(q) = q[1]
      /\ Tail(q) \in Seq(S)
      /\ Len(Tail(q)) = Len(q) - 1
      /\ \A i \in 1 .. Len(Tail(q)) : Tail(q)[i] = q[i + 1]
  BY HeadTailProperties, EmptySeq, LenProperties
<1>2. DOMAIN Tail(q) = 1 .. Len(q) - 1
  BY <1>1, LenProperties
<1>3. Range(Tail(q)) \subseteq Range(q)
  BY <1>1, <1>2 DEF Range
<1>4. Head(q) \in Range(q)
  BY <1>1 DEF Range
<1>5. ASSUME NEW i \in 1 .. Len(q), i # 1
      PROVE  q[i] \in Range(Tail(q))
  <2>1. i - 1 \in 1 .. Len(q) - 1 /\ Tail(q)[i - 1] = q[i]
    BY <1>1, <1>5
  <2>2. QED
    BY <1>2, <2>1 DEF Range
<1>6. QED
  BY <1>1, <1>3, <1>4, <1>5 DEF Range

(* A queue whose head is kept apart.                                           *)
LEMMA HeadApart ==
  ASSUME NEW S, NEW q \in Seq(S), NEW x \in S
  PROVE  /\ <<x>> \o q \in Seq(S)
         /\ <<x>> \o q # <<>>
         /\ Head(<<x>> \o q) = x
         /\ Tail(<<x>> \o q) = q
         /\ \A y \in S : Append(<<x>> \o q, y) = <<x>> \o Append(q, y)
         /\ \A i \in DOMAIN (<<x>> \o q) : (<<x>> \o q)[i] \in {x} \cup Range(q)
         /\ q # <<>> => q = <<Head(q)>> \o Tail(q)
<1>1. /\ <<x>> \o q \in Seq(S)
      /\ <<x>> \o q # <<>>
      /\ Head(<<x>> \o q) = x
  OBVIOUS
<1>2. Tail(<<x>> \o q) = q
  OBVIOUS
<1>3. \A y \in S : Append(<<x>> \o q, y) = <<x>> \o Append(q, y)
  OBVIOUS
<1>4. \A i \in DOMAIN (<<x>> \o q) : (<<x>> \o q)[i] \in {x} \cup Range(q)
  BY DEF Range
<1>5. q # <<>> => q = <<Head(q)>> \o Tail(q)
  OBVIOUS
<1>6. QED
  BY <1>1, <1>2, <1>3, <1>4, <1>5

(* A piece of a sequence.                                                      *)
LEMMA Piece ==
  ASSUME NEW S, NEW s \in Seq(S), NEW m \in 1 .. Len(s) + 1, NEW n \in m - 1 .. Len(s)
  PROVE  /\ SubSeq(s, m, n) \in Seq(S)
         /\ Len(SubSeq(s, m, n)) = n - m + 1
         /\ DOMAIN SubSeq(s, m, n) = 1 .. n - m + 1
         /\ \A i \in 1 .. n - m + 1 : SubSeq(s, m, n)[i] = s[m + i - 1]
<1>1. Len(s) \in Nat /\ m \in Int /\ n \in Int
  BY LenProperties
<1>2. \A i \in m .. n : s[i] \in S
  BY <1>1, ElementOfSeq
<1>3. /\ SubSeq(s, m, n) \in Seq(S)
      /\ Len(SubSeq(s, m, n)) = IF m <= n THEN n - m + 1 ELSE 0
      /\ \A i \in 1 .. n - m + 1 : SubSeq(s, m, n)[i] = s[m + i - 1]
  BY <1>1, <1>2, SubSeqProperties
<1>4. Len(SubSeq(s, m, n)) = n - m + 1
  BY <1>1, <1>3
<1>5. QED
  BY <1>3, <1>4, LenProperties

(* One sequence after another.                                                 *)
LEMMA Joined ==
  ASSUME NEW S, NEW s \in Seq(S), NEW t \in Seq(S)
  PROVE  /\ s \o t \in Seq(S)
         /\ Len(s \o t) = Len(s) + Len(t)
         /\ DOMAIN (s \o t) = 1 .. Len(s) + Len(t)
         /\ \A i \in 1 .. Len(s) : (s \o t)[i] = s[i]
         /\ \A i \in 1 .. Len(t) : (s \o t)[Len(s) + i] = t[i]
         /\ Len(s) \in Nat /\ Len(t) \in Nat
<1>1. /\ s \o t \in Seq(S)
      /\ Len(s \o t) = Len(s) + Len(t)
      /\ \A i \in 1 .. Len(s) + Len(t) :
           (s \o t)[i] = IF i <= Len(s) THEN s[i] ELSE t[i - Len(s)]
      /\ Len(s) \in Nat /\ Len(t) \in Nat
  BY ConcatProperties, LenProperties
<1>2. DOMAIN (s \o t) = 1 .. Len(s) + Len(t)
  BY <1>1, LenProperties
<1>3. \A i \in 1 .. Len(s) : i \in 1 .. Len(s) + Len(t) /\ i <= Len(s)
  BY <1>1
<1>4. \A i \in 1 .. Len(t) :
        /\ Len(s) + i \in 1 .. Len(s) + Len(t)
        /\ ~(Len(s) + i <= Len(s))
        /\ Len(s) + i - Len(s) = i
  BY <1>1
<1>5. QED
  BY <1>1, <1>2, <1>3, <1>4

(* A sequence between two elements.                                            *)
LEMMA Framed ==
  ASSUME NEW S, NEW s \in Seq(S), NEW a \in S, NEW b \in S
  PROVE  /\ <<a>> \o s \o <<b>> \in Seq(S)
         /\ Len(<<a>> \o s \o <<b>>) = Len(s) + 2
         /\ (<<a>> \o s \o <<b>>)[1] = a
         /\ \A k \in 1 .. Len(s) : (<<a>> \o s \o <<b>>)[1 + k] = s[k]
         /\ (<<a>> \o s \o <<b>>)[Len(s) + 2] = b
         /\ Len(s) \in Nat
<1>1. ASSUME NEW h \in Seq(S), NEW e \in Seq(S), Len(h) = 1, Len(e) = 1
      PROVE  /\ h \o s \o e \in Seq(S)
             /\ Len(h \o s \o e) = Len(s) + 2
             /\ (h \o s \o e)[1] = h[1]
             /\ \A k \in 1 .. Len(s) : (h \o s \o e)[1 + k] = s[k]
             /\ (h \o s \o e)[Len(s) + 2] = e[1]
             /\ Len(s) \in Nat
  <2>1. /\ h \o s \in Seq(S) /\ Len(s) \in Nat
        /\ Len(h \o s) = Len(h) + Len(s)
        /\ \A k \in 1 .. Len(h) : (h \o s)[k] = h[k]
        /\ \A k \in 1 .. Len(s) : (h \o s)[Len(h) + k] = s[k]
    BY Joined
  <2>2. ASSUME NEW r \in Seq(S), Len(r) = 1 + Len(s)
        PROVE  /\ r \o e \in Seq(S)
               /\ Len(r \o e) = Len(s) + 2
               /\ \A k \in 1 .. 1 + Len(s) : (r \o e)[k] = r[k]
               /\ (r \o e)[Len(s) + 2] = e[1]
    <3>1. /\ r \o e \in Seq(S)
          /\ Len(r \o e) = Len(r) + Len(e)
          /\ \A k \in 1 .. Len(r) : (r \o e)[k] = r[k]
          /\ \A k \in 1 .. Len(e) : (r \o e)[Len(r) + k] = e[k]
      BY Joined
    <3>2. 1 \in 1 .. Len(e) /\ Len(r) + 1 = Len(s) + 2 /\ Len(r) + Len(e) = Len(s) + 2
      BY <1>1, <2>1, <2>2
    <3>3. QED
      BY <2>2, <3>1, <3>2
  <2>3. Len(h \o s) = 1 + Len(s)
    BY <1>1, <2>1
  <2>4. /\ h \o s \o e \in Seq(S)
        /\ Len(h \o s \o e) = Len(s) + 2
        /\ \A k \in 1 .. 1 + Len(s) : (h \o s \o e)[k] = (h \o s)[k]
        /\ (h \o s \o e)[Len(s) + 2] = e[1]
    BY <2>1, <2>2, <2>3
  <2>5. 1 \in 1 .. Len(h) /\ 1 \in 1 .. 1 + Len(s)
    BY <1>1, <2>1
  <2>6. \A k \in 1 .. Len(s) : 1 + k \in 1 .. 1 + Len(s) /\ Len(h) + k = 1 + k
    BY <1>1, <2>1
  <2>7. (h \o s \o e)[1] = h[1]
    BY <2>1, <2>4, <2>5
  <2>8. \A k \in 1 .. Len(s) : (h \o s \o e)[1 + k] = s[k]
    BY <2>1, <2>4, <2>6
  <2>9. QED
    BY <2>1, <2>4, <2>7, <2>8
<1>2. <<a>> \in Seq(S) /\ <<b>> \in Seq(S) /\ Len(<<a>>) = 1 /\ Len(<<b>>) = 1
      /\ <<a>>[1] = a /\ <<b>>[1] = b
  OBVIOUS
<1>3. QED
  BY <1>1, <1>2

(* A sequence cut in two after its first n elements.                           *)
LEMMA CutInTwo ==
  ASSUME NEW S, NEW s \in Seq(S), NEW n \in 0 .. Len(s)
  PROVE  /\ SubSeq(s, 1, n) \in Seq(S) /\ Len(SubSeq(s, 1, n)) = n
         /\ DOMAIN SubSeq(s, 1, n) = 1 .. n
         /\ \A k \in 1 .. n : SubSeq(s, 1, n)[k] = s[k]
         /\ SubSeq(s, n + 1, Len(s)) \in Seq(S) /\ Len(SubSeq(s, n + 1, Len(s))) = Len(s) - n
         /\ DOMAIN SubSeq(s, n + 1, Len(s)) = 1 .. Len(s) - n
         /\ \A k \in 1 .. Len(s) - n : SubSeq(s, n + 1, Len(s))[k] = s[n + k]
<1>1. Len(s) \in Nat /\ n \in Nat
  BY LenProperties
<1>2. /\ SubSeq(s, 1, n) \in Seq(S) /\ Len(SubSeq(s, 1, n)) = n - 1 + 1
      /\ DOMAIN SubSeq(s, 1, n) = 1 .. n - 1 + 1
      /\ \A k \in 1 .. n - 1 + 1 : SubSeq(s, 1, n)[k] = s[1 + k - 1]
  <2>1. 1 \in 1 .. Len(s) + 1 /\ n \in 1 - 1 .. Len(s)
    BY <1>1
  <2>2. QED
    BY <2>1, Piece
<1>3. /\ SubSeq(s, n + 1, Len(s)) \in Seq(S)
      /\ Len(SubSeq(s, n + 1, Len(s))) = Len(s) - (n + 1) + 1
      /\ DOMAIN SubSeq(s, n + 1, Len(s)) = 1 .. Len(s) - (n + 1) + 1
      /\ \A k \in 1 .. Len(s) - (n + 1) + 1 : SubSeq(s, n + 1, Len(s))[k] = s[n + 1 + k - 1]
  <2>1. n + 1 \in 1 .. Len(s) + 1 /\ Len(s) \in n + 1 - 1 .. Len(s)
    BY <1>1
  <2>2. QED
    BY <2>1, Piece
<1>4. n - 1 + 1 = n /\ Len(s) - (n + 1) + 1 = Len(s) - n
  BY <1>1
<1>5. /\ \A k \in 1 .. n : 1 + k - 1 = k
      /\ \A k \in 1 .. Len(s) - n : n + 1 + k - 1 = n + k
  BY <1>1
<1>6. QED
  BY <1>2, <1>3, <1>4, <1>5

-------------------------------------------------------------------------------
(* The sum of a function over a finite set, SumFunction of the community       *)
(* modules, by induction: a set that is least among the counterexamples.       *)

Some(s) == CHOOSE x \in s : TRUE

(* g is the function behind the sum of f over the subsets of S.                *)
Sums(g, f, S) ==
  g = [s \in SUBSET S |-> IF s = {} THEN 0 ELSE f[Some(s)] + g[s \ {Some(s)}]]

(* The element that the fold takes first, and what it leaves.                   *)
LEMMA SomeLess ==
  ASSUME NEW S, NEW s \in SUBSET S, s # {}
  PROVE  Some(s) \in s /\ s \ {Some(s)} \in SUBSET S /\ s \ {Some(s)} # s
BY DEF Some

(* Induction over the subsets of a finite set.                                 *)
LEMMA LeastSubset ==
  ASSUME NEW S, IsFiniteSet(S), NEW T \in SUBSET (SUBSET S), T # {}
  PROVE  \E s \in T : \A t \in T : t \subseteq s => t = s
<1>1. IsWellFoundedOn(StrictSubsetOrdering(S), SUBSET S)
  BY FS_StrictSubsetOrderingWellFounded, FS_FiniteSubsetsOfFinite
<1>2. \E s \in T : \A t \in T : <<t, s>> \notin StrictSubsetOrdering(S)
  BY <1>1, WFMin
<1>3. \A s, t \in SUBSET S : t \subseteq s /\ t # s => <<t, s>> \in StrictSubsetOrdering(S)
  BY DEF StrictSubsetOrdering
<1>4. QED
  BY <1>2, <1>3

(* One step of such a function.                                                *)
LEMMA SumsAt ==
  ASSUME NEW g, NEW f, NEW S, Sums(g, f, S), NEW s \in SUBSET S
  PROVE  g[s] = IF s = {} THEN 0 ELSE f[Some(s)] + g[s \ {Some(s)}]
BY DEF Sums

(* Two of them agree where both are defined.                                   *)
LEMMA SumsAgree ==
  ASSUME NEW f, NEW S, IsFiniteSet(S), NEW A \in SUBSET S, NEW B \in SUBSET S,
         NEW g, NEW h, Sums(g, f, A), Sums(h, f, B),
         NEW s \in SUBSET S, s \subseteq A, s \subseteq B
  PROVE  g[s] = h[s]
<1> DEFINE Bad == {t \in SUBSET S : t \subseteq A /\ t \subseteq B /\ g[t] # h[t]}
<1>1. SUFFICES ASSUME Bad # {} PROVE FALSE
  OBVIOUS
<1>2. PICK t \in Bad : \A u \in Bad : u \subseteq t => u = t
  <2>1. Bad \in SUBSET (SUBSET S)
    OBVIOUS
  <2> HIDE DEF Bad
  <2>2. QED
    BY <1>1, <2>1, LeastSubset
<1>3. t \in SUBSET A /\ t \in SUBSET B /\ g[t] # h[t]
  OBVIOUS
<1>4. t # {}
  BY <1>3, SumsAt
<1>5. t \ {Some(t)} \in SUBSET S /\ t \ {Some(t)} # t /\ t \ {Some(t)} \notin Bad
  BY <1>2, <1>4, SomeLess
<1>6. g[t \ {Some(t)}] = h[t \ {Some(t)}]
  BY <1>3, <1>5
<1>7. g[t] = f[Some(t)] + g[t \ {Some(t)}] /\ h[t] = f[Some(t)] + h[t \ {Some(t)}]
  BY <1>3, <1>4, SumsAt
<1>8. QED
  BY <1>3, <1>6, <1>7

(* There is one: below a least set without one there would be.                 *)
LEMMA SumsExist ==
  ASSUME NEW f, NEW S, IsFiniteSet(S)
  PROVE  \E g : Sums(g, f, S)
<1> DEFINE Bad == {s \in SUBSET S : ~ \E g : Sums(g, f, s)}
           G(s) == CHOOSE g : Sums(g, f, s)
<1>1. SUFFICES ASSUME Bad # {} PROVE FALSE
  OBVIOUS
<1>2. PICK s \in Bad : \A u \in Bad : u \subseteq s => u = s
  <2>1. Bad \in SUBSET (SUBSET S)
    OBVIOUS
  <2> HIDE DEF Bad
  <2>2. QED
    BY <1>1, <2>1, LeastSubset
<1>3. \A u \in SUBSET s : u # s => Sums(G(u), f, u)
  <2>1. ASSUME NEW u \in SUBSET s, u # s PROVE \E g : Sums(g, f, u)
    BY <1>2, <2>1
  <2>2. QED
    BY <2>1
<1> DEFINE h == [t \in SUBSET s |->
                   IF t = {} THEN 0 ELSE f[Some(t)] + G(t \ {Some(t)})[t \ {Some(t)}]]
<1> HIDE DEF G
<1>4. ASSUME NEW t \in SUBSET s, t # {}
      PROVE  h[t \ {Some(t)}] = G(t \ {Some(t)})[t \ {Some(t)}]
  <2> DEFINE u == t \ {Some(t)}
  <2>1. u \in SUBSET s /\ u # s /\ u \in SUBSET S
    BY <1>4, SomeLess
  <2>2. Sums(G(u), f, u)
    BY <1>3, <2>1
  <2>3. G(u)[u] = IF u = {} THEN 0 ELSE f[Some(u)] + G(u)[u \ {Some(u)}]
    <3> HIDE DEF u
    <3>1. QED
      BY <2>2, SumsAt
  <2>4. CASE u = {}
    BY <2>1, <2>3, <2>4
  <2>5. CASE u # {}
    <3> DEFINE v == u \ {Some(u)}
    <3>1. v \in SUBSET u /\ v \in SUBSET S /\ v \in SUBSET s /\ v # s
      BY <2>1, <2>5, SomeLess
    <3>2. Sums(G(v), f, v)
      BY <1>3, <3>1
    <3>3. G(v)[v] = G(u)[v]
      <4> DEFINE gu == G(u)
                 gv == G(v)
      <4>1. Sums(gu, f, u) /\ Sums(gv, f, v)
        BY <2>2, <3>2
      <4>2. u \in SUBSET S /\ v \in SUBSET S /\ v \subseteq u
        BY <2>1, <3>1
      <4> HIDE DEF u, v, gu, gv
      <4>3. ASSUME NEW a, NEW b, Sums(a, f, v), Sums(b, f, u)
            PROVE  a[v] = b[v]
        BY <4>2, <4>3, SumsAgree
      <4>4. QED
        BY <4>1, <4>3 DEF gu, gv
    <3>4. h[u] = f[Some(u)] + G(v)[v]
      BY <2>1, <2>5
    <3>5. QED
      BY <2>3, <2>5, <3>3, <3>4
  <2>6. QED
    BY <2>4, <2>5
<1>5. \A t \in SUBSET s :
        h[t] = IF t = {} THEN 0 ELSE f[Some(t)] + h[t \ {Some(t)}]
  BY <1>4
<1>6. Sums(h, f, s)
  <2>1. h = [t \in SUBSET s |-> h[t]]
    OBVIOUS
  <2> HIDE DEF h
  <2>2. QED
    BY <1>5, <2>1 DEF Sums
<1>7. QED
  BY <1>2, <1>6

(* SumFunction is the value of such a function.                                *)
LEMMA SumIsSums ==
  ASSUME NEW f, IsFiniteSet(DOMAIN f)
  PROVE  \E g : Sums(g, f, DOMAIN f) /\ SumFunction(f) = g[DOMAIN f]
<1> DEFINE D == DOMAIN f
           iter == CHOOSE g : g = [s \in SUBSET D |->
                     IF s = {} THEN 0 ELSE f[CHOOSE x \in s : TRUE] + g[s \ {CHOOSE x \in s : TRUE}]]
<1>1. SumFunction(f) = iter[D]
  BY DEF SumFunction, SumFunctionOnSet, FoldFunctionOnSet, MapThenFoldSet
<1>2. \E g : Sums(g, f, D)
  BY SumsExist
<1>3. iter = CHOOSE g : Sums(g, f, D)
  BY DEF Sums, Some
<1>4. Sums(iter, f, D)
  BY <1>2, <1>3
<1>5. QED
  BY <1>1, <1>4

(* If one number of a sum grows by at most d and no other grows, the sum grows *)
(* by at most d.                                                               *)
LEMMA SumGrows ==
  ASSUME NEW S, IsFiniteSet(S), NEW f \in [S -> Int], NEW g \in [S -> Int],
         NEW k \in S, NEW d \in Int,
         \A x \in S : g[x] <= f[x] + (IF x = k THEN d ELSE 0)
  PROVE  /\ SumFunction(f) \in Int /\ SumFunction(g) \in Int
         /\ SumFunction(g) <= SumFunction(f) + d
<1>1. PICK F : Sums(F, f, S) /\ SumFunction(f) = F[S]
  BY SumIsSums
<1>2. PICK G : Sums(G, g, S) /\ SumFunction(g) = G[S]
  BY SumIsSums
<1> DEFINE Fine(s) == F[s] \in Int /\ G[s] \in Int /\ G[s] <= F[s] + (IF k \in s THEN d ELSE 0)
           Bad     == {s \in SUBSET S : ~Fine(s)}
<1>3. SUFFICES ASSUME Bad # {} PROVE FALSE
  BY <1>1, <1>2
<1>4. PICK s \in Bad : \A u \in Bad : u \subseteq s => u = s
  <2>1. Bad \in SUBSET (SUBSET S)
    OBVIOUS
  <2> HIDE DEF Bad
  <2>2. QED
    BY <1>3, <2>1, LeastSubset
<1>5. s \in SUBSET S
  OBVIOUS
<1>6. CASE s = {}
  <2>1. F[s] = 0 /\ G[s] = 0
    <3> HIDE DEF Bad
    <3>1. QED
      BY <1>1, <1>2, <1>5, <1>6, SumsAt
  <2>2. QED
    BY <1>4, <1>6, <2>1
<1>7. CASE s # {}
  <2> DEFINE x == Some(s)
             r == s \ {x}
  <2>1. x \in s /\ x \in S /\ r \in SUBSET S /\ r # s
    BY <1>5, <1>7, SomeLess
  <2>2. Fine(r)
    BY <1>4, <2>1
  <2>3. F[s] = f[x] + F[r] /\ G[s] = g[x] + G[r]
    <3> HIDE DEF Bad
    <3>1. F[s] = f[Some(s)] + F[s \ {Some(s)}]
      BY <1>1, <1>5, <1>7, SumsAt
    <3>2. G[s] = g[Some(s)] + G[s \ {Some(s)}]
      BY <1>2, <1>5, <1>7, SumsAt
    <3>3. QED
      BY <3>1, <3>2
  <2>4. f[x] \in Int /\ g[x] \in Int /\ g[x] <= f[x] + (IF x = k THEN d ELSE 0)
    BY <2>1
  <2>5. k \in r <=> k \in s /\ k # x
    OBVIOUS
  <2> HIDE DEF x, r
  <2>6. Fine(s)
    BY <2>1, <2>2, <2>3, <2>4, <2>5
  <2>7. QED
    BY <1>4, <2>6
<1>8. QED
  BY <1>6, <1>7

(* A sum of nothing but zeros.                                                 *)
LEMMA SumOfZeros ==
  ASSUME NEW S, IsFiniteSet(S), NEW f \in [S -> {0}]
  PROVE  SumFunction(f) = 0
<1>1. PICK F : Sums(F, f, S) /\ SumFunction(f) = F[S]
  BY SumIsSums
<1> DEFINE Bad == {s \in SUBSET S : F[s] # 0}
<1>2. SUFFICES ASSUME Bad # {} PROVE FALSE
  BY <1>1
<1>3. PICK s \in Bad : \A u \in Bad : u \subseteq s => u = s
  <2>1. Bad \in SUBSET (SUBSET S)
    OBVIOUS
  <2> HIDE DEF Bad
  <2>2. QED
    BY <1>2, <2>1, LeastSubset
<1>4. s \in SUBSET S /\ s # {}
  BY <1>1, <1>3, SumsAt
<1>5. Some(s) \in S /\ F[s \ {Some(s)}] = 0
  BY <1>3, <1>4, SomeLess
<1>6. F[s] = 0
  BY <1>1, <1>4, <1>5, SumsAt
<1>7. QED
  BY <1>3, <1>6

(* No number of a sum is more than the sum, if none is below zero.             *)
LEMMA SumIsMore ==
  ASSUME NEW S, IsFiniteSet(S), NEW f \in [S -> Nat], NEW k \in S
  PROVE  SumFunction(f) \in Int /\ f[k] <= SumFunction(f)
<1> DEFINE zeros == [x \in S |-> 0]
           d     == 0 - f[k]
<1>1. zeros \in [S -> {0}] /\ zeros \in [S -> Int] /\ f \in [S -> Int] /\ d \in Int
  OBVIOUS
<1>2. \A x \in S : zeros[x] <= f[x] + (IF x = k THEN d ELSE 0)
  OBVIOUS
<1>3. SumFunction(zeros) = 0
  <2> HIDE DEF zeros
  <2>1. QED
    BY <1>1, SumOfZeros
<1> HIDE DEF zeros, d
<1>4. SumFunction(f) \in Int /\ SumFunction(zeros) <= SumFunction(f) + d
  BY <1>1, <1>2, SumGrows
<1>5. QED
  BY <1>3, <1>4 DEF d
===============================================================================
