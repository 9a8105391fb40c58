----------------------------- MODULE FatShellProofs -----------------------------
(*******************************************************************************)
(* Proofs about FatShell, for any image whose directories are all in the root  *)
(* and whose chains end with the mark that is_end_of_chain looks for.          *)
(*******************************************************************************)
EXTENDS FatShell, FiniteSetTheorems, SequenceTheorems, WellFoundedInduction, TLAPS

(* Directories in the root only, chains that end with 0xFFFF, a root whose     *)
(* sector is not the number of a directory's first cluster.                    *)
PlainImage == ~Nested /\ LastMark = EndOfChain /\ RootSector \notin Items

-------------------------------------------------------------------------------
(* Chains and clusters.                                                        *)

LEMMA ChainTypes ==
  ASSUME NEW d \in Items
  PROVE  /\ Len(Chain[d]) \in Nat \ {0}
         /\ DOMAIN Chain[d] = 1 .. Len(Chain[d])
         /\ \A k \in 1 .. Len(Chain[d]) : Chain[d][k] \in 2 .. Marker - 1
         /\ Chain[d][1] = d
         /\ IsInjective(Chain[d])
<1>1. Chain[d] \in Seq(2 .. Marker - 1) /\ Chain[d] # <<>>
  BY ImageAssumption
<1>2. Chain[d][1] = d /\ IsInjective(Chain[d])
  BY ImageAssumption
<1>3. Len(Chain[d]) \in Nat \ {0}
  BY <1>1, EmptySeq
<1>4. DOMAIN Chain[d] = 1 .. Len(Chain[d])
  BY <1>1, LenProperties
<1>5. \A k \in 1 .. Len(Chain[d]) : Chain[d][k] \in 2 .. Marker - 1
  BY <1>1, ElementOfSeq
<1>6. QED
  BY <1>2, <1>3, <1>4, <1>5

(* A cluster belongs to one item and has one place in its chain.               *)
LEMMA ClusterInChain ==
  ASSUME NEW d \in Items, NEW k \in 1 .. Len(Chain[d])
  PROVE  /\ Chain[d][k] \in Clusters
         /\ Owner(Chain[d][k]) = d
         /\ Place(Chain[d][k]) = k
<1>1. Chain[d][k] \in ToSet(Chain[d])
  BY ChainTypes DEF ToSet
<1>2. Chain[d][k] \in Clusters
  BY <1>1 DEF Clusters
<1>3. \A e \in Items : Chain[d][k] \in ToSet(Chain[e]) => e = d
  BY <1>1, ImageAssumption
<1>4. Owner(Chain[d][k]) = d
  BY <1>1, <1>3 DEF Owner
<1>5. \A j \in DOMAIN Chain[d] : Chain[d][j] = Chain[d][k] => j = k
  BY ChainTypes DEF IsInjective
<1>6. k \in DOMAIN Chain[d]
  BY ChainTypes
<1>7. Place(Chain[d][k]) = k
  BY <1>4, <1>5, <1>6 DEF Place
<1>8. QED
  BY <1>2, <1>4, <1>7

LEMMA ClusterIsPlaced ==
  ASSUME NEW d \in Items, NEW c \in ToSet(Chain[d])
  PROVE  /\ Place(c) \in 1 .. Len(Chain[d])
         /\ Chain[d][Place(c)] = c
         /\ Owner(c) = d
         /\ c \in Clusters
<1>1. PICK k \in 1 .. Len(Chain[d]) : c = Chain[d][k]
  BY ChainTypes DEF ToSet
<1>2. QED
  BY <1>1, ClusterInChain

(* No mark that ends a chain is the number of a cluster.                       *)
LEMMA MarkersAreNoClusters ==
  ASSUME NEW c \in 2 .. Marker - 1
  PROVE  ~(c >= Marker) /\ ~is_end_of_chain(c)
<1>1. c \in Int /\ 2 <= c /\ c <= 65527
  BY DEF Marker
<1>2. ~(c >= 65528) /\ ~(c >= 65535)
  BY <1>1
<1>3. QED
  BY <1>2 DEF Marker, EndOfChain, is_end_of_chain

(* Clusters and marks are told apart by their numbers, the root by 0.          *)
LEMMA ClusterNumbers ==
  /\ \A c \in Clusters : c \in 2 .. Marker - 1 /\ c # Root /\ ~is_end_of_chain(c)
  /\ Items \subseteq Clusters
  /\ is_end_of_chain(EndOfChain) /\ ~is_end_of_chain(Root)
  /\ EndOfChain \notin Clusters \cup {Root} \cup Items
  /\ Root \notin Items
<1>1. ASSUME NEW c \in Clusters
      PROVE  c \in 2 .. Marker - 1
  <2>1. PICK d \in Items : c \in ToSet(Chain[d])
    BY DEF Clusters
  <2>2. QED
    BY <2>1, ClusterIsPlaced, ChainTypes
<1>2. ASSUME NEW d \in Items
      PROVE  d \in Clusters
  <2>1. 1 \in 1 .. Len(Chain[d]) /\ Chain[d][1] = d
    BY ChainTypes
  <2>2. QED
    BY <2>1, ClusterInChain
<1>3. ASSUME NEW c \in Clusters
      PROVE  c # Root /\ ~is_end_of_chain(c)
  <2>1. c \in Int /\ 2 <= c /\ c <= 65527
    <3>1. c \in 2 .. Marker - 1
      BY <1>1, <1>3
    <3>2. QED
      BY <3>1 DEF Marker
  <2>2. c # 0 /\ ~(c >= 65535)
    BY <2>1
  <2>3. QED
    BY <2>2 DEF Root, is_end_of_chain, EndOfChain
<1>4. /\ is_end_of_chain(EndOfChain) /\ ~is_end_of_chain(Root)
      /\ EndOfChain # Root
  BY DEF EndOfChain, Root, is_end_of_chain
<1>5. QED
  BY <1>1, <1>2, <1>3, <1>4

(* Following the table from one cluster of a chain to the next.                *)
LEMMA FatFollowsChain ==
  ASSUME NEW d \in Items, NEW k \in 1 .. Len(Chain[d])
  PROVE  NextOf(Chain[d][k]) =
           {IF k < Len(Chain[d]) THEN Chain[d][k + 1] ELSE LastMark}
BY ClusterInChain DEF NextOf, Fat

-------------------------------------------------------------------------------
(* Beginnings of sequences.                                                    *)

LEMMA BeforeGrows ==
  ASSUME NEW S, NEW s \in Seq(S), NEW n \in Nat
  PROVE  /\ Before(s, 0) = <<>>
         /\ n >= Len(s) => Before(s, n) = s
         /\ n < Len(s) => Before(s, n + 1) = Append(Before(s, n), s[n + 1])
<1>1. Len(s) \in Nat /\ DOMAIN s = 1 .. Len(s)
  BY LenProperties
<1>2. ASSUME NEW m \in 0 .. Len(s)
      PROVE  /\ SubSeq(s, 1, m) \in Seq(S)
             /\ Len(SubSeq(s, 1, m)) = m
             /\ \A i \in 1 .. m : SubSeq(s, 1, m)[i] = s[i]
  <2>1. \A i \in 1 .. m : s[i] \in S
    BY <1>1, ElementOfSeq
  <2>2. /\ SubSeq(s, 1, m) \in Seq(S)
        /\ Len(SubSeq(s, 1, m)) = IF 1 <= m THEN m - 1 + 1 ELSE 0
        /\ \A i \in 1 .. m - 1 + 1 : SubSeq(s, 1, m)[i] = s[1 + i - 1]
    BY <1>1, <2>1, SubSeqProperties
  <2>3. QED
    BY <1>1, <2>2
<1>3. Before(s, 0) = <<>>
  BY <1>1, <1>2, EmptySeq DEF Before
<1>4. SubSeq(s, 1, Len(s)) = s
  BY <1>1, <1>2, SeqEqual
<1>5. n >= Len(s) => Before(s, n) = s
  <2>1. ASSUME n >= Len(s)
        PROVE  Before(s, n) = SubSeq(s, 1, Len(s))
    <3>1. ~(n < Len(s))
      BY <1>1, <2>1
    <3>2. QED
      BY <3>1 DEF Before
  <2>2. QED
    BY <1>4, <2>1
<1>6. ASSUME n < Len(s)
      PROVE  Before(s, n + 1) = Append(Before(s, n), s[n + 1])
  <2>1. Before(s, n) = SubSeq(s, 1, n)
    BY <1>1, <1>6 DEF Before
  <2>2. Before(s, n + 1) = SubSeq(s, 1, n + 1)
    BY <1>1, <1>4, <1>6 DEF Before
  <2>3. n \in 0 .. Len(s) /\ n + 1 \in 0 .. Len(s) /\ s[n + 1] \in S
    BY <1>1, <1>6, ElementOfSeq
  <2>4. /\ Append(SubSeq(s, 1, n), s[n + 1]) \in Seq(S)
        /\ Len(Append(SubSeq(s, 1, n), s[n + 1])) = n + 1
        /\ \A i \in 1 .. n : Append(SubSeq(s, 1, n), s[n + 1])[i] = s[i]
        /\ Append(SubSeq(s, 1, n), s[n + 1])[n + 1] = s[n + 1]
    BY <1>2, <2>3, AppendProperties
  <2>5. \A i \in 1 .. n + 1 : SubSeq(s, 1, n + 1)[i] = Append(SubSeq(s, 1, n), s[n + 1])[i]
    BY <1>2, <2>3, <2>4
  <2>6. SubSeq(s, 1, n + 1) = Append(SubSeq(s, 1, n), s[n + 1])
    BY <1>2, <2>3, <2>4, <2>5, SeqEqual
  <2>7. QED
    BY <2>1, <2>2, <2>6
<1>7. QED
  BY <1>3, <1>5, <1>6

LEMMA BeforeIs ==
  ASSUME NEW S, NEW s \in Seq(S), NEW n \in 0 .. Len(s)
  PROVE  /\ Before(s, n) \in Seq(S) /\ Len(Before(s, n)) = n
         /\ \A i \in 1 .. n : Before(s, n)[i] = s[i]
<1>1. Len(s) \in Nat /\ Before(s, n) = SubSeq(s, 1, n)
  BY LenProperties DEF Before
<1>2. \A i \in 1 .. n : s[i] \in S
  BY <1>1, ElementOfSeq
<1>3. /\ SubSeq(s, 1, n) \in Seq(S)
      /\ Len(SubSeq(s, 1, n)) = IF 1 <= n THEN n - 1 + 1 ELSE 0
      /\ \A i \in 1 .. n - 1 + 1 : SubSeq(s, 1, n)[i] = s[1 + i - 1]
  BY <1>1, <1>2, SubSeqProperties
<1>4. QED
  BY <1>1, <1>3

(* Induction over the numbers.                                                 *)
LEMMA LeastNumber ==
  ASSUME NEW T \in SUBSET Nat, T # {}
  PROVE  \E n \in T : \A m \in T : n <= m
<1>1. \E n \in T : \A m \in T : ~ (<<m, n>> \in OpToRel(<, Nat))
  BY WFMin, NatLessThanWellFounded
<1>2. \A m, n \in Nat : m < n => <<m, n>> \in OpToRel(<, Nat)
  BY DEF OpToRel
<1>3. \A m, n \in Nat : ~(m < n) => n <= m
  OBVIOUS
<1>4. QED
  BY <1>1, <1>2, <1>3

(* f is the function behind FlattenSeq, for the first n of the sequences.      *)
Joins(f, s, n) ==
  f = [i \in 1 .. n |-> IF i = 1 THEN s[i] ELSE f[i - 1] \o s[i]]

LEMMA JoinsAt ==
  ASSUME NEW f, NEW s, NEW n, Joins(f, s, n), NEW i \in 1 .. n
  PROVE  f[i] = IF i = 1 THEN s[i] ELSE f[i - 1] \o s[i]
BY DEF Joins

LEMMA JoinsAgree ==
  ASSUME NEW s, NEW n \in Nat, NEW m \in Nat, m <= n,
         NEW f, NEW g, Joins(f, s, m), Joins(g, s, n), NEW i \in 1 .. m
  PROVE  f[i] = g[i]
<1> DEFINE Bad == {j \in 1 .. m : f[j] # g[j]}
<1>1. SUFFICES ASSUME Bad # {} PROVE FALSE
  OBVIOUS
<1>2. PICK j \in Bad : \A k \in Bad : j <= k
  <2>1. Bad \in SUBSET Nat
    OBVIOUS
  <2> HIDE DEF Bad
  <2>2. QED
    BY <1>1, <2>1, LeastNumber
<1>3. j \in 1 .. m /\ j \in 1 .. n /\ f[j] # g[j]
  OBVIOUS
<1>4. j # 1
  BY <1>3, JoinsAt
<1>5. j - 1 \in 1 .. m /\ ~(j <= j - 1)
  BY <1>3, <1>4
<1>6. f[j - 1] = g[j - 1]
  BY <1>2, <1>5
<1>7. f[j] = f[j - 1] \o s[j] /\ g[j] = g[j - 1] \o s[j]
  <2> HIDE DEF Bad
  <2>1. f[j] = IF j = 1 THEN s[j] ELSE f[j - 1] \o s[j]
    BY <1>3, JoinsAt
  <2>2. g[j] = IF j = 1 THEN s[j] ELSE g[j - 1] \o s[j]
    BY <1>3, JoinsAt
  <2>3. QED
    BY <1>4, <2>1, <2>2
<1>8. QED
  BY <1>3, <1>6, <1>7

LEMMA JoinsExist ==
  ASSUME NEW s, NEW n \in Nat
  PROVE  \E f : Joins(f, s, n)
<1> DEFINE Bad == {j \in Nat : ~ \E f : Joins(f, s, j)}
<1>1. SUFFICES ASSUME Bad # {} PROVE FALSE
  OBVIOUS
<1>2. PICK j \in Bad : \A k \in Bad : j <= k
  <2>1. Bad \in SUBSET Nat
    OBVIOUS
  <2> HIDE DEF Bad
  <2>2. QED
    BY <1>1, <2>1, LeastNumber
<1>3. j # 0
  <2>1. Joins([i \in 1 .. 0 |-> s], s, 0)
    <3>1. 1 .. 0 = {}
      OBVIOUS
    <3>2. QED
      BY <3>1 DEF Joins
  <2>2. QED
    BY <1>2, <2>1
<1>4. j - 1 \in Nat /\ ~(j <= j - 1)
  BY <1>2, <1>3
<1>5. PICK f : Joins(f, s, j - 1)
  BY <1>2, <1>4
<1> DEFINE g == [i \in 1 .. j |-> IF i = 1 THEN s[i] ELSE f[i - 1] \o s[i]]
<1>6. \A i \in 1 .. j - 1 : g[i] = f[i]
  BY <1>4, <1>5, JoinsAt
<1>7. \A i \in 1 .. j : i # 1 => i - 1 \in 1 .. j - 1
  BY <1>2, <1>3
<1>8. \A i \in 1 .. j : g[i] = IF i = 1 THEN s[i] ELSE g[i - 1] \o s[i]
  BY <1>6, <1>7
<1>9. Joins(g, s, j)
  <2>1. g = [i \in 1 .. j |-> g[i]]
    OBVIOUS
  <2> HIDE DEF g
  <2>2. QED
    BY <1>8, <2>1 DEF Joins
<1>10. QED
  BY <1>2, <1>9

(* What FlattenSeq makes of the first n sequences.                             *)
LEMMA FlattenIsJoins ==
  ASSUME NEW S, NEW s \in Seq(Seq(S)), NEW n \in 1 .. Len(s),
         NEW f, Joins(f, s, Len(s))
  PROVE  FlattenSeq(Before(s, n)) = f[n]
<1> DEFINE p == Before(s, n)
           h == CHOOSE g : g = [i \in 1 .. Len(p) |-> IF i = 1 THEN p[i] ELSE g[i - 1] \o p[i]]
<1>1. /\ Len(p) = n /\ \A i \in 1 .. n : p[i] = s[i]
  BY BeforeIs, LenProperties
<1>2. FlattenSeq(p) = h[n]
  BY <1>1 DEF FlattenSeq
<1>3. h = CHOOSE g : Joins(g, p, n)
  BY <1>1 DEF Joins
<1>4. Joins(h, p, n)
  <2>1. n \in Nat
    BY LenProperties
  <2> HIDE DEF p
  <2>2. \E g : Joins(g, p, n)
    BY <2>1, JoinsExist
  <2>3. QED
    BY <1>3, <2>2
<1> HIDE DEF h, p
<1>5. Joins(h, s, n)
  BY <1>1, <1>4 DEF Joins
<1>6. n \in Nat /\ Len(s) \in Nat /\ n <= Len(s) /\ n \in 1 .. n
  BY LenProperties
<1>7. h[n] = f[n]
  BY <1>5, <1>6, JoinsAgree
<1>8. QED
  BY <1>2, <1>7 DEF p

(* One sequence more.                                                          *)
LEMMA FlattenGrows ==
  ASSUME NEW S, NEW s \in Seq(Seq(S)), NEW n \in Nat, n < Len(s),
         FlattenSeq(Before(s, n)) \in Seq(S)
  PROVE  FlattenSeq(Before(s, n + 1)) = FlattenSeq(Before(s, n)) \o s[n + 1]
<1>1. Len(s) \in Nat /\ n + 1 \in 1 .. Len(s) /\ s[n + 1] \in Seq(S)
  BY LenProperties, ElementOfSeq
<1>2. PICK f : Joins(f, s, Len(s))
  BY <1>1, JoinsExist
<1>3. FlattenSeq(Before(s, n + 1)) = f[n + 1]
  BY <1>1, <1>2, FlattenIsJoins
<1>4. CASE n = 0
  <2>1. Before(s, 0) = <<>> /\ FlattenSeq(<<>>) = <<>>
    BY <1>1, BeforeGrows DEF FlattenSeq
  <2>2. f[n + 1] = s[n + 1]
    BY <1>1, <1>2, <1>4, JoinsAt
  <2>3. QED
    BY <1>1, <1>3, <1>4, <2>1, <2>2, ConcatEmptySeq
<1>5. CASE n # 0
  <2>1. n \in 1 .. Len(s) /\ n + 1 # 1 /\ (n + 1) - 1 = n
    BY <1>1, <1>5
  <2>2. FlattenSeq(Before(s, n)) = f[n]
    BY <1>2, <2>1, FlattenIsJoins
  <2>3. f[n + 1] = f[n] \o s[n + 1]
    <3>1. \A i \in 1 .. Len(s) : f[i] = IF i = 1 THEN s[i] ELSE f[i - 1] \o s[i]
      BY <1>2, JoinsAt
    <3>2. f[n + 1] = IF n + 1 = 1 THEN s[n + 1] ELSE f[(n + 1) - 1] \o s[n + 1]
      BY <1>1, <3>1
    <3>3. QED
      BY <2>1, <3>2
  <2>4. QED
    BY <1>3, <2>1, <2>2, <2>3
<1>6. QED
  BY <1>4, <1>5

LEMMA FlattenOfNone ==
  ASSUME NEW S, NEW s \in Seq(S)
  PROVE  FlattenSeq(Before(s, 0)) = <<>>
BY BeforeGrows DEF FlattenSeq

LEMMA FlattenTypes ==
  ASSUME NEW S, NEW s \in Seq(Seq(S)), NEW n \in 0 .. Len(s)
  PROVE  FlattenSeq(Before(s, n)) \in Seq(S)
<1> DEFINE Bad == {j \in 0 .. Len(s) : FlattenSeq(Before(s, j)) \notin Seq(S)}
<1>0. Len(s) \in Nat
  BY LenProperties
<1>1. SUFFICES ASSUME Bad # {} PROVE FALSE
  OBVIOUS
<1>2. PICK j \in Bad : \A k \in Bad : j <= k
  <2>1. Bad \in SUBSET Nat
    BY <1>0
  <2> HIDE DEF Bad
  <2>2. QED
    BY <1>1, <2>1, LeastNumber
<1>3. j # 0
  BY FlattenOfNone, EmptySeq
<1>4. j - 1 \in 0 .. Len(s) /\ ~(j <= j - 1) /\ j - 1 \in Nat /\ j - 1 < Len(s)
      /\ (j - 1) + 1 = j
  BY <1>0, <1>3
<1>5. FlattenSeq(Before(s, j - 1)) \in Seq(S)
  BY <1>2, <1>4
<1>6. FlattenSeq(Before(s, j)) = FlattenSeq(Before(s, j - 1)) \o s[j]
  BY <1>4, <1>5, FlattenGrows
<1>7. s[j] \in Seq(S)
  BY <1>0, <1>3, ElementOfSeq
<1>8. FlattenSeq(Before(s, j)) \in Seq(S)
  BY <1>5, <1>6, <1>7, ConcatProperties
<1>9. QED
  BY <1>2, <1>8

(* A sequence of sequences of one element each.                                *)
LEMMA FlattenOfSingles ==
  ASSUME NEW S, NEW s \in Seq(Seq(S)), NEW r \in Seq(S), Len(s) = Len(r),
         \A i \in 1 .. Len(r) : s[i] = <<r[i]>>
  PROVE  FlattenSeq(s) = r
<1> DEFINE Bad == {j \in 0 .. Len(s) : FlattenSeq(Before(s, j)) # Before(r, j)}
<1>0. Len(s) \in Nat
  BY LenProperties
<1>1. Bad = {}
  <2>1. SUFFICES ASSUME Bad # {} PROVE FALSE
    OBVIOUS
  <2>2. PICK j \in Bad : \A k \in Bad : j <= k
    <3>1. Bad \in SUBSET Nat
      BY <1>0
    <3> HIDE DEF Bad
    <3>2. QED
      BY <2>1, <3>1, LeastNumber
  <2>3. j # 0
    BY FlattenOfNone, BeforeGrows
  <2>4. j - 1 \in 0 .. Len(s) /\ ~(j <= j - 1) /\ j - 1 \in Nat /\ j - 1 < Len(s)
        /\ (j - 1) + 1 = j /\ j \in 1 .. Len(r)
    BY <1>0, <2>3
  <2>5. FlattenSeq(Before(s, j - 1)) = Before(r, j - 1) /\ Before(r, j - 1) \in Seq(S)
    BY <2>2, <2>4, BeforeIs
  <2>6. FlattenSeq(Before(s, j)) = Before(r, j - 1) \o <<r[j]>>
    BY <2>4, <2>5, FlattenGrows
  <2>7. Before(r, j) = Append(Before(r, j - 1), r[j]) /\ r[j] \in S
    BY <2>4, BeforeGrows, ElementOfSeq
  <2>8. FlattenSeq(Before(s, j)) = Before(r, j)
    BY <2>5, <2>6, <2>7, AppendIsConcat
  <2>9. QED
    BY <2>2, <2>8
<1>2. FlattenSeq(Before(s, Len(s))) = Before(r, Len(s))
  BY <1>0, <1>1
<1>3. QED
  BY <1>0, <1>2, BeforeGrows

LEMMA AppendToConcat ==
  ASSUME NEW S, NEW a \in Seq(S), NEW b \in Seq(S), NEW x \in S
  PROVE  a \o Append(b, x) = Append(a \o b, x)
<1>1. <<x>> \in Seq(S) /\ a \o b \in Seq(S)
  BY ConcatProperties
<1>2. Append(b, x) = b \o <<x>> /\ Append(a \o b, x) = (a \o b) \o <<x>>
  BY <1>1, AppendIsConcat
<1>3. QED
  BY <1>1, <1>2, ConcatAssociative

-------------------------------------------------------------------------------
(* What a directory holds.                                                     *)

Entries(t) ==
  {Entry(t, c) : c \in Items} \cup {DotEntry(n, c) : n \in {".", ".."}, c \in Items \cup {Root}}

LEMMA TreeTypes ==
  ASSUME NEW t \in Trees
  PROVE  /\ t \in [kind : [Items -> Kinds], up : [Items -> Items \cup {Root}],
                   name : [Items -> Names]]
         /\ Len(Contents(t, Root)) <= RootEntries
         /\ \A d \in Dirs(t) : Len(Contents(t, d)) <= PerCluster * Len(Chain[d])
         /\ \A d \in Items \cup {Root} : \A b, c \in Children(t, d) :
              t.name[b] = t.name[c] => b = c
         /\ ~Nested => \A d \in Dirs(t) : t.up[d] = Root
BY DEF Trees, Dirs

(* A finite set in some order: every element is met.                           *)
LEMMA OrderMeetsAll ==
  ASSUME NEW S, IsFiniteSet(S)
  PROVE  /\ Cardinality(S) \in Nat
         /\ SetToSeq(S) \in [1 .. Cardinality(S) -> S]
         /\ \A x \in S : \E i \in 1 .. Cardinality(S) : SetToSeq(S)[i] = x
<1>1. Cardinality(S) \in Nat /\ ExistsBijection(1 .. Cardinality(S), S)
  BY FS_CardinalityType
<1>2. \E f \in [1 .. Cardinality(S) -> S] : IsInjective(f)
  BY <1>1 DEF ExistsBijection, Bijection, Injection
<1>3. SetToSeq(S) \in [1 .. Cardinality(S) -> S] /\ IsInjective(SetToSeq(S))
  BY <1>2 DEF SetToSeq
<1>4. SetToSeq(S) \in Injection(1 .. Cardinality(S), S)
  BY <1>3 DEF Injection
<1>5. IsFiniteSet(1 .. Cardinality(S)) /\ Cardinality(1 .. Cardinality(S)) = Cardinality(S)
  BY <1>1, FS_Interval
<1>6. SetToSeq(S) \in Surjection(1 .. Cardinality(S), S)
  BY <1>4, <1>5, FS_Injection
<1>7. \A x \in S : \E i \in 1 .. Cardinality(S) : SetToSeq(S)[i] = x
  BY <1>6 DEF Surjection
<1>8. QED
  BY <1>1, <1>3, <1>7

LEMMA ChildrenAreFinite ==
  ASSUME NEW t, NEW d
  PROVE  IsFiniteSet(Children(t, d))
<1>1. Marker - 1 \in Int
  BY DEF Marker
<1>2. Children(t, d) \subseteq 2 .. Marker - 1
  BY ClusterNumbers DEF Children
<1>3. IsFiniteSet(2 .. Marker - 1)
  BY <1>1, FS_Interval
<1>4. QED
  BY <1>2, <1>3, FS_Subset

(* What a directory holds, entry by entry.                                     *)
LEMMA ContentsAre ==
  ASSUME NEW t \in Trees, NEW d \in Items \cup {Root},
         NEW m, m = (IF d = Root THEN 0 ELSE 2), NEW n, n = Cardinality(Children(t, d))
  PROVE  /\ Contents(t, d) \in Seq(Entries(t))
         /\ n \in Nat /\ Len(Contents(t, d)) = m + n
         /\ \A i \in 1 .. m + n :
              Contents(t, d)[i] = IF i <= m THEN Dots(t, d)[i] ELSE Entry(t, InOrder(t, d)[i - m])
<1> DEFINE S == Children(t, d)
           o == InOrder(t, d)
           es == [i \in DOMAIN o |-> Entry(t, o[i])]
<1>1. n \in Nat /\ o \in [1 .. n -> S]
  BY ChildrenAreFinite, OrderMeetsAll DEF InOrder
<1>2. S \subseteq Items
  BY DEF Children
<1>3. es \in [1 .. n -> Entries(t)] /\ \A i \in 1 .. n : es[i] = Entry(t, o[i])
  BY <1>1, <1>2 DEF Entries
<1>4. es \in Seq(Entries(t)) /\ Len(es) = n
  BY <1>1, <1>3
<1>5. Dots(t, d) \in Seq(Entries(t)) /\ Len(Dots(t, d)) = m
  <2>1. CASE d = Root
    BY <2>1 DEF Dots
  <2>2. CASE d # Root
    <3>1. t.up[d] \in Items \cup {Root}
      BY <2>2, TreeTypes
    <3>2. DotEntry(".", d) \in Entries(t) /\ DotEntry("..", t.up[d]) \in Entries(t)
      BY <2>2, <3>1 DEF Entries
    <3>3. Dots(t, d) = <<DotEntry(".", d), DotEntry("..", t.up[d])>>
      BY <2>2 DEF Dots
    <3>4. QED
      BY <2>2, <3>2, <3>3
  <2>3. QED
    BY <2>1, <2>2
<1>6. Contents(t, d) = Dots(t, d) \o es
  BY DEF Contents
<1>7. m \in Nat
  OBVIOUS
<1> HIDE DEF S, o, es
<1>8. /\ Dots(t, d) \o es \in Seq(Entries(t))
      /\ Len(Dots(t, d) \o es) = Len(Dots(t, d)) + Len(es)
      /\ \A i \in 1 .. Len(Dots(t, d)) + Len(es) :
           (Dots(t, d) \o es)[i] =
             IF i <= Len(Dots(t, d)) THEN Dots(t, d)[i] ELSE es[i - Len(Dots(t, d))]
  BY <1>4, <1>5, ConcatProperties
<1>9. ASSUME NEW i \in 1 .. m + n
      PROVE  Contents(t, d)[i] = IF i <= m THEN Dots(t, d)[i] ELSE Entry(t, o[i - m])
  <2>1. Contents(t, d)[i] = IF i <= m THEN Dots(t, d)[i] ELSE es[i - m]
    BY <1>4, <1>5, <1>6, <1>8
  <2>2. ~(i <= m) => i - m \in 1 .. n
    BY <1>1, <1>7
  <2>3. QED
    BY <1>3, <2>1, <2>2
<1>10. QED
  BY <1>1, <1>4, <1>5, <1>6, <1>8, <1>9 DEF o

LEMMA DirectoryHolds ==
  ASSUME NEW t \in Trees, NEW d \in Items \cup {Root}
  PROVE  /\ Contents(t, d) \in Seq(Entries(t))
         /\ d # Root => /\ Len(Contents(t, d)) >= 2
                        /\ Contents(t, d)[1] = DotEntry(".", d)
                        /\ Contents(t, d)[2] = DotEntry("..", t.up[d])
         /\ \A c \in Children(t, d) :
              \E i \in 1 .. Len(Contents(t, d)) : Contents(t, d)[i] = Entry(t, c)
         /\ \A i \in 1 .. Len(Contents(t, d)) :
              \/ d # Root /\ i \in 1 .. 2
              \/ \E c \in Children(t, d) : Contents(t, d)[i] = Entry(t, c)
<1> DEFINE n == Cardinality(Children(t, d))
           o == InOrder(t, d)
           m == IF d = Root THEN 0 ELSE 2
<1>1. /\ o \in [1 .. n -> Children(t, d)]
      /\ \A x \in Children(t, d) : \E i \in 1 .. n : o[i] = x
  BY ChildrenAreFinite, OrderMeetsAll DEF InOrder
<1>2. /\ Contents(t, d) \in Seq(Entries(t))
      /\ n \in Nat /\ Len(Contents(t, d)) = m + n
      /\ \A i \in 1 .. m + n :
           Contents(t, d)[i] = IF i <= m THEN Dots(t, d)[i] ELSE Entry(t, o[i - m])
  BY ContentsAre
<1>3. m \in {0, 2} /\ (d # Root <=> m = 2)
  OBVIOUS
<1>4. d # Root => /\ Len(Contents(t, d)) >= 2
                  /\ Contents(t, d)[1] = DotEntry(".", d)
                  /\ Contents(t, d)[2] = DotEntry("..", t.up[d])
  <2>1. d # Root => Dots(t, d)[1] = DotEntry(".", d) /\ Dots(t, d)[2] = DotEntry("..", t.up[d])
    BY DEF Dots
  <2>2. QED
    BY <1>2, <2>1
<1> HIDE DEF n, o, m
<1>5. ASSUME NEW c \in Children(t, d)
      PROVE  \E i \in 1 .. Len(Contents(t, d)) : Contents(t, d)[i] = Entry(t, c)
  <2>1. PICK j \in 1 .. n : o[j] = c
    BY <1>1
  <2>2. m + j \in 1 .. m + n /\ ~(m + j <= m) /\ (m + j) - m = j
    BY <1>2, <1>3
  <2>3. Contents(t, d)[m + j] = Entry(t, c)
    BY <1>2, <2>1, <2>2
  <2>4. QED
    BY <1>2, <2>2, <2>3
<1>6. ASSUME NEW i \in 1 .. Len(Contents(t, d))
      PROVE  \/ d # Root /\ i \in 1 .. 2
             \/ \E c \in Children(t, d) : Contents(t, d)[i] = Entry(t, c)
  <2>1. CASE i <= m
    BY <1>3, <2>1
  <2>2. CASE ~(i <= m)
    <3>1. i \in 1 .. m + n /\ i - m \in 1 .. n
      BY <1>2, <1>3, <2>2
    <3>2. Contents(t, d)[i] = Entry(t, o[i - m]) /\ o[i - m] \in Children(t, d)
      BY <1>1, <1>2, <2>2, <3>1
    <3>3. QED
      BY <3>2
  <2>3. QED
    BY <2>1, <2>2
<1>7. QED
  BY <1>2, <1>4, <1>5, <1>6

LEMMA EntryFields ==
  ASSUME NEW t, NEW c
  PROVE  /\ Entry(t, c).name = t.name[c] /\ Entry(t, c).kind = t.kind[c]
         /\ Entry(t, c).first = IF t.kind[c] = "empty" THEN 0 ELSE c
         /\ Entry(t, c).size = IF t.kind[c] = "empty" THEN 0 ELSE ClusterSize * Len(Chain[c]) - 1
BY DEF Entry

LEMMA DotFields ==
  ASSUME NEW n, NEW c
  PROVE  DotEntry(n, c).name = n /\ DotEntry(n, c).kind = "dir" /\ DotEntry(n, c).first = c
BY DEF DotEntry

LEMMA FreeFields == Free.kind = "none"
BY DEF Free

(* Below the root the first two entries are the dots, all others are of        *)
(* children.                                                                   *)
LEMMA EntryOfDirectory ==
  ASSUME NEW t \in Trees, NEW d \in Dirs(t) \cup {Root},
         NEW i \in 1 .. Len(Contents(t, d)), NEW e, e = Contents(t, d)[i]
  PROVE  /\ e # Free
         /\ \/ /\ d # Root /\ e.kind = "dir"
               /\ \/ e.name = "." /\ e.first = d
                  \/ e.name = ".." /\ e.first = t.up[d]
            \/ \E c \in Children(t, d) : e = Entry(t, c)
<1>1. d \in Items \cup {Root}
  BY DEF Dirs
<1>2. CASE d # Root /\ i \in 1 .. 2
  <2>1. e = DotEntry(".", d) \/ e = DotEntry("..", t.up[d])
    BY <1>1, <1>2, DirectoryHolds
  <2>2. e.kind = "dir"
    BY <2>1, DotFields
  <2>3. e # Free
    BY <2>2, FreeFields
  <2>4. \/ e.name = "." /\ e.first = d
        \/ e.name = ".." /\ e.first = t.up[d]
    BY <2>1, DotFields
  <2>5. QED
    BY <1>2, <2>2, <2>3, <2>4
<1>3. CASE \E c \in Children(t, d) : e = Entry(t, c)
  <2>1. PICK c \in Children(t, d) : e = Entry(t, c)
    BY <1>3
  <2>2. e.kind # "none"
    BY <2>1, EntryFields DEF Children
  <2>3. QED
    BY <1>3, <2>2, FreeFields
<1>4. QED
  BY <1>1, <1>2, <1>3, DirectoryHolds

-------------------------------------------------------------------------------
(* The outline of a tree without nesting: its recursion is two levels deep.    *)

RowType == Int \X Names

(* One level of the recursion in Outline, f giving the levels below it.        *)
RowsOf(t, f, c) ==
  <<<<1, t.name[c]>>>> \o (IF t.kind[c] = "dir" THEN Deeper(f[c]) ELSE <<>>)
Rows(t, f, d) == FlattenSeq([i \in DOMAIN InOrder(t, d) |-> RowsOf(t, f, InOrder(t, d)[i])])
Levels(t, f)  == f = [d \in Items \cup {Root} |-> Rows(t, f, d)]

LEMMA ChildrenInOrder ==
  ASSUME NEW t \in Trees, NEW d
  PROVE  /\ Cardinality(Children(t, d)) \in Nat
         /\ DOMAIN InOrder(t, d) = 1 .. Cardinality(Children(t, d))
         /\ \A i \in DOMAIN InOrder(t, d) :
              /\ InOrder(t, d)[i] \in Children(t, d) /\ InOrder(t, d)[i] \in Items
              /\ t.name[InOrder(t, d)[i]] \in Names
<1>1. /\ Cardinality(Children(t, d)) \in Nat
      /\ InOrder(t, d) \in [1 .. Cardinality(Children(t, d)) -> Children(t, d)]
  BY ChildrenAreFinite, OrderMeetsAll DEF InOrder
<1>2. \A c \in Children(t, d) : c \in Items
  BY DEF Children
<1>3. \A c \in Items : t.name[c] \in Names
  BY TreeTypes
<1>4. QED
  BY <1>1, <1>2, <1>3

LEMMA WithinTypes ==
  ASSUME NEW t \in Trees, NEW d
  PROVE  /\ Within(t, d) \in Seq(RowType)
         /\ Len(Within(t, d)) = Cardinality(Children(t, d))
         /\ \A i \in DOMAIN InOrder(t, d) : Within(t, d)[i] = <<2, t.name[InOrder(t, d)[i]]>>
<1> DEFINE n == Cardinality(Children(t, d))
<1>1. n \in Nat /\ DOMAIN InOrder(t, d) = 1 .. n
  BY ChildrenInOrder
<1>2. \A i \in 1 .. n : <<2, t.name[InOrder(t, d)[i]]>> \in RowType
  BY <1>1, ChildrenInOrder DEF RowType
<1> HIDE DEF n
<1>3. Within(t, d) \in [1 .. n -> RowType]
  BY <1>1, <1>2 DEF Within
<1>4. Within(t, d) \in Seq(RowType) /\ Len(Within(t, d)) = n
  BY <1>1, <1>3
<1>5. \A i \in DOMAIN InOrder(t, d) : Within(t, d)[i] = <<2, t.name[InOrder(t, d)[i]]>>
  BY DEF Within
<1>6. QED
  BY <1>4, <1>5 DEF n

(* In a directory below the root there are no directories.                     *)
LEMMA RowsBelow ==
  ASSUME ~Nested, NEW t \in Trees, NEW d \in Items, NEW f
  PROVE  /\ DOMAIN Rows(t, f, d) = DOMAIN InOrder(t, d)
         /\ \A i \in DOMAIN InOrder(t, d) : Rows(t, f, d)[i] = <<1, t.name[InOrder(t, d)[i]]>>
<1> DEFINE n == Cardinality(Children(t, d))
           o == InOrder(t, d)
           s == [i \in DOMAIN o |-> RowsOf(t, f, o[i])]
           r == [i \in 1 .. n |-> <<1, t.name[o[i]]>>]
<1>1. /\ n \in Nat /\ DOMAIN o = 1 .. n
      /\ \A i \in 1 .. n : o[i] \in Children(t, d) /\ t.name[o[i]] \in Names
  BY ChildrenInOrder
<1>2. ASSUME NEW c \in Children(t, d)
      PROVE  t.kind[c] # "dir"
  <2>1. c \in Items /\ t.up[c] = d /\ d # Root
    BY ClusterNumbers DEF Children
  <2>2. QED
    BY <2>1, TreeTypes DEF Dirs
<1>3. \A i \in 1 .. n : <<1, t.name[o[i]]>> \in RowType
  BY <1>1 DEF RowType
<1> HIDE DEF n, o
<1>4. r \in Seq(RowType) /\ Len(r) = n /\ DOMAIN r = 1 .. n
      /\ \A i \in 1 .. n : r[i] = <<1, t.name[o[i]]>>
  BY <1>1, <1>3
<1>5. \A i \in 1 .. n : s[i] = <<<<1, t.name[o[i]]>>>>
  <2>1. ASSUME NEW i \in 1 .. n
        PROVE  s[i] = <<<<1, t.name[o[i]]>>>>
    <3>1. s[i] = <<<<1, t.name[o[i]]>>>> \o <<>>
      BY <1>1, <1>2 DEF RowsOf
    <3>2. <<<<1, t.name[o[i]]>>>> \in Seq(RowType)
      BY <1>3
    <3>3. QED
      BY <3>1, <3>2, ConcatEmptySeq
  <2>2. QED
    BY <2>1
<1>6. s \in Seq(Seq(RowType)) /\ Len(s) = n
  <2>1. \A i \in 1 .. n : <<<<1, t.name[o[i]]>>>> \in Seq(RowType)
    BY <1>3
  <2>2. s = [i \in 1 .. n |-> s[i]]
    BY <1>1
  <2> HIDE DEF s
  <2>3. s \in [1 .. n -> Seq(RowType)]
    BY <1>5, <2>1, <2>2
  <2>4. QED
    BY <1>1, <2>3
<1>7. Rows(t, f, d) = FlattenSeq(s)
  BY DEF Rows, o
<1> HIDE DEF s, r
<1>8. \A i \in 1 .. Len(r) : s[i] = <<r[i]>>
  BY <1>4, <1>5
<1>9. FlattenSeq(s) = r
  BY <1>4, <1>6, <1>8, FlattenOfSingles
<1>10. QED
  BY <1>1, <1>4, <1>7, <1>9 DEF o

LEMMA RowsDepend ==
  ASSUME NEW t \in Trees, NEW d, NEW f, NEW g, \A c \in Items : f[c] = g[c]
  PROVE  Rows(t, f, d) = Rows(t, g, d)
<1>1. \A i \in DOMAIN InOrder(t, d) :
        RowsOf(t, f, InOrder(t, d)[i]) = RowsOf(t, g, InOrder(t, d)[i])
  BY ChildrenInOrder DEF RowsOf
<1>2. [i \in DOMAIN InOrder(t, d) |-> RowsOf(t, f, InOrder(t, d)[i])]
        = [i \in DOMAIN InOrder(t, d) |-> RowsOf(t, g, InOrder(t, d)[i])]
  BY <1>1
<1>3. QED
  BY <1>2 DEF Rows

LEMMA RowsBelowAlike ==
  ASSUME ~Nested, NEW t \in Trees, NEW d \in Items, NEW f, NEW g
  PROVE  Rows(t, f, d) = Rows(t, g, d)
<1> DEFINE o == InOrder(t, d)
<1>1. ASSUME NEW c \in Children(t, d)
      PROVE  RowsOf(t, f, c) = RowsOf(t, g, c)
  <2>1. c \in Items /\ t.up[c] = d /\ d # Root
    BY ClusterNumbers DEF Children
  <2>2. t.kind[c] # "dir"
    BY <2>1, TreeTypes DEF Dirs
  <2>3. QED
    BY <2>2 DEF RowsOf
<1>2. \A i \in DOMAIN o : RowsOf(t, f, o[i]) = RowsOf(t, g, o[i])
  BY <1>1, ChildrenInOrder
<1>3. [i \in DOMAIN o |-> RowsOf(t, f, o[i])] = [i \in DOMAIN o |-> RowsOf(t, g, o[i])]
  BY <1>2
<1>4. QED
  BY <1>3 DEF Rows

(* So two rounds give the function that Outline chooses.                       *)
LEMMA LevelsExist ==
  ASSUME ~Nested, NEW t \in Trees
  PROVE  \E f : Levels(t, f)
<1> DEFINE D == Items \cup {Root}
           u == [d \in D |-> Rows(t, <<>>, d)]
           w == [d \in D |-> Rows(t, u, d)]
<1>1. \A c \in Items : u[c] = Rows(t, <<>>, c) /\ w[c] = Rows(t, u, c)
  OBVIOUS
<1>2. \A c \in Items : Rows(t, <<>>, c) = Rows(t, u, c)
  <2> HIDE DEF u
  <2>1. QED
    BY RowsBelowAlike
<1>3. \A c \in Items : u[c] = w[c]
  BY <1>1, <1>2
<1>4. \A d \in D : Rows(t, u, d) = Rows(t, w, d)
  <2> HIDE DEF u, w
  <2>1. QED
    BY <1>3, RowsDepend
<1>5. w = [d \in D |-> Rows(t, w, d)]
  <2>1. \A d \in D : w[d] = Rows(t, w, d)
    BY <1>4
  <2>2. w = [d \in D |-> w[d]]
    OBVIOUS
  <2> HIDE DEF w
  <2>3. QED
    BY <2>1, <2>2
<1> HIDE DEF w
<1>6. QED
  BY <1>5 DEF Levels

(* What tree should print is the branches of the root one after the other.     *)
LEMMA OutlineIsBranches ==
  ASSUME ~Nested, NEW t \in Trees
  PROVE  Outline(t) = FlattenSeq(Branches(t))
<1> DEFINE f == CHOOSE g : Levels(t, g)
<1>1. Outline(t) = f[Root]
  BY DEF Outline, Levels, Rows, RowsOf
<1>2. Levels(t, f)
  BY LevelsExist
<1> HIDE DEF f
<1>3. \A d \in Items \cup {Root} : f[d] = Rows(t, f, d)
  BY <1>2 DEF Levels
<1>4. ASSUME NEW c \in Items
      PROVE  Deeper(f[c]) = Within(t, c)
  <2> DEFINE r == f[c]
  <2>1. /\ DOMAIN r = DOMAIN InOrder(t, c)
        /\ \A i \in DOMAIN InOrder(t, c) : r[i] = <<1, t.name[InOrder(t, c)[i]]>>
    BY <1>3, RowsBelow
  <2> HIDE DEF r
  <2>2. \A i \in DOMAIN InOrder(t, c) :
          <<r[i][1] + 1, r[i][2]>> = <<2, t.name[InOrder(t, c)[i]]>>
    <3>1. ASSUME NEW x, NEW n, x = <<1, n>>
          PROVE  <<x[1] + 1, x[2]>> = <<2, n>>
      BY <3>1
    <3>2. QED
      BY <2>1, <3>1
  <2>3. Deeper(r) = Within(t, c)
    BY <2>1, <2>2 DEF Deeper, Within
  <2>4. QED
    BY <2>3 DEF r
<1>5. \A c \in Items : RowsOf(t, f, c) = Branch(t, c)
  BY <1>4 DEF RowsOf, Branch
<1>6. \A i \in DOMAIN InOrder(t, Root) :
        RowsOf(t, f, InOrder(t, Root)[i]) = Branch(t, InOrder(t, Root)[i])
  BY <1>5, ChildrenInOrder
<1>7. [i \in DOMAIN InOrder(t, Root) |-> RowsOf(t, f, InOrder(t, Root)[i])] = Branches(t)
  BY <1>6 DEF Branches
<1>8. QED
  BY <1>1, <1>3, <1>7 DEF Rows

-------------------------------------------------------------------------------
(* Scans.                                                                      *)

FrameType == [dir : Items \cup {Root}, cluster : Clusters \cup {Root, EndOfChain}, i : Nat]

LEMMA Product == \A a, b \in Nat : a * b \in Nat
OBVIOUS

(* The number of a place in a chain of clusters of p entries.                  *)
LEMMA Counting ==
  ASSUME NEW k \in Nat \ {0}, NEW p \in Nat, NEW i \in Nat
  PROVE  /\ (k - 1) * p + i \in Nat
         /\ (k - 1) * p + (i + 1) = (k - 1) * p + i + 1
         /\ (k - 1) * p + p = k * p
         /\ (k + 1 - 1) * p + 0 = k * p
OBVIOUS

LEMMA PassedCluster ==
  ASSUME NEW f \in FrameType, f.dir # Root, f.cluster \in ToSet(Chain[f.dir])
  PROVE  /\ f.dir \in Items
         /\ Place(f.cluster) \in 1 .. Len(Chain[f.dir])
         /\ Chain[f.dir][Place(f.cluster)] = f.cluster
         /\ ~is_end_of_chain(f.cluster)
         /\ Passed(f) = (Place(f.cluster) - 1) * PerCluster + f.i
<1>1. f.dir \in Items
  BY DEF FrameType
<1>2. QED
  BY <1>1, ClusterIsPlaced, ClusterNumbers DEF Passed

LEMMA PassedNumber ==
  ASSUME NEW f \in FrameType, Placed(f)
  PROVE  Passed(f) \in Nat
<1> USE ImageAssumption
<1>1. PerCluster \in Nat /\ f.i \in Nat
  BY DEF FrameType
<1>2. CASE f.dir = Root
  BY <1>1, <1>2 DEF Passed
<1>3. CASE f.dir # Root /\ f.cluster \in ToSet(Chain[f.dir])
  <2>1. Len(Chain[f.dir]) \in Nat
    BY <1>3, PassedCluster, ChainTypes
  <2>2. QED
    BY <1>1, <1>3, <2>1, PassedCluster, Counting
<1>4. CASE f.dir # Root /\ f.cluster = EndOfChain
  <2>1. f.dir \in Items
    BY <1>4 DEF FrameType
  <2>2. Passed(f) = Len(Chain[f.dir]) * PerCluster
    BY <1>4, ClusterNumbers DEF Passed
  <2>3. QED
    BY <1>1, <2>1, <2>2, ChainTypes, Product
<1>5. QED
  BY <1>2, <1>3, <1>4 DEF Placed

LEMMA ScanStarts ==
  ASSUME NEW d \in Items \cup {Root}
  PROVE  /\ Frame(d) \in FrameType
         /\ Frame(d).dir = d /\ Frame(d).cluster = d /\ Frame(d).i = 0
         /\ Placed(Frame(d))
         /\ Passed(Frame(d)) = 0
         /\ ~is_end_of_chain(Frame(d).cluster)
<1> USE ImageAssumption
<1>1. /\ Frame(d) \in FrameType
      /\ Frame(d).dir = d /\ Frame(d).cluster = d /\ Frame(d).i = 0
  BY ClusterNumbers DEF Frame, FrameType
<1>2. CASE d = Root
  BY <1>1, <1>2, ClusterNumbers DEF Placed, Passed
<1>3. CASE d # Root
  <2>1. 1 \in 1 .. Len(Chain[d]) /\ Chain[d][1] = d
    BY <1>3, ChainTypes
  <2>2. d \in ToSet(Chain[d]) /\ Place(d) = 1
    <3>1. 1 \in DOMAIN Chain[d] /\ d \in Items
      BY <1>3, <2>1, ChainTypes
    <3>2. Chain[d][1] \in ToSet(Chain[d])
      BY <3>1 DEF ToSet
    <3>3. Place(Chain[d][1]) = 1
      BY <2>1, <3>1, ClusterInChain
    <3>4. QED
      BY <2>1, <3>2, <3>3
  <2>3. Passed(Frame(d)) = (1 - 1) * PerCluster + 0
    BY <1>1, <1>3, <2>2, PassedCluster
  <2>4. (1 - 1) * PerCluster + 0 = 0
    OBVIOUS
  <2>5. Placed(Frame(d))
    BY <1>1, <1>3, <2>2 DEF Placed
  <2>6. QED
    BY <1>1, <1>3, <2>2, <2>3, <2>4, <2>5, PassedCluster
<1>4. QED
  BY <1>2, <1>3

(* The bound of the inner loop.                                                *)
LoopBound(f) == IF f.dir = Root THEN RootEntries ELSE PerCluster

LEMMA ScanAdvances ==
  ASSUME NEW f \in FrameType, Placed(f), f.i < LoopBound(f), ~is_end_of_chain(f.cluster),
         NEW g, g = [f EXCEPT !.i = @ + 1]
  PROVE  /\ g \in FrameType
         /\ g.dir = f.dir /\ g.cluster = f.cluster /\ g.i = f.i + 1
         /\ Placed(g)
         /\ Passed(g) = Passed(f) + 1
<1> USE ImageAssumption
<1>1. /\ f.i \in Nat
      /\ f.dir \in Items \cup {Root}
      /\ f.cluster \in Clusters \cup {Root, EndOfChain}
      /\ f = [dir |-> f.dir, cluster |-> f.cluster, i |-> f.i]
  BY DEF FrameType
<1>2. g.dir = f.dir /\ g.cluster = f.cluster /\ g.i = f.i + 1
  BY <1>1
<1>3. g \in FrameType
  BY <1>1 DEF FrameType
<1>4. CASE f.dir = Root
  <2>1. f.cluster = Root /\ f.i < RootEntries
    BY <1>4, ClusterNumbers DEF Placed, LoopBound
  <2>2. g.i \in 0 .. RootEntries
    BY <1>1, <1>2, <2>1
  <2>3. Placed(g)
    BY <1>2, <1>4, <2>1, <2>2 DEF Placed
  <2>4. Passed(g) = Passed(f) + 1
    BY <1>2, <1>4 DEF Passed
  <2>5. QED
    BY <1>2, <1>3, <2>3, <2>4
<1>5. CASE f.dir # Root
  <2>1. f.cluster \in ToSet(Chain[f.dir])
    BY <1>5, ClusterNumbers DEF Placed
  <2>2. Placed(g)
    BY <1>1, <1>2, <1>5, <2>1 DEF Placed, LoopBound
  <2>3. /\ Passed(f) = (Place(f.cluster) - 1) * PerCluster + f.i
        /\ Passed(g) = (Place(f.cluster) - 1) * PerCluster + (f.i + 1)
    BY <1>2, <1>3, <1>5, <2>1, PassedCluster
  <2>4. Place(f.cluster) \in Nat \ {0}
    BY <1>5, <2>1, PassedCluster, ChainTypes
  <2>5. QED
    BY <1>1, <1>2, <1>3, <2>2, <2>3, <2>4, Counting
<1>6. QED
  BY <1>4, <1>5

(* fread finds the entry after those that were passed.                         *)
LEMMA EntryRead ==
  ASSUME tree \in Trees, NEW f \in FrameType, Placed(f),
         f.dir \in Dirs(tree) \cup {Root},
         f.i < LoopBound(f), ~is_end_of_chain(f.cluster)
  PROVE  EntriesAt(<<f.cluster, f.i>>) = {Nth(Contents(tree, f.dir), Passed(f))}
<1>1. CASE f.dir = Root
  <2>1. f.cluster = Root
    BY <1>1 DEF Placed
  <2>2. EntriesAt(<<f.cluster, f.i>>) = {Slot(tree, Root, f.i)}
    BY <1>1, <2>1 DEF EntriesAt, LoopBound
  <2>3. QED
    BY <1>1, <2>2 DEF Slot, Passed
<1>2. CASE f.dir # Root
  <2>1. f.cluster \in ToSet(Chain[f.dir]) /\ f.dir \in Items /\ tree.kind[f.dir] = "dir"
    BY <1>2, ClusterNumbers DEF Placed, Dirs
  <2>2. Owner(f.cluster) = f.dir /\ f.cluster \in Clusters /\ f.cluster # Root
    BY <2>1, ClusterIsPlaced, ClusterNumbers
  <2>3. EntriesAt(<<f.cluster, f.i>>) = {Slot(tree, f.cluster, f.i)}
    BY <1>2, <2>2 DEF EntriesAt, LoopBound
  <2>4. Passed(f) = (Place(f.cluster) - 1) * PerCluster + f.i
    BY <1>2, <2>1, PassedCluster
  <2>5. QED
    BY <2>1, <2>2, <2>3, <2>4 DEF Slot
<1>3. QED
  BY <1>1, <1>2

(* get_next_cluster keeps the scan where it is.                                *)
LEMMA ScanFollowsChain ==
  ASSUME PlainImage, NEW f \in FrameType, Placed(f),
         f.dir # Root, f.i = PerCluster, ~is_end_of_chain(f.cluster),
         NEW c \in NextOf(f.cluster), NEW g, g = [dir |-> f.dir, cluster |-> c, i |-> 0]
  PROVE  /\ g \in FrameType
         /\ g.dir = f.dir /\ g.cluster = c /\ g.i = 0
         /\ Placed(g)
         /\ Passed(g) = Passed(f)
         /\ c \in Clusters \cup {EndOfChain}
<1> USE ImageAssumption
<1>1. /\ f.dir \in Items /\ f.cluster \in ToSet(Chain[f.dir])
      /\ f = [dir |-> f.dir, cluster |-> f.cluster, i |-> f.i]
  BY ClusterNumbers DEF FrameType, Placed
<1> DEFINE k == Place(f.cluster)
           n == Len(Chain[f.dir])
<1>2. k \in 1 .. n /\ Chain[f.dir][k] = f.cluster /\ n \in Nat
  BY <1>1, PassedCluster, ChainTypes
<1>3. c = IF k < n THEN Chain[f.dir][k + 1] ELSE EndOfChain
  <2>1. NextOf(Chain[f.dir][k]) = {IF k < n THEN Chain[f.dir][k + 1] ELSE LastMark}
    BY <1>1, <1>2, FatFollowsChain
  <2>2. QED
    BY <1>2, <2>1 DEF PlainImage
<1>4. Passed(f) = (k - 1) * PerCluster + PerCluster
  BY <1>1, PassedCluster
<1> HIDE DEF k, n
<1>5. Passed(f) = k * PerCluster
  BY <1>2, <1>4, Counting
<1>6. g.dir = f.dir /\ g.cluster = c /\ g.i = 0
  BY <1>1
<1>7. CASE k < n
  <2>1. k + 1 \in 1 .. n /\ c = Chain[f.dir][k + 1]
    BY <1>2, <1>3, <1>7
  <2>2. c \in Clusters /\ Place(c) = k + 1 /\ c \in ToSet(Chain[f.dir])
    BY <1>1, <2>1, ClusterInChain, ChainTypes DEF n, ToSet
  <2>3. g \in FrameType
    BY <1>1, <2>2 DEF FrameType
  <2>4. Placed(g)
    BY <1>6, <2>2 DEF Placed
  <2>5. Passed(g) = (k + 1 - 1) * PerCluster + 0
    <3>1. g.dir # Root /\ g.cluster \in ToSet(Chain[g.dir])
      BY <1>6, <2>2
    <3>2. Passed(g) = (Place(g.cluster) - 1) * PerCluster + g.i
      BY <2>3, <3>1, PassedCluster
    <3>3. QED
      BY <1>2, <1>6, <2>2, <3>2
  <2>6. Passed(g) = Passed(f)
    BY <1>2, <1>5, <2>5, Counting
  <2>7. QED
    BY <1>6, <2>2, <2>3, <2>4, <2>6
<1>8. CASE ~(k < n)
  <2>1. c = EndOfChain /\ k = n
    BY <1>2, <1>3, <1>8
  <2>2. g \in FrameType
    BY <1>1, <2>1 DEF FrameType
  <2>3. Placed(g)
    BY <1>6, <2>1 DEF Placed
  <2>4. Passed(g) = n * PerCluster
    BY <1>6, <2>1, ClusterNumbers DEF Passed, n
  <2>5. QED
    BY <1>5, <1>6, <2>1, <2>2, <2>3, <2>4
<1>9. QED
  BY <1>7, <1>8

(* At its end a scan has passed everything.                                    *)
LEMMA ScanEnds ==
  ASSUME NEW t \in Trees, NEW f \in FrameType, Placed(f), f.dir \in Dirs(t) \cup {Root},
         IF f.dir = Root THEN f.i = RootEntries ELSE is_end_of_chain(f.cluster)
  PROVE  Len(Contents(t, f.dir)) <= Passed(f)
<1>1. CASE f.dir = Root
  BY <1>1, TreeTypes DEF Passed
<1>2. CASE f.dir # Root
  <2>1. f.dir \in Dirs(t) /\ f.dir \in Items
    BY <1>2 DEF Dirs
  <2>2. Passed(f) = Len(Chain[f.dir]) * PerCluster
    BY <1>2 DEF Passed
  <2>3. Len(Chain[f.dir]) \in Nat /\ PerCluster \in Nat
    BY <2>1, ChainTypes, ImageAssumption
  <2>4. Len(Contents(t, f.dir)) <= PerCluster * Len(Chain[f.dir])
    BY <2>1, TreeTypes
  <2>5. QED
    BY <2>2, <2>3, <2>4
<1>3. QED
  BY <1>1, <1>2

-------------------------------------------------------------------------------
(* The frames of the calls.                                                    *)

LEMMA FrameOfTree ==
  ASSUME NEW t, NEW f
  PROVE  f \in ScanFrames(t) <=> f \in FrameType /\ f.dir \in Dirs(t) \cup {Root}
BY DEF ScanFrames, FrameType, Dirs

LEMMA TopFrame ==
  ASSUME NEW T, NEW fs \in Seq(T), Len(fs) \in 1 .. 2
  PROVE  /\ DOMAIN fs = 1 .. Len(fs) /\ 1 \in DOMAIN fs
         /\ Head(fs) = fs[1] /\ Head(fs) \in T
         /\ Len(fs) = 2 => fs[2] \in T
<1>1. fs # <<>>
  BY EmptySeq
<1>2. Head(fs) = fs[1]
  BY <1>1
<1>3. QED
  BY <1>2, LenProperties, ElementOfSeq

LEMMA TopReplaced ==
  ASSUME NEW T, NEW fs \in Seq(T), Len(fs) \in 1 .. 2, NEW g \in T,
         NEW new, new = <<g>> \o Tail(fs)
  PROVE  /\ new \in Seq(T) /\ Len(new) = Len(fs)
         /\ new[1] = g /\ Head(new) = g
         /\ Len(fs) = 2 => new[2] = fs[2]
<1>1. fs # <<>> /\ Len(fs) \in Nat
  BY EmptySeq
<1>2. /\ Tail(fs) \in Seq(T) /\ Len(Tail(fs)) = Len(fs) - 1
      /\ \A i \in 1 .. Len(Tail(fs)) : Tail(fs)[i] = fs[i + 1]
  BY <1>1, HeadTailProperties
<1>3. <<g>> \in Seq(T) /\ Len(<<g>>) = 1 /\ <<g>>[1] = g
  OBVIOUS
<1>4. /\ <<g>> \o Tail(fs) \in Seq(T)
      /\ Len(<<g>> \o Tail(fs)) = 1 + Len(Tail(fs))
      /\ \A i \in 1 .. 1 + Len(Tail(fs)) :
           (<<g>> \o Tail(fs))[i] = IF i <= 1 THEN <<g>>[i] ELSE Tail(fs)[i - 1]
  BY <1>2, <1>3, ConcatProperties
<1>5. new \in Seq(T) /\ Len(new) = Len(fs)
  BY <1>1, <1>2, <1>4
<1>6. new[1] = g
  BY <1>1, <1>2, <1>3, <1>4
<1>7. Len(fs) = 2 => new[2] = fs[2]
  BY <1>2, <1>4
<1>8. Head(new) = new[1]
  BY <1>5, TopFrame
<1>9. QED
  BY <1>5, <1>6, <1>7, <1>8

LEMMA TopPushed ==
  ASSUME NEW T, NEW fs \in Seq(T), Len(fs) = 1, NEW g \in T, NEW new, new = <<g>> \o fs
  PROVE  /\ new \in Seq(T) /\ Len(new) = 2
         /\ new[1] = g /\ Head(new) = g /\ new[2] = fs[1]
<1>1. <<g>> \in Seq(T) /\ Len(<<g>>) = 1 /\ <<g>>[1] = g
  OBVIOUS
<1>2. /\ <<g>> \o fs \in Seq(T)
      /\ Len(<<g>> \o fs) = 1 + Len(fs)
      /\ \A i \in 1 .. 1 + Len(fs) :
           (<<g>> \o fs)[i] = IF i <= 1 THEN <<g>>[i] ELSE fs[i - 1]
  BY <1>1, ConcatProperties
<1>3. new \in Seq(T) /\ Len(new) = 2 /\ new[1] = g /\ new[2] = fs[1]
  BY <1>1, <1>2
<1>4. Head(new) = new[1]
  BY <1>3, TopFrame
<1>5. QED
  BY <1>3, <1>4

LEMMA TopPopped ==
  ASSUME NEW T, NEW fs \in Seq(T), Len(fs) = 2
  PROVE  /\ Tail(fs) \in Seq(T) /\ Len(Tail(fs)) = 1
         /\ Tail(fs)[1] = fs[2] /\ Head(Tail(fs)) = fs[2]
<1>1. fs # <<>>
  BY EmptySeq
<1>2. PICK rest : rest = Tail(fs)
  OBVIOUS
<1>3. /\ rest \in Seq(T) /\ Len(rest) = Len(fs) - 1
      /\ \A i \in 1 .. Len(rest) : rest[i] = fs[i + 1]
  BY <1>1, <1>2, HeadTailProperties, Zenon
<1>4. Len(rest) = 1 /\ rest[1] = fs[2]
  BY <1>3
<1>5. Head(rest) = rest[1]
  BY <1>3, <1>4, TopFrame
<1>6. QED
  BY <1>2, <1>3, <1>4, <1>5

(* What the frames are while a command scans.                                  *)
LEMMA ScanFacts ==
  ASSUME SearchInv, pc = "scan"
  PROVE  /\ frames \in Seq(ScanFrames(tree)) /\ Len(frames) \in 1 .. 2
         /\ DOMAIN frames = 1 .. Len(frames)
         /\ Scan = frames[1] /\ Scan \in ScanFrames(tree)
         /\ Scan \in FrameType /\ Scan.dir \in Dirs(tree) \cup {Root}
         /\ Placed(Scan) /\ Passed(Scan) \in Nat
         /\ Len(frames) = 2 => frames[2] \in FrameType /\ Placed(frames[2])
<1>1. frames \in Seq(ScanFrames(tree)) /\ Len(frames) \in 1 .. 2
  BY DEF SearchInv, TypeOK
<1>2. /\ DOMAIN frames = 1 .. Len(frames)
      /\ Scan = frames[1] /\ Scan \in ScanFrames(tree)
      /\ Len(frames) = 2 => frames[2] \in ScanFrames(tree)
  BY <1>1, TopFrame DEF Scan
<1>3. \A k \in DOMAIN frames : Placed(frames[k])
  BY DEF SearchInv, Nesting
<1>4. Placed(Scan) /\ (Len(frames) = 2 => Placed(frames[2]))
  BY <1>1, <1>2, <1>3
<1>5. Scan \in FrameType /\ Scan.dir \in Dirs(tree) \cup {Root}
  BY <1>2, FrameOfTree
<1>6. QED
  BY <1>1, <1>2, <1>4, <1>5, FrameOfTree, PassedNumber

(* The root's sector tells the root from the directories in it.                *)
LEMMA RootIsRecognised ==
  ASSUME PlainImage, SearchInv
  PROVE  AtRoot <=> Here = Root
BY ClusterNumbers DEF PlainImage, SearchInv, TypeOK, AtRoot, Dirs

(* fread finds the next entry that the scan has not passed.                    *)
LEMMA NextEntry ==
  ASSUME SearchInv, More
  PROVE  EntriesAt(pos) = {Nth(Contents(tree, Scan.dir), Passed(Scan))}
<1>1. pc = "scan" /\ Scan.i < LoopBound(Scan) /\ ~is_end_of_chain(Scan.cluster)
  BY DEF More, InRoot, LoopBound
<1>2. pos = <<Scan.cluster, Scan.i>> /\ tree \in Trees
  BY <1>1 DEF SearchInv, Nesting, TypeOK
<1>3. QED
  BY <1>1, <1>2, ScanFacts, EntryRead

-------------------------------------------------------------------------------
(* What print_tree has printed.                                                *)

(* The entry after the p first ones of a directory, in the order of its        *)
(* children.                                                                   *)
LEMMA EntryInOrder ==
  ASSUME NEW t \in Trees, NEW d \in Items \cup {Root}, NEW p \in Nat,
         NEW e, e = Nth(Contents(t, d), p), NEW n, n = Cardinality(Children(t, d))
  PROVE  /\ d = Root => /\ p < n => e = Entry(t, InOrder(t, d)[p + 1])
                        /\ p >= n => e = Free
         /\ d # Root => /\ p < 2 => e.kind = "dir" /\ e.first \in {d, t.up[d]}
                        /\ p >= 2 /\ p - 2 < n => e = Entry(t, InOrder(t, d)[p - 1])
                        /\ p >= 2 /\ p - 2 >= n => e = Free
<1> DEFINE m == IF d = Root THEN 0 ELSE 2
<1>1. /\ n \in Nat /\ Len(Contents(t, d)) = m + n
      /\ \A i \in 1 .. m + n :
           Contents(t, d)[i] = IF i <= m THEN Dots(t, d)[i] ELSE Entry(t, InOrder(t, d)[i - m])
  BY ContentsAre
<1>2. p < m + n => p + 1 \in 1 .. m + n /\ e = Contents(t, d)[p + 1]
  BY <1>1 DEF Nth
<1>3. p >= m + n => e = Free
  BY <1>1 DEF Nth
<1>4. CASE d = Root
  BY <1>1, <1>2, <1>3, <1>4
<1>5. CASE d # Root
  <2>1. ASSUME p < 2
        PROVE  e.kind = "dir" /\ e.first \in {d, t.up[d]}
    <3>1. p + 1 \in 1 .. 2 /\ e = Contents(t, d)[p + 1]
      BY <1>1, <1>2, <1>5, <2>1
    <3>2. e = DotEntry(".", d) \/ e = DotEntry("..", t.up[d])
      BY <1>5, <3>1, DirectoryHolds
    <3>3. QED
      BY <3>2, DotFields
  <2>2. p >= 2 /\ p - 2 < n => e = Entry(t, InOrder(t, d)[p - 1])
    BY <1>1, <1>2, <1>5
  <2>3. p >= 2 /\ p - 2 >= n => e = Free
    BY <1>1, <1>3, <1>5
  <2>4. QED
    BY <1>5, <2>1, <2>2, <2>3
<1>6. QED
  BY <1>4, <1>5

LEMMA BranchTypes ==
  ASSUME NEW t \in Trees
  PROVE  /\ Branches(t) \in Seq(Seq(RowType))
         /\ Len(Branches(t)) = Cardinality(Children(t, Root))
         /\ Cardinality(Children(t, Root)) \in Nat
         /\ \A i \in DOMAIN InOrder(t, Root) : Branches(t)[i] = Branch(t, InOrder(t, Root)[i])
<1> DEFINE n == Cardinality(Children(t, Root))
           o == InOrder(t, Root)
<1>1. n \in Nat /\ DOMAIN o = 1 .. n
  BY ChildrenInOrder
<1>2. ASSUME NEW i \in 1 .. n
      PROVE  Branch(t, o[i]) \in Seq(RowType)
  <2>1. t.name[o[i]] \in Names
    BY <1>1, ChildrenInOrder
  <2>2. <<1, t.name[o[i]]>> \in RowType
    BY <2>1 DEF RowType
  <2>3. <<<<1, t.name[o[i]]>>>> \in Seq(RowType)
    BY <2>2
  <2>4. (IF t.kind[o[i]] = "dir" THEN Within(t, o[i]) ELSE <<>>) \in Seq(RowType)
    BY WithinTypes, EmptySeq
  <2>5. QED
    BY <2>3, <2>4, ConcatProperties DEF Branch
<1>3. \A i \in 1 .. n : Branches(t)[i] = Branch(t, o[i])
  BY <1>1 DEF Branches
<1>4. Branches(t) = [i \in 1 .. n |-> Branches(t)[i]]
  BY <1>1 DEF Branches
<1> HIDE DEF n, o
<1>5. Branches(t) \in [1 .. n -> Seq(RowType)]
  BY <1>2, <1>3, <1>4
<1>6. Branches(t) \in Seq(Seq(RowType)) /\ Len(Branches(t)) = n
  BY <1>1, <1>5
<1>7. QED
  BY <1>1, <1>3, <1>6 DEF n, o

(* The rows of one more entry of the root directory.                           *)
LEMMA DrawnGrows ==
  ASSUME NEW t \in Trees, NEW n \in Nat
  PROVE  /\ Drawn(t, 0) = <<>> /\ Drawn(t, n) \in Seq(RowType)
         /\ n < Cardinality(Children(t, Root)) =>
              Drawn(t, n + 1) = Drawn(t, n) \o Branch(t, InOrder(t, Root)[n + 1])
         /\ n >= Cardinality(Children(t, Root)) => Drawn(t, n) = FlattenSeq(Branches(t))
<1> DEFINE b == Branches(t)
           k == Cardinality(Children(t, Root))
<1>1. /\ b \in Seq(Seq(RowType)) /\ Len(b) = k /\ k \in Nat
      /\ \A i \in 1 .. k : b[i] = Branch(t, InOrder(t, Root)[i])
  BY BranchTypes, ChildrenInOrder
<1>2. Drawn(t, n) = FlattenSeq(Before(b, n)) /\ Drawn(t, 0) = FlattenSeq(Before(b, 0))
      /\ Drawn(t, n + 1) = FlattenSeq(Before(b, n + 1))
  BY DEF Drawn
<1> HIDE DEF b, k
<1>3. Drawn(t, 0) = <<>>
  BY <1>1, <1>2, FlattenOfNone
<1>4. n >= k => Before(b, n) = b /\ Before(b, k) = b
  BY <1>1, BeforeGrows
<1>5. Drawn(t, n) \in Seq(RowType)
  <2>1. \A j \in 0 .. k : FlattenSeq(Before(b, j)) \in Seq(RowType)
    BY <1>1, FlattenTypes
  <2>2. CASE n >= k
    <3>1. k \in 0 .. k
      BY <1>1
    <3>2. QED
      BY <1>2, <1>4, <2>1, <2>2, <3>1
  <2>3. CASE ~(n >= k)
    <3>1. n \in 0 .. k
      BY <1>1, <2>3
    <3>2. QED
      BY <1>2, <2>1, <3>1
  <2>4. QED
    BY <2>2, <2>3
<1>6. n < k => Drawn(t, n + 1) = Drawn(t, n) \o Branch(t, InOrder(t, Root)[n + 1])
  <2>1. SUFFICES ASSUME n < k
                 PROVE  Drawn(t, n + 1) = Drawn(t, n) \o Branch(t, InOrder(t, Root)[n + 1])
    OBVIOUS
  <2>2. n + 1 \in 1 .. k
    BY <1>1, <2>1
  <2>3. Drawn(t, n + 1) = Drawn(t, n) \o b[n + 1]
    BY <1>1, <1>2, <1>5, <2>1, FlattenGrows
  <2>4. QED
    BY <1>1, <2>2, <2>3
<1>7. n >= k => Drawn(t, n) = FlattenSeq(b)
  BY <1>2, <1>4
<1>8. QED
  BY <1>3, <1>5, <1>6, <1>7 DEF b, k

(* The rows of one more entry of a directory below it.                         *)
LEMMA DrawnWithinGrows ==
  ASSUME NEW t \in Trees, NEW d \in Dirs(t), NEW p \in Nat,
         NEW n, n = Cardinality(Children(t, d))
  PROVE  /\ DrawnWithin(t, d, p) \in Seq(RowType)
         /\ DrawnWithin(t, d, 0) = <<<<1, t.name[d]>>>>
         /\ p < 2 => DrawnWithin(t, d, p + 1) = DrawnWithin(t, d, p)
         /\ p >= 2 /\ p - 2 < n =>
              DrawnWithin(t, d, p + 1)
                = Append(DrawnWithin(t, d, p), <<2, t.name[InOrder(t, d)[p - 1]]>>)
         /\ p >= 2 /\ p - 2 >= n =>
              /\ DrawnWithin(t, d, p + 1) = DrawnWithin(t, d, p)
              /\ DrawnWithin(t, d, p) = Branch(t, d)
<1> DEFINE w == Within(t, d)
           h == <<<<1, t.name[d]>>>>
<1>1. /\ w \in Seq(RowType) /\ Len(w) = n /\ n \in Nat
      /\ \A i \in 1 .. n : w[i] = <<2, t.name[InOrder(t, d)[i]]>>
  BY WithinTypes, ChildrenInOrder
<1>2. h \in Seq(RowType)
  <2>1. t.name[d] \in Names
    BY TreeTypes DEF Dirs
  <2>2. <<1, t.name[d]>> \in RowType
    BY <2>1 DEF RowType
  <2>3. QED
    BY <2>2
<1>3. \A q \in Nat : DrawnWithin(t, d, q) = h \o Before(w, IF q < 2 THEN 0 ELSE q - 2)
  BY DEF DrawnWithin
<1>4. Branch(t, d) = h \o w
  BY DEF Branch, Dirs
<1> HIDE DEF w, h
<1>5. Before(w, 0) = <<>> /\ \A q \in Nat : Before(w, q) \in Seq(RowType)
  <2>1. \A q \in 0 .. n : Before(w, q) \in Seq(RowType)
    BY <1>1, BeforeIs
  <2>2. \A q \in Nat : q >= n => Before(w, q) = w
    BY <1>1, BeforeGrows
  <2>3. \A q \in Nat : q \in 0 .. n \/ q >= n
    BY <1>1
  <2>4. QED
    BY <1>1, <2>1, <2>2, <2>3, BeforeGrows
<1>6. DrawnWithin(t, d, p) \in Seq(RowType)
  <2>1. (IF p < 2 THEN 0 ELSE p - 2) \in Nat
    OBVIOUS
  <2>2. Before(w, IF p < 2 THEN 0 ELSE p - 2) \in Seq(RowType)
    BY <1>5, <2>1
  <2>3. QED
    BY <1>2, <1>3, <2>2, ConcatProperties
<1>7. DrawnWithin(t, d, 0) = h
  <2>1. DrawnWithin(t, d, 0) = h \o Before(w, 0)
    BY <1>3
  <2>2. QED
    BY <1>2, <1>5, <2>1, ConcatEmptySeq
<1>8. p < 2 => DrawnWithin(t, d, p + 1) = DrawnWithin(t, d, p)
  <2>1. SUFFICES ASSUME p < 2
                 PROVE  DrawnWithin(t, d, p + 1) = DrawnWithin(t, d, p)
    OBVIOUS
  <2>2. DrawnWithin(t, d, p) = h \o Before(w, 0)
    BY <1>3, <2>1
  <2>3. ASSUME NEW q \in Nat, q = p + 1
        PROVE  DrawnWithin(t, d, q) = h \o Before(w, 0)
    <3>1. (IF q < 2 THEN 0 ELSE q - 2) = 0
      BY <2>1, <2>3
    <3>2. QED
      BY <1>3, <3>1
  <2>4. DrawnWithin(t, d, p + 1) = h \o Before(w, 0)
    BY <2>3
  <2>5. QED
    BY <2>2, <2>4
<1>9. ASSUME p >= 2
      PROVE  /\ DrawnWithin(t, d, p) = h \o Before(w, p - 2)
             /\ DrawnWithin(t, d, p + 1) = h \o Before(w, (p - 2) + 1)
             /\ p - 2 \in Nat
  <2>1. ~(p < 2) /\ ~(p + 1 < 2) /\ (p + 1) - 2 = (p - 2) + 1 /\ p - 2 \in Nat /\ p + 1 \in Nat
    BY <1>9
  <2>2. ASSUME NEW q \in Nat, q >= 2, NEW k, k = q - 2
        PROVE  DrawnWithin(t, d, q) = h \o Before(w, k)
    <3>1. (IF q < 2 THEN 0 ELSE q - 2) = k
      BY <2>2
    <3>2. QED
      BY <1>3, <3>1
  <2>3. DrawnWithin(t, d, p) = h \o Before(w, p - 2)
    BY <1>9, <2>2
  <2>4. p + 1 >= 2
    BY <1>9
  <2>5. DrawnWithin(t, d, p + 1) = h \o Before(w, (p - 2) + 1)
    BY <2>1, <2>2, <2>4
  <2>6. QED
    BY <2>1, <2>3, <2>5
<1>10. ASSUME p >= 2, p - 2 < n
       PROVE  DrawnWithin(t, d, p + 1)
                = Append(DrawnWithin(t, d, p), <<2, t.name[InOrder(t, d)[p - 1]]>>)
  <2> DEFINE q == p - 2
             x == w[q + 1]
  <2>1. q \in Nat /\ q + 1 \in 1 .. n /\ q + 1 = p - 1
    BY <1>1, <1>10
  <2>2. x = <<2, t.name[InOrder(t, d)[p - 1]]>> /\ x \in RowType
    BY <1>1, <2>1, ElementOfSeq
  <2>3. Before(w, q + 1) = Append(Before(w, q), x) /\ Before(w, q) \in Seq(RowType)
    BY <1>1, <1>5, <1>10, <2>1, BeforeGrows
  <2>4. DrawnWithin(t, d, p + 1) = h \o Before(w, q + 1) /\ DrawnWithin(t, d, p) = h \o Before(w, q)
    BY <1>9, <1>10
  <2> HIDE DEF x, q
  <2>5. h \o Append(Before(w, q), x) = Append(h \o Before(w, q), x)
    BY <1>2, <2>2, <2>3, AppendToConcat
  <2>6. QED
    BY <2>2, <2>3, <2>4, <2>5
<1>11. ASSUME p >= 2, p - 2 >= n
       PROVE  /\ DrawnWithin(t, d, p + 1) = DrawnWithin(t, d, p)
              /\ DrawnWithin(t, d, p) = Branch(t, d)
  <2> DEFINE q == p - 2
  <2>1. q \in Nat /\ q + 1 \in Nat /\ q >= n /\ q + 1 >= n
    BY <1>1, <1>11
  <2>2. DrawnWithin(t, d, p + 1) = h \o Before(w, q + 1) /\ DrawnWithin(t, d, p) = h \o Before(w, q)
    BY <1>9, <1>11
  <2> HIDE DEF q
  <2>3. Before(w, q) = w /\ Before(w, q + 1) = w
    BY <1>1, <2>1, BeforeGrows
  <2>4. QED
    BY <1>4, <2>2, <2>3
<1>12. QED
  BY <1>6, <1>7, <1>8, <1>10, <1>11 DEF h

-------------------------------------------------------------------------------
(* What steps inside a command leave alone.                                    *)

LEMMA DirectoryStays ==
  ASSUME SearchInv, UNCHANGED <<tree, directory_vars>>
  PROVE  /\ tree' = tree /\ Here' = Here
         /\ AtRoot' = AtRoot
         /\ PromptNamesDirectory'
         /\ tree' \in Trees /\ (Here \in Dirs(tree) \cup {Root})'
         /\ (current_directory_offset = IF Here = Root THEN RootSector ELSE Here)'
<1>1. /\ tree' = tree /\ current_directory_entry' = current_directory_entry
      /\ current_directory_offset' = current_directory_offset
      /\ current_directory' = current_directory
  BY DEF directory_vars
<1>2. Here' = Here /\ AtRoot' = AtRoot
  BY <1>1 DEF Here, AtRoot
<1>3. PathOf(Here)' = PathOf(Here)
  BY <1>1, <1>2 DEF PathOf
<1>4. PromptNamesDirectory'
  BY <1>1, <1>3 DEF SearchInv, PromptNamesDirectory
<1>5. QED
  BY <1>1, <1>2, <1>4 DEF SearchInv, TypeOK

(* Going on to the next entry.                                                 *)
LEMMA EntryPassed ==
  ASSUME SearchInv, More, Advance, UNCHANGED <<tree, directory_vars, pc, cmd>>
  PROVE  /\ frames' \in Seq(ScanFrames(tree')) /\ Len(frames') \in 1 .. 2
         /\ Nesting'
         /\ Scan'.dir = Scan.dir /\ Passed(Scan)' = Passed(Scan) + 1
         /\ Scan'.i = Scan.i + 1
         /\ Len(frames') = Len(frames)
         /\ Len(frames) = 2 => frames'[2] = frames[2]
<1> DEFINE g == [Scan EXCEPT !.i = @ + 1]
<1>1. /\ pc = "scan" /\ Scan.i < LoopBound(Scan) /\ ~is_end_of_chain(Scan.cluster)
      /\ pos = <<Scan.cluster, Scan.i>>
  BY DEF More, InRoot, LoopBound, SearchInv, Nesting
<1>2. /\ g \in FrameType
      /\ g.dir = Scan.dir /\ g.cluster = Scan.cluster /\ g.i = Scan.i + 1
      /\ Placed(g) /\ Passed(g) = Passed(Scan) + 1
  BY <1>1, ScanFacts, ScanAdvances
<1>3. g \in ScanFrames(tree)
  BY <1>1, <1>2, ScanFacts, FrameOfTree
<1>4. frames' = <<g>> \o Tail(frames) /\ pos' = <<pos[1], pos[2] + 1>>
  BY DEF Advance, Advanced
<1> HIDE DEF g
<1>5. /\ frames' \in Seq(ScanFrames(tree)) /\ Len(frames') = Len(frames)
      /\ frames'[1] = g /\ Head(frames') = g
      /\ Len(frames) = 2 => frames'[2] = frames[2]
  BY <1>1, <1>3, <1>4, ScanFacts, TopReplaced
<1>6. Scan' = g
  BY <1>5 DEF Scan
<1>7. frames' \in Seq(ScanFrames(tree')) /\ Len(frames') \in 1 .. 2
  BY <1>1, <1>5, ScanFacts
<1>8. \A k \in DOMAIN frames' : Placed(frames'[k])
  <2>1. DOMAIN frames' = 1 .. Len(frames)
    BY <1>5, LenProperties
  <2>2. QED
    BY <1>1, <1>2, <1>5, <2>1, ScanFacts
<1>9. pos' = <<Scan'.cluster, Scan'.i>>
  BY <1>1, <1>2, <1>4, <1>6
<1>10. IF Len(frames') = 2 THEN cmd'.op = "tree" /\ Scan'.dir # Root /\ frames'[2].dir = Root
       ELSE Scan'.dir = IF cmd'.op \in {"info", "tree"} \/ AtRoot' THEN Root ELSE Here'
  <2>1. IF Len(frames) = 2 THEN cmd.op = "tree" /\ Scan.dir # Root /\ frames[2].dir = Root
        ELSE Scan.dir = IF cmd.op \in {"info", "tree"} \/ AtRoot THEN Root ELSE Here
    BY <1>1 DEF SearchInv, Nesting
  <2>2. QED
    BY <1>2, <1>5, <1>6, <2>1, DirectoryStays
<1>11. Nesting'
  BY <1>8, <1>9, <1>10 DEF Nesting
<1>12. QED
  BY <1>2, <1>5, <1>6, <1>7, <1>11

LEMMA ListingNames ==
  ASSUME NEW t \in Trees, NEW d \in Dirs(t) \cup {Root}
  PROVE  /\ Listing(t, d) \in Seq({Contents(t, d)[i].name : i \in 1 .. Len(Contents(t, d))})
         /\ Len(Listing(t, d)) = Len(Contents(t, d)) /\ Len(Contents(t, d)) \in Nat
         /\ \A i \in 1 .. Len(Contents(t, d)) : Listing(t, d)[i] = Contents(t, d)[i].name
<1>1. Contents(t, d) \in Seq(Entries(t))
  BY DirectoryHolds DEF Dirs
<1>2. DOMAIN Contents(t, d) = 1 .. Len(Contents(t, d)) /\ Len(Contents(t, d)) \in Nat
  BY <1>1, LenProperties
<1> DEFINE n == Len(Contents(t, d))
           N == {Contents(t, d)[i].name : i \in 1 .. n}
<1>3. Listing(t, d) = [i \in 1 .. n |-> Contents(t, d)[i].name]
  BY <1>2 DEF Listing
<1>4. Listing(t, d) \in [1 .. n -> N]
  BY <1>3
<1>5. n \in Nat
  BY <1>2
<1> HIDE DEF n, N
<1>6. Listing(t, d) \in Seq(N) /\ Len(Listing(t, d)) = n
  BY <1>4, <1>5
<1>7. QED
  BY <1>3, <1>5, <1>6 DEF n, N

-------------------------------------------------------------------------------
(* The steps.                                                                  *)

LEMMA InitHolds ==
  ASSUME PlainImage, Init
  PROVE  SearchInv
<1>1. /\ frames = <<Frame(Root)>> /\ Scan = Frame(Root)
      /\ DOMAIN frames = {1} /\ frames[1] = Frame(Root) /\ Len(frames) = 1
  <2>1. frames = <<Frame(Root)>>
    BY DEF Init
  <2>2. QED
    BY <2>1 DEF Scan
<1>2. /\ Frame(Root) \in FrameType
      /\ Frame(Root).dir = Root /\ Frame(Root).cluster = Root /\ Frame(Root).i = 0
      /\ Placed(Frame(Root))
  BY ScanStarts
<1>3. frames \in Seq(ScanFrames(tree))
  BY <1>1, <1>2, FrameOfTree
<1>4. Here = Root
  BY DEF Init, Here, Root
<1>5. cmd \in Arguments /\ cmd.op = "tree" /\ pc = "scan" /\ pos = <<Root, 0>>
  BY DEF Init, Arguments
<1>6. file \in [cluster : Clusters \cup {0} \cup Marker .. EndOfChain, left : Nat]
  BY DEF Init
<1>7. TypeOK
  <2>1. tree \in Trees /\ current_directory_offset = RootSector
    BY DEF Init
  <2>2. Len(frames) \in 1 .. 2
    BY <1>1
  <2>3. QED
    BY <1>3, <1>4, <1>5, <1>6, <2>1, <2>2 DEF TypeOK
<1>8. PromptNamesDirectory
  BY <1>4 DEF Init, PromptNamesDirectory, PathOf
<1>9. Nesting
  BY <1>1, <1>2, <1>5 DEF Nesting
<1>10. Searching /\ Copying /\ ListsDirectory /\ ReadsFile
  BY <1>5 DEF Searching, Copying, ListsDirectory, ReadsFile, Done
<1>11. QED
  BY <1>7, <1>8, <1>9, <1>10 DEF SearchInv

(* A command starts before the first entry of the directory it scans.          *)
LEMMA CommandStep ==
  ASSUME PlainImage, SearchInv, NEW a \in Arguments, Command(a)
  PROVE  SearchInv'
<1> DEFINE d == IF a.op \in {"info", "tree"} \/ AtRoot THEN Root ELSE current_directory_entry
<1>1. /\ frames' = <<Frame(d)>> /\ pos' = <<d, 0>> /\ cmd' = a /\ pc' = "scan"
      /\ output' = <<>> /\ file' = file /\ UNCHANGED <<tree, directory_vars>>
  BY DEF Command
<1>2. d \in Dirs(tree) \cup {Root} /\ d \in Items \cup {Root}
  BY DEF SearchInv, TypeOK, Here, Dirs
<1>3. d = IF a.op \in {"info", "tree"} \/ AtRoot' THEN Root ELSE Here'
  BY <1>1, DirectoryStays DEF Here
<1> HIDE DEF d
<1>4. /\ Frame(d) \in FrameType
      /\ Frame(d).dir = d /\ Frame(d).cluster = d /\ Frame(d).i = 0
      /\ Placed(Frame(d)) /\ Passed(Frame(d)) = 0
  BY <1>2, ScanStarts
<1>5. /\ DOMAIN frames' = {1} /\ frames'[1] = Frame(d) /\ Len(frames') = 1
      /\ Scan' = Frame(d)
  BY <1>1 DEF Scan
<1>6. frames' \in Seq(ScanFrames(tree'))
  <2>1. Frame(d) \in ScanFrames(tree')
    BY <1>1, <1>2, <1>4, FrameOfTree, DirectoryStays
  <2>2. QED
    BY <1>1, <2>1
<1>7. TypeOK'
  BY <1>1, <1>5, <1>6, DirectoryStays DEF SearchInv, TypeOK
<1>8. Nesting'
  BY <1>1, <1>3, <1>4, <1>5 DEF Nesting
<1>9. Searching'
  <2>1. Passed(Scan)' = 0
    BY <1>4, <1>5
  <2>2. Before(Listing(tree', Here'), 0) = <<>>
    BY DirectoryStays, <1>1, ListingNames, BeforeGrows
  <2>3. \A i \in DOMAIN Contents(tree', Here') : ~(i <= 0)
    <3>1. tree' \in Trees /\ Here' \in Items \cup {Root}
      BY <1>1, DirectoryStays DEF Dirs
    <3>2. DOMAIN Contents(tree', Here') = 1 .. Len(Contents(tree', Here'))
      BY <3>1, DirectoryHolds, LenProperties
    <3>3. QED
      BY <3>2
  <2>4. QED
    BY <1>1, <2>1, <2>2, <2>3 DEF Searching
<1>10. Copying' /\ ListsDirectory' /\ ReadsFile'
  BY <1>1 DEF Copying, ListsDirectory, ReadsFile, Done
<1>11. QED
  BY <1>1, <1>7, <1>8, <1>9, <1>10, DirectoryStays DEF SearchInv

LEMMA ExitStep ==
  ASSUME SearchInv, Exit
  PROVE  SearchInv'
<1>1. UNCHANGED <<tree, directory_vars>> /\ pc' = "exited" /\ UNCHANGED <<cmd, frames, file>>
  BY DEF Exit
<1>2. TypeOK'
  BY <1>1, DirectoryStays DEF SearchInv, TypeOK
<1>3. Nesting' /\ Searching' /\ Copying' /\ ListsDirectory' /\ ReadsFile'
  BY <1>1 DEF Nesting, Searching, Copying, ListsDirectory, ReadsFile, Done
<1>4. QED
  BY <1>1, <1>2, <1>3, DirectoryStays DEF SearchInv

(* While cd, ls or read scan, they scan the current directory.                 *)
LEMMA ScansHere ==
  ASSUME PlainImage, SearchInv, pc = "scan", cmd.op \in {"ls", "cd", "read"}
  PROVE  Scan.dir = Here /\ Len(frames) = 1
<1>1. Len(frames) # 2
  BY DEF SearchInv, Nesting
<1>2. Len(frames) = 1
  BY <1>1, ScanFacts
<1>3. Scan.dir = IF AtRoot THEN Root ELSE Here
  BY <1>1 DEF SearchInv, Nesting
<1>4. QED
  BY <1>2, <1>3, RootIsRecognised

(* The next entry of the directory, if any.                                    *)
LEMMA EntryAhead ==
  ASSUME tree \in Trees, NEW d \in Dirs(tree) \cup {Root}, NEW n \in Nat,
         NEW e, e = Nth(Contents(tree, d), n)
  PROVE  /\ Len(Contents(tree, d)) \in Nat
         /\ DOMAIN Contents(tree, d) = 1 .. Len(Contents(tree, d))
         /\ n < Len(Contents(tree, d)) => e = Contents(tree, d)[n + 1] /\ e # Free
         /\ ~(n < Len(Contents(tree, d))) => e = Free
<1>1. Contents(tree, d) \in Seq(Entries(tree))
  BY DirectoryHolds DEF Dirs
<1>2. Len(Contents(tree, d)) \in Nat /\ DOMAIN Contents(tree, d) = 1 .. Len(Contents(tree, d))
  BY <1>1, LenProperties
<1>3. ASSUME n < Len(Contents(tree, d))
      PROVE  e = Contents(tree, d)[n + 1] /\ e # Free
  <2>1. n + 1 \in 1 .. Len(Contents(tree, d)) /\ e = Contents(tree, d)[n + 1]
    BY <1>2, <1>3 DEF Nth
  <2>2. QED
    BY <2>1, EntryOfDirectory
<1>4. ~(n < Len(Contents(tree, d))) => e = Free
  BY DEF Nth
<1>5. QED
  BY <1>2, <1>3, <1>4

LEMMA ListStep ==
  ASSUME PlainImage, SearchInv, ListEntry
  PROVE  SearchInv'
<1>1. /\ More /\ Advance /\ pc = "scan" /\ pc' = "scan" /\ cmd' = cmd /\ file' = file
      /\ cmd.op \in {"ls", "info"}
      /\ UNCHANGED <<tree, directory_vars, pc, cmd>>
  BY DEF ListEntry, More
<1>2. TypeOK'
  BY <1>1, EntryPassed, DirectoryStays DEF SearchInv, TypeOK
<1>3. Searching'
  <2>1. CASE cmd.op = "info"
    BY <1>1, <2>1 DEF Searching
  <2>2. CASE cmd.op = "ls"
    <3> DEFINE n == Passed(Scan)
               L == Listing(tree, Here)
    <3>1. Scan.dir = Here /\ n \in Nat /\ tree \in Trees /\ Here \in Dirs(tree) \cup {Root}
      BY <1>1, <2>2, ScansHere, ScanFacts DEF SearchInv, TypeOK
    <3>2. PICK e \in {Nth(Contents(tree, Here), n)} :
            output' = IF e = Free THEN output ELSE Append(output, e.name)
      BY <1>1, <3>1, NextEntry DEF ListEntry
    <3>3. output = Before(L, n)
      BY <1>1, <2>2 DEF SearchInv, Searching
    <3>4. /\ n < Len(Contents(tree, Here)) =>
               Before(L, n + 1) = Append(Before(L, n), Contents(tree, Here)[n + 1].name)
          /\ n >= Len(Contents(tree, Here)) => Before(L, n + 1) = Before(L, n)
      <4>1. /\ L \in Seq({Contents(tree, Here)[i].name : i \in 1 .. Len(Contents(tree, Here))})
            /\ Len(L) = Len(Contents(tree, Here)) /\ Len(L) \in Nat
            /\ \A i \in 1 .. Len(L) : L[i] = Contents(tree, Here)[i].name
        BY <3>1, ListingNames
      <4> HIDE DEF L, n
      <4>2. /\ n < Len(L) => Before(L, n + 1) = Append(Before(L, n), L[n + 1])
            /\ n >= Len(L) => Before(L, n) = L
            /\ n + 1 >= Len(L) => Before(L, n + 1) = L
        <5>1. n + 1 \in Nat
          BY <3>1
        <5>2. QED
          BY <3>1, <4>1, <5>1, BeforeGrows
      <4>3. n < Len(L) => n + 1 \in 1 .. Len(L)
        BY <3>1, <4>1
      <4>4. n >= Len(L) => n + 1 >= Len(L)
        BY <3>1, <4>1
      <4>5. QED
        BY <4>1, <4>2, <4>3, <4>4
    <3>5. output' = Before(L, n + 1)
      <4>1. e = Nth(Contents(tree, Here), n)
        BY <3>2
      <4>2. /\ Len(Contents(tree, Here)) \in Nat
            /\ n < Len(Contents(tree, Here)) => e = Contents(tree, Here)[n + 1] /\ e # Free
            /\ ~(n < Len(Contents(tree, Here))) => e = Free
        BY <3>1, <4>1, EntryAhead
      <4> HIDE DEF L, n
      <4>3. CASE n < Len(Contents(tree, Here))
        BY <3>2, <3>3, <3>4, <4>2, <4>3
      <4>4. CASE ~(n < Len(Contents(tree, Here)))
        <5>1. n >= Len(Contents(tree, Here))
          BY <3>1, <4>2, <4>4
        <5>2. QED
          BY <3>2, <3>3, <3>4, <4>2, <4>4, <5>1
      <4>5. QED
        BY <4>3, <4>4
    <3>6. Passed(Scan)' = n + 1 /\ tree' = tree /\ Here' = Here
      BY <1>1, EntryPassed, DirectoryStays
    <3>7. output' = Before(Listing(tree', Here'), Passed(Scan)')
      BY <3>5, <3>6
    <3>8. QED
      BY <1>1, <2>2, <3>7 DEF Searching
  <2>3. QED
    BY <1>1, <2>1, <2>2
<1>4. Copying' /\ ListsDirectory' /\ ReadsFile'
  BY <1>1 DEF Copying, ListsDirectory, ReadsFile, Done
<1>5. QED
  BY <1>1, <1>2, <1>3, <1>4, EntryPassed, DirectoryStays DEF SearchInv

(* The directories that cd finds: those in the root, and the dots below it.    *)
LEMMA DirectoryFound ==
  ASSUME PlainImage, tree \in Trees, Here \in Dirs(tree) \cup {Root},
         NEW i \in 1 .. Len(Contents(tree, Here)), NEW e, e = Contents(tree, Here)[i],
         IsDirectory(e)
  PROVE  \/ Here # Root /\ e.name = "." /\ e.first = Here
         \/ Here # Root /\ e.name = ".." /\ e.first = Root
         \/ /\ Here = Root
            /\ \E c \in Children(tree, Root) :
                 c \in Dirs(tree) /\ e.first = c /\ e.name = tree.name[c]
<1>1. CASE \E c \in Children(tree, Here) : e = Entry(tree, c)
  <2>1. PICK c \in Children(tree, Here) : e = Entry(tree, c)
    BY <1>1
  <2>2. e.kind = "dir" /\ e.name = tree.name[c] /\ e.first = c /\ c \in Dirs(tree)
    BY <2>1, EntryFields DEF IsDirectory, Dirs, Children
  <2>3. tree.up[c] = Here /\ tree.up[c] = Root
    BY <2>1, <2>2, TreeTypes DEF PlainImage, Children
  <2>4. QED
    BY <2>1, <2>2, <2>3
<1>2. CASE /\ Here # Root
           /\ \/ e.name = "." /\ e.first = Here
              \/ e.name = ".." /\ e.first = tree.up[Here]
  <2>1. tree.up[Here] = Root
    BY <1>2, TreeTypes DEF PlainImage
  <2>2. QED
    BY <1>2, <2>1
<1>3. QED
  BY <1>1, <1>2, EntryOfDirectory

(* What cd changes, and what CdFollowsTree says of a step.                     *)
CdFollows ==
  Here' = IF cmd.op = "cd" /\ pc = "scan" /\ pc' = "prompt" THEN Resolve(tree, Here, cmd.name)
          ELSE Here

LEMMA SecondAdded ==
  ASSUME NEW S, NEW r \in Seq(S), Len(r) = 1, NEW x \in S
  PROVE  /\ Append(r, x) \in Seq(S) /\ Len(Append(r, x)) = 2
         /\ Append(r, x)[1] = r[1] /\ Append(r, x)[2] = x
<1>1. /\ Append(r, x) \in Seq(S) /\ Len(Append(r, x)) = Len(r) + 1
      /\ \A i \in 1 .. Len(r) : Append(r, x)[i] = r[i]
      /\ Append(r, x)[Len(r) + 1] = x
  BY AppendProperties
<1>2. 1 \in 1 .. Len(r) /\ Len(r) + 1 = 2
  OBVIOUS
<1>3. QED
  BY <1>1, <1>2, Zenon

LEMMA PathEnds ==
  ASSUME NEW n
  PROVE  /\ RemoveRight(<<"root", n>>) = <<"root">>
         /\ Append(<<"root">>, n) = <<"root", n>>
<1> DEFINE path == <<"root", n>>
<1>1. /\ path \in Seq({"root", n}) /\ Len(path) = 2
      /\ path[1] = "root" /\ path[2] = n /\ path # <<>>
  OBVIOUS
<1>2. <<"root">> \in Seq({"root", n}) /\ Len(<<"root">>) = 1 /\ <<"root">>[1] = "root"
  OBVIOUS
<1> HIDE DEF path
<1>3. SubSeq(path, 1, 1) = <<path[1]>> \o SubSeq(path, 2, 1)
  BY <1>1, SubSeqRecursiveFirst
<1>4. SubSeq(path, 2, 1) = <<>>
  BY SubSeqEmpty
<1>5. SubSeq(path, 1, 1) = <<"root">>
  BY <1>1, <1>2, <1>3, <1>4, ConcatEmptySeq
<1>6. RemoveRight(path) = <<"root">>
  BY <1>1, <1>5 DEF RemoveRight, Front
<1>7. Append(<<"root">>, n) = path
  <2>1. PICK S, r :
          /\ r \in Seq(S) /\ n \in S /\ path \in Seq(S)
          /\ r = <<"root">> /\ Len(r) = 1 /\ r[1] = "root"
    BY <1>1, <1>2
  <2>2. r \in Seq(S) /\ n \in S /\ Len(r) = 1 /\ r[1] = "root"
    BY <2>1
  <2>3. /\ Append(r, n) \in Seq(S) /\ Len(Append(r, n)) = 2
        /\ Append(r, n)[1] = "root" /\ Append(r, n)[2] = n
    BY <2>2, SecondAdded
  <2>4. \A i \in 1 .. 2 : Append(r, n)[i] = path[i]
    BY <1>1, <2>3
  <2>5. Append(r, n) = path
    BY <1>1, <2>1, <2>2, <2>3, <2>4, SeqEqual
  <2>6. QED
    BY <2>1, <2>5
<1>8. QED
  BY <1>6, <1>7 DEF path

LEMMA DirectoryEntered ==
  ASSUME PlainImage, SearchInv, NEW i \in 1 .. Len(Contents(tree, Here)),
         NEW e, e = Contents(tree, Here)[i], IsDirectory(e), e.name = cmd.name,
         Enter(e), tree' = tree
  PROVE  /\ Here' \in Dirs(tree) \cup {Root}
         /\ current_directory_offset' = IF Here' = Root THEN RootSector ELSE Here'
         /\ PromptNamesDirectory'
         /\ Here' = Resolve(tree, Here, cmd.name)
<1>1. /\ tree \in Trees /\ Here \in Dirs(tree) \cup {Root}
      /\ current_directory = PathOf(Here)
      /\ current_directory_entry = Here /\ current_directory_entry' = Here'
      /\ current_directory_offset = IF Here = Root THEN RootSector ELSE Here
  BY DEF SearchInv, TypeOK, PromptNamesDirectory, Here
<1>2. AtRoot <=> Here = Root
  BY RootIsRecognised
<1>3. CASE Here # Root /\ e.name = "." /\ e.first = Here
  <2>1. Here' = Here /\ current_directory_offset' = Here /\ current_directory' = current_directory
    BY <1>1, <1>2, <1>3 DEF Enter, Root
  <2>2. Resolve(tree, Here, ".") = Here
    <3>1. \A c \in Children(tree, Here) : tree.kind[c] # "dir"
      BY <1>1, <1>3, TreeTypes DEF PlainImage, Children, Dirs
    <3>2. {c \in Children(tree, Here) : tree.kind[c] = "dir" /\ tree.name[c] = "."} = {}
      BY <3>1
    <3>3. QED
      BY <3>2 DEF Resolve
  <2>3. PathOf(Here)' = PathOf(Here)
    BY <2>1 DEF PathOf
  <2>4. QED
    BY <1>1, <1>3, <2>1, <2>2, <2>3 DEF PromptNamesDirectory
<1>4. CASE Here # Root /\ e.name = ".." /\ e.first = Root
  <2>1. /\ Here' = Root /\ current_directory_offset' = RootSector
        /\ current_directory' = RemoveRight(current_directory)
    BY <1>1, <1>2, <1>4 DEF Enter, Root
  <2>2. current_directory = <<"root", tree.name[Here]>>
    BY <1>1, <1>4 DEF PathOf
  <2>3. current_directory' = <<"root">>
    BY <2>1, <2>2, PathEnds
  <2>4. PromptNamesDirectory'
    BY <2>1, <2>3 DEF PromptNamesDirectory, PathOf
  <2>5. Resolve(tree, Here, "..") = Root
    BY <1>1, <1>4, TreeTypes DEF PlainImage, Resolve
  <2>6. QED
    BY <1>4, <2>1, <2>4, <2>5
<1>5. CASE /\ Here = Root
           /\ \E c \in Children(tree, Root) :
                c \in Dirs(tree) /\ e.first = c /\ e.name = tree.name[c]
  <2>1. PICK c \in Children(tree, Root) : c \in Dirs(tree) /\ e.first = c /\ e.name = tree.name[c]
    BY <1>5
  <2>2. /\ Here' = c /\ current_directory_offset' = c
        /\ current_directory' = Append(current_directory, cmd.name)
    BY <1>1, <1>2, <1>5, <2>1 DEF Enter
  <2>3. c # Root
    BY <2>1, ClusterNumbers DEF Dirs
  <2>4. current_directory' = <<"root", tree.name[c]>>
    BY <1>1, <1>5, <2>1, <2>2, PathEnds DEF PathOf
  <2>5. PromptNamesDirectory'
    BY <2>2, <2>3, <2>4 DEF PromptNamesDirectory, PathOf
  <2>6. Resolve(tree, Root, tree.name[c]) = c
    <3>1. c \in {b \in Children(tree, Root) : tree.kind[b] = "dir" /\ tree.name[b] = tree.name[c]}
      BY <2>1 DEF Dirs
    <3>2. \A b \in {b \in Children(tree, Root) : tree.kind[b] = "dir" /\ tree.name[b] = tree.name[c]} : b = c
      BY <1>1, <2>1, TreeTypes
    <3>3. QED
      BY <3>1, <3>2 DEF Resolve
  <2>7. QED
    BY <1>5, <2>1, <2>2, <2>3, <2>5, <2>6
<1>6. QED
  BY <1>1, <1>3, <1>4, <1>5, DirectoryFound

(* A scan that goes on to the next entry has passed one more of them.          *)
LEMMA SearchGoesOn ==
  ASSUME PlainImage, SearchInv, More, Advance, UNCHANGED <<tree, directory_vars, pc, cmd>>,
         cmd.op \in {"cd", "read"}, output' = output,
         NEW e \in EntriesAt(pos),
         cmd.op = "cd" => ~(IsDirectory(e) /\ e.name = cmd.name),
         cmd.op = "read" => ~Matches(e)
  PROVE  Searching'
<1> DEFINE n == Passed(Scan)
           C == Contents(tree, Here)
<1>1. pc = "scan" /\ tree \in Trees /\ Here \in Dirs(tree) \cup {Root}
  BY DEF More, SearchInv, TypeOK
<1>2. Scan.dir = Here /\ n \in Nat
  BY <1>1, ScansHere, ScanFacts
<1>3. e = Nth(C, n)
  BY <1>2, NextEntry
<1>4. /\ Len(C) \in Nat /\ DOMAIN C = 1 .. Len(C)
      /\ n < Len(C) => e = C[n + 1]
  BY <1>1, <1>2, <1>3, EntryAhead
<1>5. /\ tree' = tree /\ Here' = Here /\ cmd' = cmd
      /\ Passed(Scan)' = n + 1
  BY EntryPassed, DirectoryStays
<1>6. \A i \in DOMAIN C :
        i <= n => /\ cmd.op = "cd" => ~(IsDirectory(C[i]) /\ C[i].name = cmd.name)
                  /\ cmd.op = "read" => ~Matches(C[i])
  BY <1>1 DEF SearchInv, Searching
<1> HIDE DEF n, C
<1>7. ASSUME NEW i \in DOMAIN C, i <= n + 1
      PROVE  /\ cmd.op = "cd" => ~(IsDirectory(C[i]) /\ C[i].name = cmd.name)
             /\ cmd.op = "read" => ~Matches(C[i])
  <2>1. CASE i <= n
    BY <1>6, <2>1
  <2>2. CASE ~(i <= n)
    <3>1. i = n + 1 /\ n < Len(C)
      BY <1>2, <1>4, <1>7, <2>2
    <3>2. C[i] = e
      BY <1>4, <3>1
    <3>3. QED
      BY <3>2
  <2>3. QED
    BY <2>1, <2>2
<1>8. \A x : Matches(x)' = Matches(x)
  BY <1>5 DEF Matches
<1>9. Contents(tree', Here') = C
  BY <1>5 DEF C
<1>10. cmd'.op # "ls" /\ (cmd'.op = "read" => output' = <<>>)
  BY <1>1, <1>5 DEF SearchInv, Searching
<1>11. QED
  BY <1>5, <1>7, <1>8, <1>9, <1>10 DEF Searching, IsDirectory

LEMMA CdStep ==
  ASSUME PlainImage, SearchInv, CdEntry
  PROVE  SearchInv' /\ CdFollows
<1>1. More /\ pc = "scan" /\ cmd.op = "cd" /\ UNCHANGED <<tree, cmd, file, output>>
  BY DEF CdEntry, More
<1>2. tree \in Trees /\ Here \in Dirs(tree) \cup {Root}
  BY DEF SearchInv, TypeOK
<1>3. PICK e \in EntriesAt(pos) :
        \/ /\ IsDirectory(e) /\ e.name = cmd.name
           /\ Enter(e)
           /\ pc' = "prompt"
           /\ UNCHANGED <<frames, pos>>
        \/ /\ ~(IsDirectory(e) /\ e.name = cmd.name)
           /\ Advance
           /\ UNCHANGED <<directory_vars, pc>>
  BY DEF CdEntry
<1>4. CASE /\ IsDirectory(e) /\ e.name = cmd.name
           /\ Enter(e)
           /\ pc' = "prompt"
           /\ UNCHANGED <<frames, pos>>
  <2>1. e = Nth(Contents(tree, Here), Passed(Scan)) /\ Passed(Scan) \in Nat
    BY <1>1, <1>3, ScansHere, ScanFacts, NextEntry
  <2>2. e # Free
    BY <1>4 DEF IsDirectory
  <2>3. PICK i \in 1 .. Len(Contents(tree, Here)) : e = Contents(tree, Here)[i]
    <3>1. /\ Len(Contents(tree, Here)) \in Nat
          /\ Passed(Scan) < Len(Contents(tree, Here))
          /\ e = Contents(tree, Here)[Passed(Scan) + 1]
      BY <1>2, <2>1, <2>2, EntryAhead
    <3>2. Passed(Scan) + 1 \in 1 .. Len(Contents(tree, Here))
      BY <2>1, <3>1
    <3>3. QED
      BY <3>1, <3>2
  <2>4. /\ Here' \in Dirs(tree) \cup {Root}
        /\ current_directory_offset' = IF Here' = Root THEN RootSector ELSE Here'
        /\ PromptNamesDirectory'
        /\ Here' = Resolve(tree, Here, cmd.name)
    BY <1>1, <1>4, <2>3, DirectoryEntered
  <2>5. TypeOK'
    BY <1>1, <1>4, <2>4 DEF SearchInv, TypeOK
  <2>6. Nesting' /\ Searching' /\ Copying'
    BY <1>4 DEF Nesting, Searching, Copying
  <2>7. ListsDirectory' /\ ReadsFile'
    BY <1>1 DEF ListsDirectory, ReadsFile, Done
  <2>8. CdFollows
    BY <1>1, <1>4, <2>4 DEF CdFollows
  <2>9. QED
    BY <2>4, <2>5, <2>6, <2>7, <2>8 DEF SearchInv
<1>5. CASE /\ ~(IsDirectory(e) /\ e.name = cmd.name)
           /\ Advance
           /\ UNCHANGED <<directory_vars, pc>>
  <2>1. UNCHANGED <<tree, directory_vars, pc, cmd>> /\ pc' = "scan" /\ file' = file
    BY <1>1, <1>5
  <2>2. TypeOK'
    BY <1>1, <1>5, <2>1, EntryPassed, DirectoryStays DEF SearchInv, TypeOK
  <2>3. Searching'
    BY <1>1, <1>3, <1>5, <2>1, SearchGoesOn
  <2>4. Copying' /\ ListsDirectory' /\ ReadsFile'
    BY <2>1 DEF Copying, ListsDirectory, ReadsFile, Done
  <2>5. CdFollows
    BY <2>1, DirectoryStays DEF CdFollows
  <2>6. QED
    BY <1>1, <1>5, <2>1, <2>2, <2>3, <2>4, <2>5, EntryPassed, DirectoryStays DEF SearchInv
<1>6. QED
  BY <1>3, <1>4, <1>5

(* The file that read finds is the one of that name.                           *)
LEMMA FileFound ==
  ASSUME tree \in Trees, Here \in Dirs(tree) \cup {Root},
         NEW i \in 1 .. Len(Contents(tree, Here)), NEW e, e = Contents(tree, Here)[i],
         Matches(e)
  PROVE  \E c \in Named : e = Entry(tree, c)
<1>1. e.kind \in {"file", "empty"} /\ e.name = cmd.name
  BY DEF Matches
<1>2. PICK c \in Children(tree, Here) : e = Entry(tree, c)
  BY <1>1, EntryOfDirectory
<1>3. tree.name[c] = cmd.name /\ tree.kind[c] \in {"file", "empty"}
  BY <1>1, <1>2, EntryFields
<1>4. QED
  BY <1>2, <1>3 DEF Named

LEMMA DataTypes ==
  ASSUME NEW t, NEW c \in Items
  PROVE  /\ t.kind[c] = "empty" => Data(t, c) = <<>>
         /\ t.kind[c] # "empty" =>
              /\ Data(t, c) \in Seq((2 .. Marker - 1) \X Nat)
              /\ Len(Data(t, c)) = Len(Chain[c])
              /\ \A k \in 1 .. Len(Chain[c]) :
                   Data(t, c)[k] = <<Chain[c][k], IF k < Len(Chain[c]) THEN ClusterSize
                                                  ELSE ClusterSize - 1>>
<1>1. t.kind[c] = "empty" => Data(t, c) = <<>>
  BY DEF Data
<1>2. ASSUME t.kind[c] # "empty"
      PROVE  /\ Data(t, c) \in Seq((2 .. Marker - 1) \X Nat)
             /\ Len(Data(t, c)) = Len(Chain[c])
             /\ \A k \in 1 .. Len(Chain[c]) :
                  Data(t, c)[k] = <<Chain[c][k], IF k < Len(Chain[c]) THEN ClusterSize
                                                 ELSE ClusterSize - 1>>
  <2> DEFINE n == Len(Chain[c])
             S == (2 .. Marker - 1) \X Nat
             p(k) == <<Chain[c][k], IF k < n THEN ClusterSize ELSE ClusterSize - 1>>
  <2>1. n \in Nat /\ DOMAIN Chain[c] = 1 .. n /\ \A k \in 1 .. n : Chain[c][k] \in 2 .. Marker - 1
    BY ChainTypes
  <2>2. ClusterSize \in Nat /\ ClusterSize - 1 \in Nat
    BY ImageAssumption
  <2>3. Data(t, c) = [k \in 1 .. n |-> p(k)]
    BY <1>2, <2>1 DEF Data
  <2>4. \A k \in 1 .. n : p(k) \in S
    BY <2>1, <2>2
  <2> HIDE DEF n, S, p
  <2>5. Data(t, c) \in [1 .. n -> S] /\ \A k \in 1 .. n : Data(t, c)[k] = p(k)
    BY <2>3, <2>4
  <2>6. Data(t, c) \in Seq(S) /\ Len(Data(t, c)) = n
    BY <2>1, <2>5
  <2>7. QED
    BY <2>5, <2>6 DEF n, S, p
<1>3. QED
  BY <1>1, <1>2

(* The bytes still to be read, k - 1 of n clusters of s bytes being printed.   *)
LEMMA BytesLeft ==
  ASSUME NEW s \in Nat \ {0, 1}, NEW n \in Nat, NEW k \in 1 .. n
  PROVE  /\ s * (n - k + 1) - 1 \in Nat \ {0}
         /\ s * (n - 1 + 1) = s * n
         /\ k < n => /\ ~(s * (n - k + 1) - 1 < s)
                     /\ s * (n - k + 1) - 1 - s = s * (n - (k + 1) + 1) - 1
         /\ k = n => s * (n - k + 1) - 1 = s - 1
<1>1. PICK m \in Nat \ {0} : m = n - k + 1
  OBVIOUS
<1>2. s * m >= s /\ s * m \in Nat
  <2>1. m - 1 \in Nat /\ s \in Nat
    OBVIOUS
  <2>2. s * (m - 1) \in Nat
    BY <2>1, Product
  <2>3. s * m = s * (m - 1) + s
    BY <2>1
  <2>4. QED
    BY <2>2, <2>3
<1>3. k < n => s * m >= s + s /\ s * m - 1 - s = s * (m - 1) - 1
  <2>1. ASSUME k < n
        PROVE  s * m >= s + s
    <3>1. m - 2 \in Nat /\ s \in Nat
      BY <1>1, <2>1
    <3>2. s * (m - 2) \in Nat
      BY <3>1, Product
    <3>3. s * m = s * (m - 2) + s + s
      BY <3>1
    <3>4. QED
      BY <3>2, <3>3
  <2>2. s * m - 1 - s = s * (m - 1) - 1
    OBVIOUS
  <2>3. QED
    BY <2>1, <2>2
<1>4. k < n => n - (k + 1) + 1 = m - 1
  BY <1>1
<1>5. k = n => m = 1
  BY <1>1
<1>6. n - 1 + 1 = n /\ s * 1 = s
  OBVIOUS
<1>7. QED
  BY <1>1, <1>2, <1>3, <1>4, <1>5, <1>6

LEMMA ReadStep ==
  ASSUME PlainImage, SearchInv, ReadEntry
  PROVE  SearchInv'
<1>1. More /\ pc = "scan" /\ cmd.op = "read" /\ UNCHANGED <<tree, directory_vars, cmd, output>>
  BY DEF ReadEntry, More
<1>2. tree \in Trees /\ Here \in Dirs(tree) \cup {Root} /\ output = <<>>
  BY <1>1 DEF SearchInv, TypeOK, Searching
<1>3. PICK e \in EntriesAt(pos) :
        \/ /\ Matches(e)
           /\ file' = [cluster |-> e.first, left |-> e.size]
           /\ pc' = "copy"
           /\ UNCHANGED <<frames, pos>>
        \/ /\ ~Matches(e)
           /\ Advance
           /\ UNCHANGED <<pc, file>>
  BY DEF ReadEntry
<1>4. CASE /\ Matches(e)
           /\ file' = [cluster |-> e.first, left |-> e.size]
           /\ pc' = "copy"
           /\ UNCHANGED <<frames, pos>>
  <2>1. e = Nth(Contents(tree, Here), Passed(Scan)) /\ Passed(Scan) \in Nat
    BY <1>1, <1>3, ScansHere, ScanFacts, NextEntry
  <2>2. e # Free
    BY <1>4, FreeFields DEF Matches
  <2>3. PICK i \in 1 .. Len(Contents(tree, Here)) : e = Contents(tree, Here)[i]
    <3>1. /\ Len(Contents(tree, Here)) \in Nat
          /\ Passed(Scan) < Len(Contents(tree, Here))
          /\ e = Contents(tree, Here)[Passed(Scan) + 1]
      BY <1>2, <2>1, <2>2, EntryAhead
    <3>2. Passed(Scan) + 1 \in 1 .. Len(Contents(tree, Here))
      BY <2>1, <3>1
    <3>3. QED
      BY <3>1, <3>2
  <2>4. PICK c \in Named : e = Entry(tree, c)
    BY <1>2, <1>4, <2>3, FileFound
  <2>5. c \in Items /\ tree.kind[c] \in {"file", "empty"} /\ output' = <<>>
    BY <1>1, <1>2 DEF Named, Children
  <2>6. Named' = Named /\ tree' = tree /\ cmd' = cmd
    BY <1>1, DirectoryStays DEF Named
  <2>7. Copying' /\ file' \in [cluster : Clusters \cup {0} \cup Marker .. EndOfChain, left : Nat]
    <3>1. CASE tree.kind[c] = "empty"
      <4>1. file' = [cluster |-> 0, left |-> 0]
        BY <1>4, <2>4, <3>1, EntryFields
      <4>2. Copying'
        BY <1>1, <1>4, <2>4, <2>5, <2>6, <3>1, <4>1 DEF Copying, CopyOf
      <4>3. QED
        BY <4>1, <4>2
    <3>2. CASE tree.kind[c] = "file"
      <4> DEFINE n == Len(Chain[c])
      <4>1. n \in Nat /\ 1 \in 1 .. n /\ Chain[c][1] = c
        BY <2>5, ChainTypes
      <4>2. e.first = c /\ e.size = ClusterSize * n - 1
        BY <2>4, <3>2, EntryFields
      <4>3. ClusterSize * (n - 1 + 1) = ClusterSize * n /\ ClusterSize * (n - 1 + 1) - 1 \in Nat
        <5> HIDE DEF n
        <5>1. QED
          BY <4>1, ImageAssumption, BytesLeft
      <4>4. file' = [cluster |-> Chain[c][1], left |-> ClusterSize * (n - 1 + 1) - 1]
        BY <1>4, <4>1, <4>2, <4>3
      <4>5. output' = Before(Data(tree, c), 1 - 1)
        <5>1. Before(Data(tree, c), 0) = <<>>
          BY <2>5, <3>2, DataTypes, BeforeGrows
        <5>2. QED
          BY <2>5, <5>1
      <4>6. Copying'
        BY <1>1, <1>4, <2>4, <2>6, <3>2, <4>1, <4>4, <4>5 DEF Copying, CopyOf
      <4>7. Chain[c][1] \in Clusters
        BY <2>5, <4>1, ClusterInChain
      <4>8. QED
        BY <4>3, <4>4, <4>6, <4>7
    <3>3. QED
      BY <2>5, <3>1, <3>2
  <2>8. TypeOK'
    BY <1>1, <1>4, <2>7, DirectoryStays DEF SearchInv, TypeOK
  <2>9. Nesting' /\ Searching' /\ ListsDirectory' /\ ReadsFile'
    BY <1>4 DEF Nesting, Searching, ListsDirectory, ReadsFile, Done
  <2>10. QED
    BY <1>1, <2>7, <2>8, <2>9, DirectoryStays DEF SearchInv
<1>5. CASE /\ ~Matches(e)
           /\ Advance
           /\ UNCHANGED <<pc, file>>
  <2>1. UNCHANGED <<tree, directory_vars, pc, cmd>> /\ pc' = "scan" /\ file' = file
    BY <1>1, <1>5
  <2>2. TypeOK'
    BY <1>1, <1>5, <2>1, EntryPassed, DirectoryStays DEF SearchInv, TypeOK
  <2>3. Searching'
    BY <1>1, <1>3, <1>5, <2>1, SearchGoesOn
  <2>4. Copying' /\ ListsDirectory' /\ ReadsFile'
    BY <2>1 DEF Copying, ListsDirectory, ReadsFile, Done
  <2>5. QED
    BY <1>1, <1>5, <2>1, <2>2, <2>3, <2>4, EntryPassed, DirectoryStays DEF SearchInv
<1>6. QED
  BY <1>3, <1>4, <1>5

(* tree calls itself from the root only.                                       *)
LEMMA TreeCalls ==
  ASSUME PlainImage, SearchInv, More, cmd.op = "tree", NEW e \in EntriesAt(pos),
         e # Free, Shown(e), e.kind = "dir"
  PROVE  Len(frames) = 1 /\ Scan.dir = Root /\ e.first \in Dirs(tree)
<1>1. pc = "scan" /\ tree \in Trees /\ Scan.dir \in Dirs(tree) \cup {Root} /\ Passed(Scan) \in Nat
  BY ScanFacts DEF More, SearchInv, TypeOK
<1>2. e = Nth(Contents(tree, Scan.dir), Passed(Scan))
  BY <1>1, NextEntry
<1>3. PICK i \in 1 .. Len(Contents(tree, Scan.dir)) : e = Contents(tree, Scan.dir)[i]
  <2>1. /\ Len(Contents(tree, Scan.dir)) \in Nat
        /\ Passed(Scan) < Len(Contents(tree, Scan.dir))
        /\ e = Contents(tree, Scan.dir)[Passed(Scan) + 1]
    BY <1>1, <1>2, EntryAhead
  <2>2. Passed(Scan) + 1 \in 1 .. Len(Contents(tree, Scan.dir))
    BY <1>1, <2>1
  <2>3. QED
    BY <2>1, <2>2
<1>4. CASE \E c \in Children(tree, Scan.dir) : e = Entry(tree, c)
  <2>1. PICK c \in Children(tree, Scan.dir) : e = Entry(tree, c)
    BY <1>4
  <2>2. e.first = c /\ c \in Dirs(tree)
    BY <2>1, EntryFields DEF Dirs, Children
  <2>3. Scan.dir = Root
    BY <1>1, <2>1, <2>2, TreeTypes DEF PlainImage, Children
  <2>4. Len(frames) # 2
    BY <1>1, <2>3 DEF SearchInv, Nesting
  <2>5. QED
    BY <1>1, <2>2, <2>3, <2>4, ScanFacts
<1>5. CASE /\ Scan.dir # Root
           /\ e.first = Scan.dir \/ e.first = tree.up[Scan.dir]
  <2>1. tree.up[Scan.dir] = Root
    BY <1>1, <1>5, TreeTypes DEF PlainImage
  <2>2. ~Shown(e)
    BY <1>5, <2>1 DEF Shown, InRoot, Root
  <2>3. QED
    BY <2>2
<1>6. QED
  BY <1>1, <1>3, <1>4, <1>5, EntryOfDirectory

(* The frames of such a call.                                                  *)
LEMMA CallPushed ==
  ASSUME PlainImage, SearchInv, More, cmd.op = "tree", NEW e \in EntriesAt(pos),
         e # Free, Shown(e), e.kind = "dir", frames' = <<Frame(e.first)>> \o Advanced
  PROVE  /\ Len(frames) = 1 /\ Scan.dir = Root /\ e.first \in Dirs(tree)
         /\ frames' \in Seq(ScanFrames(tree)) /\ Len(frames') = 2
         /\ DOMAIN frames' = 1 .. 2
         /\ Scan' = frames'[1] /\ frames'[1] = Frame(e.first) /\ Placed(frames'[1])
         /\ frames'[1].dir = e.first /\ frames'[1].cluster = e.first /\ frames'[1].i = 0
         /\ Passed(frames'[1]) = 0
         /\ frames'[2].dir = Root /\ frames'[2].i = Scan.i + 1 /\ Placed(frames'[2])
<1> DEFINE g == [Scan EXCEPT !.i = @ + 1]
           c == e.first
           T == ScanFrames(tree)
<1>1. Len(frames) = 1 /\ Scan.dir = Root /\ c \in Dirs(tree) /\ c \in Items /\ pc = "scan"
  BY TreeCalls DEF Dirs, More
<1>2. /\ Scan.i < LoopBound(Scan) /\ ~is_end_of_chain(Scan.cluster)
  BY DEF More, InRoot, LoopBound
<1>3. g \in FrameType /\ g.dir = Root /\ g.i = Scan.i + 1 /\ Placed(g)
  BY <1>1, <1>2, ScanFacts, ScanAdvances
<1>4. /\ Frame(c) \in FrameType
      /\ Frame(c).dir = c /\ Frame(c).cluster = c /\ Frame(c).i = 0
      /\ Placed(Frame(c)) /\ Passed(Frame(c)) = 0
  BY <1>1, ScanStarts
<1>5. g \in T /\ Frame(c) \in T
  BY <1>1, <1>3, <1>4, FrameOfTree
<1>6. Advanced = <<g>> \o Tail(frames)
  BY DEF Advanced
<1> HIDE DEF g, T
<1>7. frames \in Seq(T)
  BY <1>1, ScanFacts DEF T
<1>8. Advanced \in Seq(T) /\ Len(Advanced) = 1 /\ Advanced[1] = g
  BY <1>1, <1>5, <1>6, <1>7, TopReplaced
<1>9. /\ frames' \in Seq(T) /\ Len(frames') = 2
      /\ frames'[1] = Frame(c) /\ Head(frames') = Frame(c) /\ frames'[2] = g
  BY <1>5, <1>8, TopPushed
<1>10. Scan' = Frame(c) /\ DOMAIN frames' = 1 .. 2
  BY <1>9, LenProperties DEF Scan
<1>11. QED
  BY <1>1, <1>3, <1>4, <1>9, <1>10 DEF T

LEMMA TreeStep ==
  ASSUME PlainImage, SearchInv, TreeEntry
  PROVE  SearchInv'
<1>1. /\ More /\ pc = "scan" /\ pc' = "scan" /\ cmd.op = "tree" /\ cmd' = cmd /\ file' = file
      /\ UNCHANGED <<tree, directory_vars, pc, cmd, file>>
  BY DEF TreeEntry, More
<1>2. Searching' /\ Copying' /\ ListsDirectory' /\ ReadsFile'
  BY <1>1 DEF Searching, Copying, ListsDirectory, ReadsFile, Done
<1>3. PICK e \in EntriesAt(pos) :
        \/ /\ e # Free /\ Shown(e) /\ e.kind = "dir"
           /\ frames' = <<Frame(e.first)>> \o Advanced
           /\ pos' = <<e.first, 0>>
        \/ Advance
  BY DEF TreeEntry
<1>4. CASE /\ e # Free /\ Shown(e) /\ e.kind = "dir"
           /\ frames' = <<Frame(e.first)>> \o Advanced
           /\ pos' = <<e.first, 0>>
  <2>1. /\ frames' \in Seq(ScanFrames(tree)) /\ Len(frames') = 2 /\ DOMAIN frames' = 1 .. 2
        /\ Placed(frames'[1]) /\ Placed(frames'[2]) /\ frames'[2].dir = Root
        /\ Scan' = frames'[1] /\ Scan'.dir = e.first
        /\ Scan'.cluster = e.first /\ Scan'.i = 0 /\ e.first \in Items
    BY <1>1, <1>3, <1>4, CallPushed DEF Dirs
  <2>2. pos' = <<Scan'.cluster, Scan'.i>> /\ Scan'.dir # Root
    BY <1>4, <2>1, ClusterNumbers
  <2>3. \A k \in DOMAIN frames' : Placed(frames'[k])
    BY <2>1
  <2>4. Nesting'
    BY <1>1, <2>1, <2>2, <2>3 DEF Nesting
  <2>5. frames' \in Seq(ScanFrames(tree')) /\ Len(frames') \in 1 .. 2
    BY <1>1, <2>1
  <2>6. TypeOK'
    BY <1>1, <2>5, DirectoryStays DEF SearchInv, TypeOK
  <2>7. QED
    BY <1>1, <1>2, <2>4, <2>6, DirectoryStays DEF SearchInv
<1>5. CASE Advance
  <2>1. TypeOK'
    BY <1>1, <1>5, EntryPassed, DirectoryStays DEF SearchInv, TypeOK
  <2>2. QED
    BY <1>1, <1>2, <1>5, <2>1, EntryPassed, DirectoryStays DEF SearchInv
<1>6. QED
  BY <1>3, <1>4, <1>5

(* Going on in the next cluster.                                              *)
LEMMA ClusterPassed ==
  ASSUME PlainImage, SearchInv, NextCluster
  PROVE  /\ frames' \in Seq(ScanFrames(tree')) /\ Len(frames') \in 1 .. 2
         /\ Nesting'
         /\ Scan'.dir = Scan.dir /\ Passed(Scan)' = Passed(Scan)
         /\ Len(frames') = Len(frames)
         /\ Len(frames) = 2 => frames'[2] = frames[2]
<1>1. /\ pc = "scan" /\ Scan.dir # Root /\ Scan.i = PerCluster /\ ~is_end_of_chain(Scan.cluster)
      /\ UNCHANGED <<tree, directory_vars, pc, cmd, file, output>>
      /\ pc' = "scan" /\ cmd' = cmd /\ file' = file /\ output' = output
  BY DEF NextCluster, InRoot
<1>2. PICK c \in NextOf(Scan.cluster) :
        /\ frames' = <<[dir |-> Scan.dir, cluster |-> c, i |-> 0]>> \o Tail(frames)
        /\ pos' = <<c, 0>>
  BY DEF NextCluster
<1> DEFINE g == [dir |-> Scan.dir, cluster |-> c, i |-> 0]
           T == ScanFrames(tree)
<1>3. /\ g \in FrameType
      /\ g.dir = Scan.dir /\ g.cluster = c /\ g.i = 0
      /\ Placed(g) /\ Passed(g) = Passed(Scan)
  <2>1. /\ Scan \in FrameType /\ Placed(Scan)
        /\ Scan.dir # Root /\ Scan.i = PerCluster /\ ~is_end_of_chain(Scan.cluster)
        /\ c \in NextOf(Scan.cluster)
    BY <1>1, <1>2, ScanFacts
  <2>2. QED
    BY <2>1, ScanFollowsChain
<1>4. g \in T
  BY <1>1, <1>3, ScanFacts, FrameOfTree
<1>5. frames' = <<g>> \o Tail(frames)
  BY <1>2
<1> HIDE DEF g, T
<1>6. frames \in Seq(T) /\ Len(frames) \in 1 .. 2
  BY <1>1, ScanFacts DEF T
<1>7. /\ frames' \in Seq(T) /\ Len(frames') = Len(frames)
      /\ frames'[1] = g /\ Head(frames') = g
      /\ Len(frames) = 2 => frames'[2] = frames[2]
  BY <1>4, <1>5, <1>6, TopReplaced
<1>8. Scan' = g
  BY <1>7 DEF Scan
<1>9. \A k \in DOMAIN frames' : Placed(frames'[k])
  <2>1. DOMAIN frames' = 1 .. Len(frames)
    BY <1>7, LenProperties
  <2>2. QED
    BY <1>1, <1>3, <1>6, <1>7, <2>1, ScanFacts
<1>10. pos' = <<Scan'.cluster, Scan'.i>>
  BY <1>2, <1>3, <1>8
<1>11. IF Len(frames') = 2 THEN cmd'.op = "tree" /\ Scan'.dir # Root /\ frames'[2].dir = Root
       ELSE Scan'.dir = IF cmd'.op \in {"info", "tree"} \/ AtRoot' THEN Root ELSE Here'
  <2>1. IF Len(frames) = 2 THEN cmd.op = "tree" /\ Scan.dir # Root /\ frames[2].dir = Root
        ELSE Scan.dir = IF cmd.op \in {"info", "tree"} \/ AtRoot THEN Root ELSE Here
    BY <1>1 DEF SearchInv, Nesting
  <2>2. QED
    BY <1>1, <1>3, <1>7, <1>8, <2>1, DirectoryStays
<1>12. Nesting'
  BY <1>9, <1>10, <1>11 DEF Nesting
<1>13. frames' \in Seq(ScanFrames(tree')) /\ Len(frames') \in 1 .. 2
  BY <1>1, <1>6, <1>7 DEF T
<1>14. QED
  BY <1>3, <1>7, <1>8, <1>12, <1>13

LEMMA NextClusterStep ==
  ASSUME PlainImage, SearchInv, NextCluster
  PROVE  SearchInv'
<1>1. /\ pc = "scan" /\ UNCHANGED <<tree, directory_vars, pc, cmd, file, output>>
      /\ pc' = "scan" /\ cmd' = cmd /\ file' = file /\ output' = output
  BY DEF NextCluster
<1>2. TypeOK'
  BY <1>1, ClusterPassed, DirectoryStays DEF SearchInv, TypeOK
<1>3. Searching'
  <2>1. Passed(Scan)' = Passed(Scan) /\ tree' = tree /\ Here' = Here
    BY <1>1, ClusterPassed, DirectoryStays
  <2>2. \A x : Matches(x)' = Matches(x)
    BY <1>1 DEF Matches
  <2>3. Searching
    BY DEF SearchInv
  <2>4. QED
    BY <1>1, <2>1, <2>2, <2>3 DEF Searching, IsDirectory
<1>4. Copying' /\ ListsDirectory' /\ ReadsFile'
  BY <1>1 DEF Copying, ListsDirectory, ReadsFile, Done
<1>5. QED
  BY <1>1, <1>2, <1>3, <1>4, ClusterPassed, DirectoryStays DEF SearchInv

(* What a scan that has passed every entry has found.                          *)
LEMMA NothingFound ==
  ASSUME PlainImage, SearchInv, pc = "scan",
         IF InRoot THEN Scan.i = RootEntries ELSE is_end_of_chain(Scan.cluster)
  PROVE  /\ cmd.op = "ls" => output = Listing(tree, Here)
         /\ cmd.op = "cd" => Resolve(tree, Here, cmd.name) = Here
         /\ cmd.op = "read" => Named = {}
<1> SUFFICES ASSUME cmd.op \in {"ls", "cd", "read"}
             PROVE  /\ cmd.op = "ls" => output = Listing(tree, Here)
                    /\ cmd.op = "cd" => Resolve(tree, Here, cmd.name) = Here
                    /\ cmd.op = "read" => Named = {}
  OBVIOUS
<1> DEFINE n == Passed(Scan)
           C == Contents(tree, Here)
<1>1. /\ tree \in Trees /\ Here \in Dirs(tree) \cup {Root} /\ Here \in Items \cup {Root}
      /\ Scan.dir = Here /\ n \in Nat
  BY ScansHere, ScanFacts DEF SearchInv, TypeOK, Dirs
<1>2. Len(C) <= n
  BY <1>1, ScanFacts, ScanEnds DEF InRoot
<1>3. /\ C \in Seq(Entries(tree)) /\ Len(C) \in Nat /\ DOMAIN C = 1 .. Len(C)
      /\ Here # Root => Len(C) >= 2 /\ C[2] = DotEntry("..", tree.up[Here])
      /\ \A c \in Children(tree, Here) : \E i \in 1 .. Len(C) : C[i] = Entry(tree, c)
  BY <1>1, DirectoryHolds, LenProperties
<1>4. ASSUME NEW i \in 1 .. Len(C)
      PROVE  /\ cmd.op = "cd" => ~(IsDirectory(C[i]) /\ C[i].name = cmd.name)
             /\ cmd.op = "read" => ~Matches(C[i])
  <2>1. i \in DOMAIN C /\ i <= n
    BY <1>1, <1>2, <1>3
  <2>2. QED
    BY <2>1 DEF SearchInv, Searching
<1>5. cmd.op = "ls" => output = Listing(tree, Here)
  <2>1. cmd.op = "ls" => output = Before(Listing(tree, Here), n)
    BY DEF SearchInv, Searching
  <2>2. Before(Listing(tree, Here), n) = Listing(tree, Here)
    <3>1. /\ Listing(tree, Here) \in Seq({C[i].name : i \in 1 .. Len(C)})
          /\ Len(Listing(tree, Here)) = Len(C)
      BY <1>1, ListingNames
    <3> HIDE DEF n, C
    <3>2. n >= Len(Listing(tree, Here))
      BY <1>1, <1>2, <1>3, <3>1
    <3>3. QED
      BY <1>1, <3>1, <3>2, BeforeGrows
  <2>3. QED
    BY <2>1, <2>2
<1>6. ASSUME cmd.op = "cd"
      PROVE  Resolve(tree, Here, cmd.name) = Here
  <2>1. ~(cmd.name = ".." /\ Here # Root)
    <3>1. SUFFICES ASSUME cmd.name = "..", Here # Root
                   PROVE  FALSE
      OBVIOUS
    <3>2. 2 \in 1 .. Len(C) /\ C[2] = DotEntry("..", tree.up[Here])
      BY <1>3, <3>1
    <3>3. C[2].kind = "dir" /\ C[2].name = ".."
      BY <3>2, DotFields
    <3>4. IsDirectory(C[2])
      BY <3>3, FreeFields DEF IsDirectory
    <3>5. QED
      BY <1>4, <1>6, <3>1, <3>2, <3>3, <3>4
  <2>2. ASSUME NEW c \in Children(tree, Here), tree.kind[c] = "dir"
        PROVE  tree.name[c] # cmd.name
    <3>1. PICK i \in 1 .. Len(C) : C[i] = Entry(tree, c)
      BY <1>3
    <3>2. C[i].kind = "dir" /\ C[i].name = tree.name[c]
      BY <2>2, <3>1, EntryFields
    <3>3. IsDirectory(C[i])
      BY <3>2, FreeFields DEF IsDirectory
    <3>4. QED
      BY <1>4, <1>6, <3>2, <3>3
  <2>3. {c \in Children(tree, Here) : tree.kind[c] = "dir" /\ tree.name[c] = cmd.name} = {}
    BY <2>2
  <2>4. QED
    BY <2>1, <2>3 DEF Resolve
<1>7. ASSUME cmd.op = "read", NEW c \in Named
      PROVE  FALSE
  <2>1. /\ c \in Children(tree, Here) /\ tree.name[c] = cmd.name
        /\ tree.kind[c] \in {"file", "empty"}
    BY DEF Named
  <2>2. PICK i \in 1 .. Len(C) : C[i] = Entry(tree, c)
    BY <1>3, <2>1
  <2>3. C[i].kind \in {"file", "empty"} /\ C[i].name = cmd.name
    BY <2>1, <2>2, EntryFields
  <2>4. QED
    BY <1>4, <1>7, <2>3 DEF Matches
<1>8. QED
  BY <1>5, <1>6, <1>7

LEMMA EndOfDirectoryStep ==
  ASSUME PlainImage, SearchInv, EndOfDirectory
  PROVE  SearchInv' /\ CdFollows
<1>1. /\ pc = "scan" /\ IF InRoot THEN Scan.i = RootEntries ELSE is_end_of_chain(Scan.cluster)
      /\ UNCHANGED <<tree, directory_vars, cmd, file>> /\ cmd' = cmd /\ file' = file
      /\ output' = IF cmd.op = "read" THEN NotFound ELSE output
  BY DEF EndOfDirectory
<1>2. frames \in Seq(ScanFrames(tree)) /\ Len(frames) \in 1 .. 2
  BY <1>1, ScanFacts
<1>3. CASE Len(frames) = 2
  <2>1. frames' = Tail(frames) /\ pos' = <<frames[2].cluster, frames[2].i>> /\ pc' = "scan"
    BY <1>1, <1>3 DEF EndOfDirectory, SeekBack
  <2>2. /\ frames' \in Seq(ScanFrames(tree)) /\ Len(frames') = 1
        /\ frames'[1] = frames[2] /\ Head(frames') = frames[2]
    BY <1>2, <1>3, <2>1, TopPopped
  <2>3. Scan' = frames[2]
    BY <2>2 DEF Scan
  <2>4. cmd.op = "tree" /\ frames[2].dir = Root /\ Placed(frames[2])
    BY <1>1, <1>3, ScanFacts DEF SearchInv, Nesting
  <2>5. \A k \in DOMAIN frames' : Placed(frames'[k])
    <3>1. DOMAIN frames' = 1 .. 1
      BY <2>2, LenProperties
    <3>2. QED
      BY <2>2, <2>4, <3>1
  <2>6. Nesting'
    <3>1. pos' = <<Scan'.cluster, Scan'.i>>
      BY <2>1, <2>3
    <3>2. Len(frames') = 1 /\ Scan'.dir = Root /\ cmd'.op = "tree"
      BY <1>1, <2>2, <2>3, <2>4
    <3>3. QED
      BY <2>5, <3>1, <3>2 DEF Nesting
  <2>7. TypeOK'
    <3>1. frames' \in Seq(ScanFrames(tree')) /\ Len(frames') \in 1 .. 2 /\ pc' = "scan"
      BY <1>1, <2>1, <2>2, DirectoryStays
    <3>2. QED
      BY <1>1, <3>1, DirectoryStays DEF SearchInv, TypeOK
  <2>8. Searching' /\ Copying' /\ ListsDirectory' /\ ReadsFile'
    BY <1>1, <2>1, <2>4 DEF Searching, Copying, ListsDirectory, ReadsFile, Done
  <2>9. CdFollows
    BY <1>1, <2>1, DirectoryStays DEF CdFollows
  <2>10. QED
    BY <1>1, <2>6, <2>7, <2>8, <2>9, DirectoryStays DEF SearchInv
<1>4. CASE Len(frames) # 2
  <2>1. pc' = "prompt" /\ frames' = frames
    BY <1>2, <1>4 DEF EndOfDirectory
  <2>2. TypeOK'
    BY <1>1, <2>1, DirectoryStays DEF SearchInv, TypeOK
  <2>3. Nesting' /\ Searching' /\ Copying'
    BY <2>1 DEF Nesting, Searching, Copying
  <2>4. tree' = tree /\ Here' = Here /\ Named' = Named
    BY <1>1, DirectoryStays DEF Named
  <2>5. ListsDirectory'
    BY <1>1, <2>4, NothingFound DEF ListsDirectory, Done
  <2>6. ReadsFile'
    BY <1>1, <2>4, NothingFound DEF ReadsFile, Done, NotFound
  <2>7. CdFollows
    BY <1>1, <2>1, <2>4, NothingFound DEF CdFollows
  <2>8. QED
    BY <1>1, <2>2, <2>3, <2>5, <2>6, <2>7, DirectoryStays DEF SearchInv
<1>5. QED
  BY <1>3, <1>4

LEMMA CopyStep ==
  ASSUME PlainImage, SearchInv, CopyCluster
  PROVE  SearchInv'
<1>1. /\ pc = "copy" /\ pc' = "copy" /\ file.left > 0
      /\ UNCHANGED <<tree, directory_vars, pc, cmd, frames, pos>> /\ cmd' = cmd /\ frames' = frames
      /\ output' = Append(output, <<file.cluster, BytesToRead>>)
  BY DEF CopyCluster
<1>2. PICK d \in NextOf(file.cluster) :
        file' = [cluster |-> d, left |-> file.left - BytesToRead]
  BY DEF CopyCluster
<1>3. tree' = tree /\ Named' = Named
  BY <1>1, DirectoryStays DEF Named
<1>4. Copying
  BY DEF SearchInv
<1>5. ~(file = [cluster |-> 0, left |-> 0]) /\ ~(file = [cluster |-> EndOfChain, left |-> 0])
  <2>1. \A r \in {[cluster |-> 0, left |-> 0], [cluster |-> EndOfChain, left |-> 0]} : ~(r.left > 0)
    OBVIOUS
  <2>2. QED
    BY <1>1, <2>1
<1>6. PICK c \in Named :
         /\ tree.kind[c] = "file"
         /\ \E k \in 1 .. Len(Chain[c]) :
              /\ file = [cluster |-> Chain[c][k],
                         left |-> ClusterSize * (Len(Chain[c]) - k + 1) - 1]
              /\ output = Before(Data(tree, c), k - 1)
  <2>1. PICK c \in Named : CopyOf(c)
    BY <1>1, <1>4 DEF Copying
  <2>2. QED
    BY <1>5, <2>1 DEF CopyOf
<1>7. PICK k \in 1 .. Len(Chain[c]) :
        /\ file = [cluster |-> Chain[c][k],
                   left |-> ClusterSize * (Len(Chain[c]) - k + 1) - 1]
        /\ output = Before(Data(tree, c), k - 1)
  BY <1>6
<1>8. tree.kind[c] = "file" /\ cmd.op = "read"
  BY <1>1, <1>4, <1>6 DEF Copying
<1> DEFINE n == Len(Chain[c])
<1>9. /\ c \in Items /\ n \in Nat /\ ClusterSize \in Nat \ {0, 1}
      /\ k \in 1 .. n
  BY ChainTypes, ImageAssumption DEF Named, Children
<1>10. file.cluster = Chain[c][k] /\ file.left = ClusterSize * (n - k + 1) - 1
  BY <1>7
<1>11. d = IF k < n THEN Chain[c][k + 1] ELSE EndOfChain
  BY <1>2, <1>9, <1>10, FatFollowsChain DEF PlainImage
<1>12. /\ Data(tree, c) \in Seq((2 .. Marker - 1) \X Nat)
      /\ Len(Data(tree, c)) = n
      /\ Data(tree, c)[k] = <<Chain[c][k], IF k < n THEN ClusterSize ELSE ClusterSize - 1>>
  BY <1>8, <1>9, DataTypes
<1>13. k - 1 \in Nat /\ k - 1 < n /\ k - 1 + 1 = k
  BY <1>9
<1> HIDE DEF n
<1>14. BytesToRead = IF k < n THEN ClusterSize ELSE ClusterSize - 1
  <2>1. /\ k < n => ~(ClusterSize * (n - k + 1) - 1 < ClusterSize)
        /\ k = n => ClusterSize * (n - k + 1) - 1 = ClusterSize - 1
    BY <1>9, BytesLeft
  <2>2. k < n \/ k = n
    BY <1>9
  <2>3. ClusterSize - 1 < ClusterSize
    BY <1>9
  <2>4. QED
    BY <1>9, <1>10, <2>1, <2>2, <2>3 DEF BytesToRead
<1>15. output' = Before(Data(tree, c), k)
  <2>1. Before(Data(tree, c), k - 1 + 1) = Append(Before(Data(tree, c), k - 1), Data(tree, c)[k - 1 + 1])
    BY <1>12, <1>13, BeforeGrows
  <2>2. <<file.cluster, BytesToRead>> = Data(tree, c)[k]
    BY <1>10, <1>12, <1>14
  <2>3. QED
    BY <1>1, <1>7, <1>13, <2>1, <2>2
<1>16. CASE k < n
  <2>1. /\ k + 1 \in 1 .. n /\ d = Chain[c][k + 1] /\ k + 1 - 1 = k
        /\ file.left - BytesToRead = ClusterSize * (n - (k + 1) + 1) - 1
    BY <1>9, <1>10, <1>11, <1>14, <1>16, BytesLeft
  <2>2. file' = [cluster |-> Chain[c][k + 1], left |-> ClusterSize * (n - (k + 1) + 1) - 1]
    BY <1>2, <2>1
  <2>3. output' = Before(Data(tree, c), k + 1 - 1)
    BY <1>15, <2>1
  <2>4. Copying'
    <3>1. \E j \in 1 .. Len(Chain[c]) :
            /\ file' = [cluster |-> Chain[c][j],
                        left |-> ClusterSize * (Len(Chain[c]) - j + 1) - 1]
            /\ output' = Before(Data(tree, c), j - 1)
      <4>1. k + 1 \in 1 .. Len(Chain[c])
        BY <2>1 DEF n
      <4>2. file' = [cluster |-> Chain[c][k + 1],
                     left |-> ClusterSize * (Len(Chain[c]) - (k + 1) + 1) - 1]
        BY <2>2 DEF n
      <4>3. QED
        BY <2>3, <4>1, <4>2
    <3>2. c \in Named' /\ cmd'.op = "read" /\ tree'.kind[c] = "file" /\ Data(tree', c) = Data(tree, c)
      BY <1>1, <1>3, <1>8
    <3>3. QED
      BY <3>1, <3>2 DEF Copying, CopyOf
  <2>5. file' \in [cluster : Clusters \cup {0} \cup Marker .. EndOfChain, left : Nat]
    <3>1. Chain[c][k + 1] \in Clusters
      BY <1>9, <2>1, ClusterInChain DEF n
    <3>2. ClusterSize * (n - (k + 1) + 1) - 1 \in Nat
      BY <1>9, <2>1, BytesLeft
    <3>3. QED
      BY <2>2, <3>1, <3>2
  <2>6. TypeOK'
    BY <1>1, <2>5, DirectoryStays DEF SearchInv, TypeOK
  <2>7. Nesting' /\ Searching' /\ ListsDirectory' /\ ReadsFile'
    BY <1>1 DEF Nesting, Searching, ListsDirectory, ReadsFile, Done
  <2>8. QED
    BY <1>1, <2>4, <2>6, <2>7, DirectoryStays DEF SearchInv
<1>17. CASE ~(k < n)
  <2>1. d = EndOfChain /\ k = n /\ file.left - BytesToRead = 0
    <3>1. k = n
      BY <1>9, <1>17
    <3>2. file.left = ClusterSize - 1
      BY <1>9, <1>10, <3>1, BytesLeft
    <3>3. QED
      BY <1>9, <1>11, <1>14, <1>17, <3>1, <3>2
  <2>2. file' = [cluster |-> EndOfChain, left |-> 0]
    BY <1>2, <2>1
  <2>3. output' = Data(tree, c)
    <3>1. k >= Len(Data(tree, c)) /\ k \in Nat
      BY <1>9, <1>12, <2>1
    <3>2. Before(Data(tree, c), k) = Data(tree, c)
      BY <1>12, <3>1, BeforeGrows
    <3>3. QED
      BY <1>15, <3>2
  <2>4. Copying'
    BY <1>1, <1>3, <1>8, <2>2, <2>3 DEF Copying, CopyOf
  <2>5. file' \in [cluster : Clusters \cup {0} \cup Marker .. EndOfChain, left : Nat]
    <3>1. EndOfChain \in Marker .. EndOfChain
      BY DEF EndOfChain, Marker
    <3>2. QED
      BY <2>2, <3>1
  <2>6. TypeOK'
    BY <1>1, <2>5, DirectoryStays DEF SearchInv, TypeOK
  <2>7. Nesting' /\ Searching' /\ ListsDirectory' /\ ReadsFile'
    BY <1>1 DEF Nesting, Searching, ListsDirectory, ReadsFile, Done
  <2>8. QED
    BY <1>1, <2>4, <2>6, <2>7, DirectoryStays DEF SearchInv
<1>18. QED
  BY <1>16, <1>17

LEMMA EndOfFileStep ==
  ASSUME PlainImage, SearchInv, EndOfFile
  PROVE  SearchInv'
<1>1. /\ NoMoreClusters \/ file.left <= 0
      /\ pc = "copy" /\ pc' = "prompt" /\ UNCHANGED <<tree, directory_vars, cmd, frames, pos, file, output>>
      /\ cmd' = cmd /\ frames' = frames /\ file' = file /\ output' = output
  BY DEF EndOfFile
<1>2. tree' = tree /\ Here' = Here /\ Named' = Named
  BY <1>1, DirectoryStays DEF Named
<1>3. cmd.op = "read" /\ \E c \in Named : output = Data(tree, c)
  <2>1. Copying
    BY DEF SearchInv
  <2>2. PICK c \in Named : CopyOf(c)
    BY <1>1, <2>1 DEF Copying
  <2>3. c \in Items
    BY DEF Named, Children
  <2>4. ASSUME NEW k \in 1 .. Len(Chain[c]),
               file = [cluster |-> Chain[c][k],
                       left |-> ClusterSize * (Len(Chain[c]) - k + 1) - 1]
        PROVE  FALSE
    <3> DEFINE n == Len(Chain[c])
    <3>1. n \in Nat /\ ClusterSize \in Nat \ {0, 1} /\ Chain[c][k] \in 2 .. Marker - 1
      BY <2>3, ChainTypes, ImageAssumption
    <3>2. file.cluster = Chain[c][k] /\ file.left = ClusterSize * (n - k + 1) - 1
      BY <2>4
    <3> HIDE DEF n
    <3>3. k \in 1 .. n
      BY DEF n
    <3>4. file.left \in Nat \ {0}
      BY <3>1, <3>2, <3>3, BytesLeft
    <3>5. ~NoMoreClusters
      <4>1. file.cluster \in 2 .. Marker - 1
        BY <3>1, <3>2
      <4>2. ~(file.cluster >= Marker) /\ ~is_end_of_chain(file.cluster)
        BY <4>1, MarkersAreNoClusters
      <4>3. QED
        BY <4>2 DEF NoMoreClusters
    <3>6. QED
      BY <1>1, <3>4, <3>5
  <2>5. output = Data(tree, c)
    BY <2>2, <2>3, <2>4, DataTypes DEF CopyOf
  <2>6. QED
    BY <1>1, <2>1, <2>5 DEF Copying
<1>4. TypeOK'
  BY <1>1, DirectoryStays DEF SearchInv, TypeOK
<1>5. Nesting' /\ Searching' /\ Copying'
  BY <1>1 DEF Nesting, Searching, Copying
<1>6. ListsDirectory'
  BY <1>1, <1>3 DEF ListsDirectory, Done
<1>7. ReadsFile'
  <2>1. PICK c \in Named : output = Data(tree, c)
    BY <1>3
  <2>2. /\ c \in Children(tree, Here) /\ tree.name[c] = cmd.name
        /\ tree \in Trees /\ Here \in Items \cup {Root}
    BY DEF Named, SearchInv, TypeOK, Dirs
  <2>3. \A b \in Named : b = c
    BY <2>2, TreeTypes DEF Named
  <2>4. \A b \in Named : output = Data(tree, b)
    BY <2>1, <2>3
  <2>5. QED
    BY <1>1, <1>2, <2>1, <2>2, <2>4 DEF ReadsFile, Done, Children
<1>8. QED
  BY <1>1, <1>4, <1>5, <1>6, <1>7, DirectoryStays DEF SearchInv

LEMMA StutterStep ==
  ASSUME SearchInv, UNCHANGED vars
  PROVE  SearchInv'
BY DEF SearchInv, vars, TypeOK, PromptNamesDirectory, PathOf, Nesting, Searching, Matches, Copying, CopyOf,
       Named, ListsDirectory, ReadsFile, Done, Here, AtRoot, Scan

LEMMA StepKeepsInvariant ==
  ASSUME PlainImage, SearchInv, [Next]_vars
  PROVE  SearchInv'
<1>1. CASE UNCHANGED vars
  BY <1>1, StutterStep
<1>2. CASE Exit
  BY <1>2, ExitStep
<1>3. ASSUME NEW a \in Arguments, Command(a)
      PROVE  SearchInv'
  BY <1>3, CommandStep
<1>4. CASE ListEntry
  BY <1>4, ListStep
<1>5. CASE CdEntry
  BY <1>5, CdStep
<1>6. CASE ReadEntry
  BY <1>6, ReadStep
<1>7. CASE TreeEntry
  BY <1>7, TreeStep
<1>8. CASE NextCluster
  BY <1>8, NextClusterStep
<1>9. CASE EndOfDirectory
  BY <1>9, EndOfDirectoryStep
<1>10. CASE CopyCluster
  BY <1>10, CopyStep
<1>11. CASE EndOfFile
  BY <1>11, EndOfFileStep
<1>12. QED
  BY <1>1, <1>2, <1>3, <1>4, <1>5, <1>6, <1>7, <1>8, <1>9, <1>10, <1>11 DEF Next, Work

-------------------------------------------------------------------------------
(* What tree prints.                                                           *)

(* The next entry of the root directory, and the rows it adds.                 *)
LEMMA TreeDrawsRoot ==
  ASSUME PlainImage, SearchInv, Drawing, More, cmd.op = "tree", Len(frames) = 1,
         NEW e, e = Nth(Contents(tree, Scan.dir), Passed(Scan))
  PROVE  /\ Scan.dir = Root /\ Scan.i \in Nat /\ Shown(e)
         /\ output = Drawn(tree, Scan.i) /\ output \in Seq(RowType)
         /\ e = Free => Drawn(tree, Scan.i + 1) = output
         /\ e # Free =>
              /\ Scan.i + 1 \in DOMAIN InOrder(tree, Root)
              /\ InOrder(tree, Root)[Scan.i + 1] \in Items
              /\ e.name = tree.name[InOrder(tree, Root)[Scan.i + 1]]
              /\ e.kind = tree.kind[InOrder(tree, Root)[Scan.i + 1]]
              /\ e.kind = "dir" => e.first = InOrder(tree, Root)[Scan.i + 1]
              /\ Drawn(tree, Scan.i + 1) = output \o Branch(tree, InOrder(tree, Root)[Scan.i + 1])
<1> DEFINE k == Cardinality(Children(tree, Root))
           c == InOrder(tree, Root)[Scan.i + 1]
<1>1. pc = "scan" /\ tree \in Trees
  BY DEF More, SearchInv, TypeOK
<1>2. Scan.dir = Root /\ Scan.i \in Nat /\ Passed(Scan) = Scan.i
  BY <1>1, ScanFacts DEF SearchInv, Nesting, Passed, FrameType
<1>3. Shown(e)
  BY <1>2 DEF Shown, InRoot
<1>4. output = Drawn(tree, Scan.i)
  BY <1>1 DEF Drawing
<1>5. /\ Scan.i < k => e = Entry(tree, c)
      /\ Scan.i >= k => e = Free
  BY <1>1, <1>2, EntryInOrder
<1>6. /\ DOMAIN InOrder(tree, Root) = 1 .. k /\ k \in Nat
      /\ \A i \in 1 .. k : InOrder(tree, Root)[i] \in Children(tree, Root)
  BY <1>1, ChildrenInOrder
<1>7. /\ Drawn(tree, Scan.i) \in Seq(RowType)
      /\ Scan.i < k => Drawn(tree, Scan.i + 1) = Drawn(tree, Scan.i) \o Branch(tree, c)
      /\ Scan.i >= k => Drawn(tree, Scan.i) = FlattenSeq(Branches(tree))
  BY <1>1, <1>2, DrawnGrows
<1>8. Scan.i + 1 >= k => Drawn(tree, Scan.i + 1) = FlattenSeq(Branches(tree))
  <2>1. Scan.i + 1 \in Nat
    BY <1>2
  <2>2. QED
    BY <1>1, <2>1, DrawnGrows
<1>9. CASE Scan.i < k
  <2>1. Scan.i + 1 \in 1 .. k
    BY <1>2, <1>6, <1>9
  <2>2. c \in Children(tree, Root)
    BY <1>6, <2>1
  <2>3. /\ e.name = tree.name[c] /\ e.kind = tree.kind[c]
        /\ e.first = IF tree.kind[c] = "empty" THEN 0 ELSE c
    BY <1>5, <1>9, EntryFields
  <2>4. e # Free /\ c \in Items
    BY <2>2, <2>3, FreeFields DEF Children
  <2>5. QED
    BY <1>2, <1>3, <1>4, <1>6, <1>7, <1>9, <2>1, <2>3, <2>4
<1>10. CASE ~(Scan.i < k)
  <2>1. Scan.i >= k /\ Scan.i + 1 >= k
    BY <1>2, <1>6, <1>10
  <2>2. QED
    BY <1>2, <1>3, <1>4, <1>5, <1>7, <1>8, <2>1
<1>11. QED
  BY <1>9, <1>10

(* In a directory below it an entry adds one row at most, and no call.         *)
LEMMA TreeDrawsBelow ==
  ASSUME PlainImage, SearchInv, Drawing, More, cmd.op = "tree", Len(frames) = 2,
         NEW e, e = Nth(Contents(tree, Scan.dir), Passed(Scan)), NEW n, n = frames[2].i,
         NEW q, q = Passed(Scan) + 1
  PROVE  /\ n \in Nat /\ n \in DOMAIN InOrder(tree, Root) /\ Scan.dir = InOrder(tree, Root)[n]
         /\ ~(e # Free /\ Shown(e) /\ e.kind = "dir")
         /\ (IF e # Free /\ Shown(e) THEN Append(output, <<2, e.name>>) ELSE output)
              = Drawn(tree, n - 1) \o DrawnWithin(tree, Scan.dir, q)
<1> DEFINE d == Scan.dir
           p == Passed(Scan)
           k == Cardinality(Children(tree, d))
           c == InOrder(tree, d)[p - 1]
<1>1. pc = "scan" /\ tree \in Trees
  BY DEF More, SearchInv, TypeOK
<1>2. d # Root /\ d \in Dirs(tree) /\ d \in Items /\ d # 0 /\ p \in Nat
  BY <1>1, ScanFacts DEF SearchInv, Nesting, Dirs, Root
<1>3. /\ n \in DOMAIN InOrder(tree, Root) /\ d = InOrder(tree, Root)[n]
      /\ output = Drawn(tree, n - 1) \o DrawnWithin(tree, d, p)
  BY <1>1 DEF Drawing
<1>4. n - 1 \in Nat /\ n \in Nat
  BY <1>1, <1>3, ChildrenInOrder
<1>5. Drawn(tree, n - 1) \in Seq(RowType)
  BY <1>1, <1>4, DrawnGrows
<1>6. /\ p < 2 => e.kind = "dir" /\ e.first \in {d, tree.up[d]}
      /\ p >= 2 /\ p - 2 < k => e = Entry(tree, c)
      /\ p >= 2 /\ p - 2 >= k => e = Free
  BY <1>1, <1>2, EntryInOrder
<1>7. /\ DrawnWithin(tree, d, p) \in Seq(RowType)
      /\ p < 2 => DrawnWithin(tree, d, q) = DrawnWithin(tree, d, p)
      /\ p >= 2 /\ p - 2 < k =>
           DrawnWithin(tree, d, q) = Append(DrawnWithin(tree, d, p), <<2, tree.name[c]>>)
      /\ p >= 2 /\ p - 2 >= k => DrawnWithin(tree, d, q) = DrawnWithin(tree, d, p)
  BY <1>1, <1>2, DrawnWithinGrows
<1>8. /\ DOMAIN InOrder(tree, d) = 1 .. k /\ k \in Nat
      /\ \A i \in 1 .. k : InOrder(tree, d)[i] \in Children(tree, d)
  BY <1>1, ChildrenInOrder
<1>9. CASE p < 2
  <2>1. tree.up[d] = Root
    BY <1>1, <1>2, TreeTypes DEF PlainImage, Dirs
  <2>2. ~Shown(e)
    BY <1>2, <1>6, <1>9, <2>1 DEF Shown, InRoot, Root
  <2>3. QED
    BY <1>3, <1>4, <1>7, <1>9, <2>2
<1>10. CASE p >= 2 /\ p - 2 < k
  <2>1. p - 1 \in 1 .. k
    BY <1>2, <1>8, <1>10
  <2>2. c \in Children(tree, d)
    BY <1>8, <2>1
  <2>3. /\ e.name = tree.name[c] /\ e.kind = tree.kind[c]
        /\ e.first = IF tree.kind[c] = "empty" THEN 0 ELSE c
    BY <1>6, <1>10, EntryFields
  <2>4. tree.kind[c] # "none" /\ tree.up[c] = d /\ c \in Items /\ tree.name[c] \in Names
    BY <1>1, <2>2, TreeTypes DEF Children
  <2>5. tree.kind[c] # "dir"
    BY <1>1, <1>2, <2>4, TreeTypes DEF PlainImage, Dirs
  <2>6. c # d
    BY <1>2, <2>5 DEF Dirs
  <2>7. Shown(e) /\ e # Free /\ e.kind # "dir"
    BY <1>2, <2>3, <2>4, <2>5, <2>6, FreeFields DEF Shown
  <2>8. <<2, tree.name[c]>> \in RowType
    BY <2>4 DEF RowType
  <2>9. Append(output, <<2, tree.name[c]>>)
          = Drawn(tree, n - 1) \o Append(DrawnWithin(tree, d, p), <<2, tree.name[c]>>)
    <3>1. ASSUME NEW a \in Seq(RowType), NEW b \in Seq(RowType), NEW x \in RowType
          PROVE  a \o Append(b, x) = Append(a \o b, x)
      BY AppendToConcat
    <3>2. QED
      BY <1>3, <1>5, <1>7, <2>8, <3>1
  <2>10. QED
    BY <1>3, <1>4, <1>7, <1>10, <2>3, <2>7, <2>9
<1>11. CASE p >= 2 /\ p - 2 >= k
  <2>1. e = Free /\ DrawnWithin(tree, d, q) = DrawnWithin(tree, d, p)
    BY <1>6, <1>7, <1>11
  <2>2. QED
    BY <1>3, <1>4, <2>1
<1>12. p < 2 \/ (p >= 2 /\ p - 2 < k) \/ (p >= 2 /\ p - 2 >= k)
  BY <1>2, <1>8
<1>13. QED
  BY <1>9, <1>10, <1>11, <1>12

LEMMA TreeDraws ==
  ASSUME PlainImage, SearchInv, Drawing, TreeEntry
  PROVE  Drawing' /\ TreeShowsAll'
<1> DEFINE new(e) == IF e # Free /\ Shown(e) THEN Append(output, <<Len(frames), e.name>>)
                     ELSE output
<1>1. /\ More /\ pc = "scan" /\ pc' = "scan" /\ cmd.op = "tree" /\ cmd' = cmd /\ tree' = tree
      /\ UNCHANGED <<tree, directory_vars, pc, cmd>>
  BY DEF TreeEntry, More
<1>2. PICK e \in EntriesAt(pos) :
        /\ output' = new(e)
        /\ \/ /\ e # Free /\ Shown(e) /\ e.kind = "dir"
              /\ frames' = <<Frame(e.first)>> \o Advanced
           \/ ~(e # Free /\ Shown(e) /\ e.kind = "dir") /\ Advance
  BY DEF TreeEntry
<1>3. /\ e = Nth(Contents(tree, Scan.dir), Passed(Scan)) /\ tree \in Trees
      /\ Len(frames) \in 1 .. 2 /\ Passed(Scan) \in Nat
  BY <1>1, NextEntry, ScanFacts DEF SearchInv, TypeOK
<1>4. TreeShowsAll'
  BY <1>1 DEF TreeShowsAll, Done
<1>5. CASE Len(frames) = 1
  <2> DEFINE n == Scan.i + 1
             c == InOrder(tree, Root)[Scan.i + 1]
  <2>1. /\ Scan.dir = Root /\ Scan.i \in Nat /\ Shown(e)
        /\ output = Drawn(tree, Scan.i) /\ output \in Seq(RowType)
        /\ e = Free => Drawn(tree, n) = output
        /\ e # Free =>
             /\ n \in DOMAIN InOrder(tree, Root) /\ c \in Items
             /\ e.name = tree.name[c] /\ e.kind = tree.kind[c]
             /\ e.kind = "dir" => e.first = c
             /\ Drawn(tree, n) = output \o Branch(tree, c)
    BY <1>1, <1>3, <1>5, TreeDrawsRoot
  <2>2. output' = IF e # Free THEN Append(output, <<1, e.name>>) ELSE output
    BY <1>2, <1>5, <2>1
  <2> HIDE DEF new, c
  <2>3. CASE e # Free /\ e.kind = "dir"
    <3>1. /\ frames' = <<Frame(e.first)>> \o Advanced
      BY <1>2, <2>1, <2>3
    <3>2. /\ e.first \in Dirs(tree) /\ Len(frames') = 2 /\ Scan' = frames'[1]
          /\ frames'[1].dir = e.first /\ Passed(frames'[1]) = 0 /\ frames'[2].i = n
      BY <1>1, <2>1, <2>3, <3>1, CallPushed
    <3>3. Scan'.dir = c /\ Passed(Scan)' = 0 /\ c \in Dirs(tree)
      BY <2>1, <2>3, <3>2
    <3>4. DrawnWithin(tree, c, 0) = <<<<1, tree.name[c]>>>>
      BY <1>3, <3>3, DrawnWithinGrows
    <3>5. output' = output \o <<<<1, tree.name[c]>>>>
      <4>1. <<1, tree.name[c]>> \in RowType
        BY <1>3, <2>1, <2>3, TreeTypes DEF RowType
      <4>2. Append(output, <<1, tree.name[c]>>) = output \o <<<<1, tree.name[c]>>>>
        BY <2>1, <4>1, AppendIsConcat
      <4>3. QED
        BY <2>1, <2>2, <2>3, <4>2
    <3>6. n - 1 = Scan.i
      BY <2>1
    <3>7. output' = Drawn(tree, n - 1) \o DrawnWithin(tree, c, 0)
      BY <2>1, <3>4, <3>5, <3>6
    <3>8. /\ Len(frames') # 1 /\ frames'[2].i = n
          /\ n \in DOMAIN InOrder(tree', Root) /\ Scan'.dir = InOrder(tree', Root)[n]
      BY <1>1, <2>1, <2>3, <3>2, <3>3 DEF c
    <3>9. output' = Drawn(tree', n - 1) \o DrawnWithin(tree', Scan'.dir, Passed(Scan)')
      BY <1>1, <3>3, <3>7
    <3>10. QED
      BY <1>4, <3>8, <3>9 DEF Drawing
  <2>4. CASE ~(e # Free /\ e.kind = "dir")
    <3>1. Scan'.i = n /\ Len(frames') = 1
      BY <1>1, <1>2, <1>5, <2>4, EntryPassed
    <3>2. output' = Drawn(tree, n)
      <4>1. CASE e = Free
        BY <2>1, <2>2, <4>1
      <4>2. CASE e # Free
        <5>1. Branch(tree, c) = <<<<1, tree.name[c]>>>> \o <<>>
          BY <2>1, <2>4, <4>2 DEF Branch
        <5>2. <<1, tree.name[c]>> \in RowType
          BY <1>3, <2>1, <4>2, TreeTypes DEF RowType
        <5>3. <<<<1, tree.name[c]>>>> \in Seq(RowType)
          BY <5>2
        <5>4. Branch(tree, c) = <<<<1, tree.name[c]>>>>
          BY <5>1, <5>3, ConcatEmptySeq
        <5>5. Append(output, <<1, tree.name[c]>>) = output \o <<<<1, tree.name[c]>>>>
          BY <2>1, <5>2, AppendIsConcat
        <5>6. QED
          BY <2>1, <2>2, <4>2, <5>4, <5>5
      <4>3. QED
        BY <4>1, <4>2
    <3>3. QED
      BY <1>1, <1>4, <3>1, <3>2 DEF Drawing
  <2>5. QED
    BY <2>3, <2>4
<1>6. CASE Len(frames) = 2
  <2> DEFINE n == frames[2].i
             q == Passed(Scan) + 1
  <2>1. /\ n \in DOMAIN InOrder(tree, Root) /\ Scan.dir = InOrder(tree, Root)[n]
        /\ ~(e # Free /\ Shown(e) /\ e.kind = "dir")
        /\ (IF e # Free /\ Shown(e) THEN Append(output, <<2, e.name>>) ELSE output)
             = Drawn(tree, n - 1) \o DrawnWithin(tree, Scan.dir, q)
    BY <1>1, <1>3, <1>6, TreeDrawsBelow
  <2>2. output' = Drawn(tree, n - 1) \o DrawnWithin(tree, Scan.dir, q)
    BY <1>2, <1>6, <2>1
  <2>3. /\ Scan'.dir = Scan.dir /\ Passed(Scan)' = q
        /\ Len(frames') = 2 /\ frames'[2].i = n
    BY <1>1, <1>2, <1>6, <2>1, EntryPassed
  <2> HIDE DEF n, q
  <2>4. QED
    BY <1>1, <1>4, <2>1, <2>2, <2>3 DEF Drawing
<1>7. QED
  BY <1>3, <1>5, <1>6

LEMMA NextClusterDraws ==
  ASSUME PlainImage, SearchInv, Drawing, NextCluster
  PROVE  Drawing' /\ TreeShowsAll'
<1>1. /\ pc = "scan" /\ pc' = "scan" /\ Scan.dir # Root /\ cmd' = cmd /\ output' = output
      /\ tree' = tree
  BY DEF NextCluster, InRoot
<1>2. TreeShowsAll'
  BY <1>1 DEF TreeShowsAll, Done
<1>3. CASE cmd.op = "tree"
  <2>1. Len(frames) = 2
    BY <1>1, <1>3, ScanFacts DEF SearchInv, Nesting
  <2>2. /\ Scan'.dir = Scan.dir /\ Passed(Scan)' = Passed(Scan)
        /\ Len(frames') = 2 /\ frames'[2] = frames[2]
    BY <2>1, ClusterPassed
  <2>3. QED
    BY <1>1, <1>2, <1>3, <2>1, <2>2 DEF Drawing
<1>4. CASE cmd.op # "tree"
  BY <1>1, <1>2, <1>4 DEF Drawing
<1>5. QED
  BY <1>3, <1>4

(* The end of a directory: its rows are complete, and those of its caller go   *)
(* on with the entry after it.                                                 *)
LEMMA EndDraws ==
  ASSUME PlainImage, SearchInv, Drawing, EndOfDirectory
  PROVE  Drawing' /\ TreeShowsAll'
<1>1. /\ pc = "scan" /\ IF InRoot THEN Scan.i = RootEntries ELSE is_end_of_chain(Scan.cluster)
      /\ cmd' = cmd /\ tree' = tree
      /\ output' = IF cmd.op = "read" THEN NotFound ELSE output
      /\ tree \in Trees
  BY DEF EndOfDirectory, SearchInv, TypeOK
<1>2. /\ Len(frames) \in 1 .. 2 /\ frames \in Seq(ScanFrames(tree)) /\ Passed(Scan) \in Nat
      /\ Len(Contents(tree, Scan.dir)) <= Passed(Scan)
      /\ Scan.dir \in Dirs(tree) \cup {Root} /\ Scan \in FrameType
  BY <1>1, ScanFacts, ScanEnds DEF InRoot
<1>3. CASE Len(frames) = 2
  <2> DEFINE n == frames[2].i
             d == Scan.dir
             k == Cardinality(Children(tree, d))
             p == Passed(Scan)
  <2>1. frames' = Tail(frames) /\ pc' = "scan"
    BY <1>1, <1>3 DEF EndOfDirectory
  <2>2. Len(frames') = 1 /\ Scan' = frames[2]
    BY <1>2, <1>3, <2>1, TopPopped DEF Scan
  <2>3. cmd.op = "tree" /\ d # Root /\ d \in Dirs(tree) /\ d \in Items
    BY <1>1, <1>2, <1>3 DEF SearchInv, Nesting, Dirs
  <2>4. /\ n \in DOMAIN InOrder(tree, Root) /\ d = InOrder(tree, Root)[n]
        /\ output = Drawn(tree, n - 1) \o DrawnWithin(tree, d, p)
    BY <1>1, <1>3, <2>3 DEF Drawing
  <2>5. p >= 2 /\ p - 2 >= k
    <3>1. k \in Nat /\ Len(Contents(tree, d)) = 2 + k
      BY <1>1, <2>3, ContentsAre
    <3>2. QED
      BY <1>2, <3>1
  <2>6. DrawnWithin(tree, d, p) = Branch(tree, d)
    BY <1>1, <1>2, <2>3, <2>5, DrawnWithinGrows
  <2>7. /\ n \in 1 .. Cardinality(Children(tree, Root))
        /\ Cardinality(Children(tree, Root)) \in Nat
    BY <1>1, <2>4, ChildrenInOrder
  <2>8. Drawn(tree, n) = Drawn(tree, n - 1) \o Branch(tree, d)
    <3>1. PICK m \in Nat : m = n - 1
      BY <2>7
    <3>2. m < Cardinality(Children(tree, Root)) /\ m + 1 = n
      BY <2>7, <3>1
    <3>3. Drawn(tree, m + 1) = Drawn(tree, m) \o Branch(tree, InOrder(tree, Root)[m + 1])
      BY <1>1, <3>2, DrawnGrows
    <3>4. QED
      BY <2>4, <3>1, <3>2, <3>3
  <2>9. output' = Drawn(tree, n)
    BY <1>1, <2>3, <2>4, <2>6, <2>8
  <2>10. Drawing'
    BY <1>1, <2>2, <2>9 DEF Drawing
  <2>11. TreeShowsAll'
    BY <2>1 DEF TreeShowsAll, Done
  <2>12. QED
    BY <2>10, <2>11
<1>4. CASE Len(frames) = 1
  <2>1. pc' = "prompt"
    BY <1>4 DEF EndOfDirectory
  <2>2. Drawing'
    BY <2>1 DEF Drawing
  <2>3. CASE cmd.op = "tree"
    <3>1. Scan.dir = Root /\ Scan.i \in Nat /\ Passed(Scan) = Scan.i
      BY <1>1, <1>2, <1>4, <2>3 DEF SearchInv, Nesting, Passed, FrameType
    <3>2. Scan.i >= Cardinality(Children(tree, Root))
      <4>1. /\ Cardinality(Children(tree, Root)) \in Nat
            /\ Len(Contents(tree, Root)) = 0 + Cardinality(Children(tree, Root))
        BY <1>1, ContentsAre
      <4>2. QED
        BY <1>2, <3>1, <4>1
    <3>3. output = Drawn(tree, Scan.i)
      BY <1>1, <1>4, <2>3 DEF Drawing
    <3>4. output = FlattenSeq(Branches(tree))
      BY <1>1, <3>1, <3>2, <3>3, DrawnGrows
    <3>5. output' = Outline(tree')
      BY <1>1, <2>3, <3>4, OutlineIsBranches DEF PlainImage
    <3>6. QED
      BY <2>2, <3>5 DEF TreeShowsAll
  <2>4. CASE cmd.op # "tree"
    BY <1>1, <2>2, <2>4 DEF TreeShowsAll, Done
  <2>5. QED
    BY <2>3, <2>4
<1>5. QED
  BY <1>2, <1>3, <1>4

(* A tree command starts with nothing printed.                                 *)
LEMMA CommandDraws ==
  ASSUME SearchInv, NEW a \in Arguments, Command(a)
  PROVE  Drawing' /\ TreeShowsAll'
<1> DEFINE d == IF a.op \in {"info", "tree"} \/ AtRoot THEN Root ELSE current_directory_entry
<1>1. /\ frames' = <<Frame(d)>> /\ output' = <<>> /\ pc' = "scan" /\ tree' = tree
      /\ tree \in Trees
  BY DEF Command, SearchInv, TypeOK
<1>2. Len(frames') = 1 /\ Scan' = Frame(d)
  BY <1>1 DEF Scan
<1>3. Scan'.i = 0
  BY <1>2 DEF Frame
<1>4. Drawn(tree, 0) = <<>>
  BY <1>1, DrawnGrows
<1>5. QED
  BY <1>1, <1>2, <1>3, <1>4 DEF Drawing, TreeShowsAll, Done

LEMMA InitDraws ==
  ASSUME Init
  PROVE  Drawing /\ TreeShowsAll
<1>1. frames = <<Frame(Root)>> /\ output = <<>> /\ pc = "scan" /\ tree \in Trees
  BY DEF Init
<1>2. Len(frames) = 1 /\ Scan = Frame(Root)
  BY <1>1 DEF Scan
<1>3. Scan.i = 0
  BY <1>2 DEF Frame
<1>4. Drawn(tree, 0) = <<>>
  BY <1>1, DrawnGrows
<1>5. QED
  BY <1>1, <1>2, <1>3, <1>4 DEF Drawing, TreeShowsAll, Done

(* No other command draws, and none undoes what was drawn.                     *)
LEMMA OthersDraw ==
  ASSUME SearchInv, Drawing, TreeShowsAll,
         \/ Exit \/ ListEntry \/ CdEntry \/ ReadEntry \/ CopyCluster \/ EndOfFile
         \/ UNCHANGED vars
  PROVE  Drawing' /\ TreeShowsAll'
<1>1. CASE Exit
  BY <1>1 DEF Exit, Drawing, TreeShowsAll, Done
<1>2. CASE ListEntry \/ CdEntry \/ ReadEntry
  <2>1. cmd' = cmd /\ cmd.op # "tree"
    BY <1>2 DEF ListEntry, CdEntry, ReadEntry
  <2>2. QED
    BY <2>1 DEF Drawing, TreeShowsAll, Done
<1>3. CASE CopyCluster \/ EndOfFile
  <2>1. cmd' = cmd /\ pc = "copy"
    BY <1>3 DEF CopyCluster, EndOfFile
  <2>2. cmd.op = "read"
    BY <2>1 DEF SearchInv, Copying
  <2>3. QED
    BY <2>1, <2>2 DEF Drawing, TreeShowsAll, Done
<1>4. CASE UNCHANGED vars
  <2>1. /\ pc' = pc /\ cmd' = cmd /\ frames' = frames /\ output' = output /\ tree' = tree
        /\ Scan' = Scan
    BY <1>4 DEF vars, Scan
  <2>2. QED
    BY <2>1 DEF Drawing, TreeShowsAll, Done
<1>5. QED
  BY <1>1, <1>2, <1>3, <1>4

LEMMA StepDraws ==
  ASSUME PlainImage, IInv, [Next]_vars
  PROVE  IInv'
<1>1. SearchInv /\ Drawing /\ TreeShowsAll
  BY DEF IInv
<1>2. SearchInv'
  BY <1>1, StepKeepsInvariant
<1>3. ASSUME NEW a \in Arguments, Command(a)
      PROVE  Drawing' /\ TreeShowsAll'
  BY <1>1, <1>3, CommandDraws
<1>4. Drawing' /\ TreeShowsAll'
  BY <1>1, <1>3, TreeDraws, NextClusterDraws, EndDraws, OthersDraw DEF Next, Work
<1>5. QED
  BY <1>2, <1>4 DEF IInv

-------------------------------------------------------------------------------
(* The theorems.                                                               *)

(* The invariant: the calls of print_tree are at most two deep, each scan is   *)
(* at the entry that the shared position in the image says, and what it has    *)
(* found is what the entries it has passed hold.                               *)
THEOREM ShellInvariance ==
  ASSUME PlainImage
  PROVE  Spec => []IInv
<1>1. Init => IInv
  BY InitHolds, InitDraws DEF IInv
<1>2. IInv /\ [Next]_vars => IInv'
  BY StepDraws
<1>3. QED
  BY <1>1, <1>2, PTL DEF Spec

(* list_files prints the directory that was entered last, all its clusters,    *)
(* and nothing else, for every chain of clusters and every tree.               *)
THEOREM ListsWhatIsHere ==
  ASSUME PlainImage
  PROVE  Spec => []ListsDirectory
<1>1. IInv => ListsDirectory
  BY DEF IInv, SearchInv
<1>2. QED
  BY <1>1, ShellInvariance, PTL

(* read prints the bytes of the ordinary file of that name in the current      *)
(* directory cluster by cluster, none twice and none left out, and never       *)
(* anything of another file.                                                   *)
THEOREM ReadsWholeFile ==
  ASSUME PlainImage
  PROVE  Spec => []ReadsFile
<1>1. IInv => ReadsFile
  BY DEF IInv, SearchInv
<1>2. QED
  BY <1>1, ShellInvariance, PTL

(* change_directory keeps the prompt's path in step with the directory.        *)
THEOREM PromptIsRight ==
  ASSUME PlainImage
  PROVE  Spec => []PromptNamesDirectory
<1>1. IInv => PromptNamesDirectory
  BY DEF IInv, SearchInv
<1>2. QED
  BY <1>1, ShellInvariance, PTL

(* print_tree prints each name of the image once, in the order and on the      *)
(* level it has, although its calls share one position in the file.            *)
THEOREM TreeIsShown ==
  ASSUME PlainImage
  PROVE  Spec => []TreeShowsAll
<1>1. IInv => TreeShowsAll
  BY DEF IInv
<1>2. QED
  BY <1>1, ShellInvariance, PTL

LEMMA StepFollowsTree ==
  ASSUME PlainImage, SearchInv, [Next]_vars
  PROVE  CdFollows \/ UNCHANGED vars
<1>1. CASE CdEntry
  BY <1>1, CdStep
<1>2. CASE EndOfDirectory
  BY <1>2, EndOfDirectoryStep
<1>3. ASSUME Next, ~CdEntry, ~EndOfDirectory
      PROVE  UNCHANGED directory_vars /\ (pc' = pc \/ pc # "scan" \/ cmd.op # "cd")
  BY <1>3 DEF Next, Work, Exit, Command, ListEntry, ReadEntry, TreeEntry, NextCluster,
              CopyCluster, EndOfFile
<1>4. CASE Next /\ ~CdEntry /\ ~EndOfDirectory
  <2>1. Here' = Here
    BY <1>3, <1>4 DEF directory_vars, Here
  <2>2. ~(cmd.op = "cd" /\ pc = "scan" /\ pc' = "prompt")
    BY <1>3, <1>4
  <2>3. QED
    BY <2>1, <2>2 DEF CdFollows
<1>5. QED
  BY <1>1, <1>2, <1>4

(* cd goes where the name leads in the current directory and stays if it leads *)
(* nowhere, and no other command moves.                                        *)
THEOREM CdIsFollowed ==
  ASSUME PlainImage
  PROVE  Spec => CdFollowsTree
<1>1. IInv /\ [Next]_vars => [CdFollows]_vars
  BY StepFollowsTree DEF IInv
<1>2. CdFollows <=> Here' = IF cmd.op = "cd" /\ pc = "scan" /\ pc' = "prompt"
                            THEN Resolve(tree, Here, cmd.name) ELSE Here
  BY DEF CdFollows
<1>3. QED
  BY <1>1, <1>2, ShellInvariance, PTL DEF Spec, CdFollowsTree
===============================================================================
