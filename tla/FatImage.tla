-------------------------------- MODULE FatImage --------------------------------
(*******************************************************************************)
(* A FAT16 image as fat/fat.c finds it: a tree of directories and files, and   *)
(* its layout in the root directory, the clusters and the file allocation      *)
(* table.  A directory or file is called by the number of its first cluster.   *)
(* Deleted entries, the volume label, the entries of long names and extensions *)
(* are left out.                                                               *)
(*******************************************************************************)
EXTENDS Integers, Sequences, SequencesExt

CONSTANTS
  Items,         \* first clusters of what the image may hold
  Chain,         \* the clusters of each, in order
  Names,
  Kinds,         \* "dir", "file" and "empty" (no cluster) with no attribute but archive,
                 \* "readonly" (a file with others), "none"
  Nested,        \* whether directories may hold directories
  LastMark,      \* what the table holds for the last cluster of a chain
  RootEntries,   \* root_dir_entries
  PerCluster,    \* directory entries in a cluster
  ClusterSize

EndOfChain == 65535   \* 0xFFFF
Marker     == 65528   \* 0xFFF8, the least number that ends a chain
Root       == 0       \* starting_cluster of .. below the root directory

Clusters == UNION {ToSet(Chain[c]) : c \in Items}

ASSUME ImageAssumption ==
  /\ Items \subseteq Nat \ {0, 1}
  /\ \A c \in Items : /\ Chain[c] \in Seq(2 .. Marker - 1)
                      /\ Chain[c] # <<>> /\ Chain[c][1] = c
                      /\ IsInjective(Chain[c])
  /\ \A c, d \in Items : c # d => ToSet(Chain[c]) \cap ToSet(Chain[d]) = {}
  /\ LastMark \in Marker .. EndOfChain
  /\ {RootEntries, PerCluster} \subseteq Nat \ {0}
  /\ ClusterSize \in Nat \ {0, 1}

-------------------------------------------------------------------------------
(* The tree.                                                                   *)

Dirs(t)        == {d \in Items : t.kind[d] = "dir"}
Children(t, d) == {c \in Items : t.kind[c] # "none" /\ t.up[c] = d}

(* What directory d holds, in some order, . and .. first below the root.       *)
Entry(t, c) ==
  [name |-> t.name[c], kind |-> t.kind[c], first |-> IF t.kind[c] = "empty" THEN 0 ELSE c,
   size |-> IF t.kind[c] = "empty" THEN 0 ELSE ClusterSize * Len(Chain[c]) - 1]
DotEntry(n, c) == [name |-> n, kind |-> "dir", first |-> c, size |-> 0]
Free == [name |-> "", kind |-> "none", first |-> 0, size |-> 0]

Dots(t, d)    == IF d = Root THEN <<>> ELSE <<DotEntry(".", d), DotEntry("..", t.up[d])>>
InOrder(t, d) == SetToSeq(Children(t, d))
Contents(t, d) ==
  Dots(t, d) \o [i \in DOMAIN InOrder(t, d) |-> Entry(t, InOrder(t, d)[i])]

Trees ==
  {t \in [kind : [Items -> Kinds], up : [Items -> Items \cup {Root}], name : [Items -> Names]] :
     /\ \A c \in Items :
          /\ t.up[c] # Root => t.kind[t.up[c]] = "dir" /\ t.up[c] # c
          /\ t.kind[c] = "dir" /\ t.up[c] # Root => Nested /\ t.up[c] < c
          /\ t.kind[c] = "none" => t.up[c] = Root /\ t.name[c] = CHOOSE n \in Names : TRUE
          /\ t.kind[c] = "dir" => Len(Contents(t, c)) <= PerCluster * Len(Chain[c])
     /\ \A d \in Items \cup {Root} : \A b, c \in Children(t, d) :
          t.name[b] = t.name[c] => b = c
     /\ Len(Contents(t, Root)) <= RootEntries}

-------------------------------------------------------------------------------
(* The layout.                                                                 *)

(* Whose cluster c is, and the number it has there.                            *)
Owner(c) == CHOOSE d \in Items : c \in ToSet(Chain[d])
Place(c) == CHOOSE k \in DOMAIN Chain[Owner(c)] : Chain[Owner(c)][k] = c

(* Entry i of cluster c, or of the root directory.                             *)
Nth(s, i) == IF i < Len(s) THEN s[i + 1] ELSE Free
Slot(t, c, i) ==
  IF c = Root THEN Nth(Contents(t, Root), i)
  ELSE IF t.kind[Owner(c)] = "dir"
       THEN Nth(Contents(t, Owner(c)), (Place(c) - 1) * PerCluster + i) ELSE Free

(* The file allocation table.                                                  *)
Fat(c) == IF Place(c) < Len(Chain[Owner(c)]) THEN Chain[Owner(c)][Place(c) + 1] ELSE LastMark

-------------------------------------------------------------------------------
(* What the commands should print: the names in a directory, the bytes of a    *)
(* file cluster by cluster, the tree with the level of each name.              *)

Listing(t, d) == [i \in DOMAIN Contents(t, d) |-> Contents(t, d)[i].name]

Data(t, c) ==
  IF t.kind[c] = "empty" THEN <<>>
  ELSE [k \in DOMAIN Chain[c] |->
          <<Chain[c][k], IF k < Len(Chain[c]) THEN ClusterSize ELSE ClusterSize - 1>>]

Deeper(rows) == [i \in DOMAIN rows |-> <<rows[i][1] + 1, rows[i][2]>>]
Outline(t) ==
  LET below[d \in Items \cup {Root}] ==
        FlattenSeq([i \in DOMAIN InOrder(t, d) |->
          LET c == InOrder(t, d)[i]
          IN <<<<1, t.name[c]>>>>
               \o (IF t.kind[c] = "dir" THEN Deeper(below[c]) ELSE <<>>)])
  IN below[Root]

(* The directory that the name n in d stands for, or d itself.                 *)
Resolve(t, d, n) ==
  LET target == {c \in Children(t, d) : t.kind[c] = "dir" /\ t.name[c] = n}
  IN IF n = ".." /\ d # Root THEN t.up[d]
     ELSE IF target = {} THEN d ELSE CHOOSE c \in target : TRUE
===============================================================================
