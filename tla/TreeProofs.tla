------------------------------ MODULE TreeProofs ------------------------------
(***************************************************************************)
(* The panel shows the tree and the tree tells what is being read, whatever *)
(* the databases, their tables and the filters are and in whatever order   *)
(* listings, sizes and definitions come in.                                *)
(***************************************************************************)
EXTENDS ObjectTree, SequenceTheorems, NaturalsInduction, WellFoundedInduction, TLAPS

(* The shapes of the state.                                                *)

Words == DBs \cup ToSet(Cats) \cup ToSet(Tables) \cup Patterns \cup {"", "g"}
Places == DBs \X ToSet(Cats)
Category == [loading : BOOLEAN, loaded : BOOLEAN, kids : SUBSET Words]
Panels == [filter : Words, filtering : BOOLEAN, navigated : BOOLEAN, cursor : Int]
Triggers == [node : Seq(Words), req : Nat, ddl : Seq(Words)]
Requests == [kind : {"databases", "relations", "sizes", "triggers", "ddl"}, db : Words, n : Nat, tables : SUBSET Words]

\* The nodes there can be: of the triggers there is one a database.
AllNodes ==
  {n \in Seq(Words) :
     /\ Len(n) \in 1 .. 3 /\ n[1] \in DBs
     /\ Len(n) > 1 => n[2] \in ToSet(Cats)
     /\ leaf(n) /\ n[2] = "Triggers" => n = <<n[1], "Triggers", "g">>}

TreeTypes ==
  /\ srv \in [DBs -> SUBSET Words] /\ roots \in Seq(DBs) /\ sizes \in [DBs -> SUBSET Words]
  /\ panel \in Panels /\ trigger \in Triggers /\ asked \in Nat

\* The list is that of the tree, and its cursor is on a row.
CursorOn(rs, pn) == pn.cursor \in (IF items(rs, pn.filter) = <<>> THEN {0} ELSE DOMAIN items(rs, pn.filter))

\* The requests are numbered in the order they were sent, the listings before
\* any definition; the number of a definition's is that of the trigger it is of.
Numbered(as, k, tr) ==
  /\ as \subseteq Requests
  /\ \A a \in as :
       /\ a.n < k
       /\ a.kind = "ddl" => a.n > 0 /\ (tr.req = a.n => tr.node = <<a.db, "Triggers", "g">>)

\* What is loading is in the tree and was asked for, tables and views go
\* together, and what has been read was asked for once.
Together(ct) ==
  \A d \in DBs : /\ ct[d, "Tables"].loaded = ct[d, "Views"].loaded
                 /\ ct[d, "Tables"].loading = ct[d, "Views"].loading
AskFor(as, d, c) == \E a \in as : a.db = d /\ a.kind = IF c = "Triggers" THEN "triggers" ELSE "relations"
Reading(ct, as, k, rs) ==
  /\ ct \in [Places -> Category] /\ Together(ct)
  /\ \A d \in DBs, c \in ToSet(Cats) :
       /\ ct[d, c].loading => d \in ToSet(rs) /\ AskFor(as, d, c)
       /\ ct[d, c].kids # {} => k > 0

\* The nodes that are marked and sized are those they should be.
Marked(rs, ct, ch, mk) == \A d \in ToSet(rs) : \A n \in Nodes(d, "Tables", ct) : n \in mk <=> d \in ch
Sized(rs, ct, sz, st) == \A d \in ToSet(rs) : \A n \in Nodes(d, "Tables", ct) : n \in st <=> n[3] \in sz[d]

TreeInv ==
  /\ TreeTypes
  /\ rows = flatten(roots, open, cat) /\ CursorOn(rows, panel)
  /\ Marked(roots, cat, changes, marks) /\ Sized(roots, cat, sizes, sized)
  /\ mirror = IF database = NoDb THEN {} ELSE listed[database].tables
  /\ Reading(cat, asks, asked, roots)
  /\ Numbered(asks, asked, trigger)
  /\ trigger.ddl \in {Nothing, trigger.node}
  /\ ~live => roots = <<>>

(* A set of naturals that is not empty has a least element.                *)
LEMMA LeastNumber ==
  ASSUME NEW T \in SUBSET Nat, NEW n \in T
  PROVE  \E m \in T : \A k \in T : m <= k
<1>1. IsWellFoundedOn(OpToRel(<, Nat), Nat)
  BY NatLessThanWellFounded
<1>2. PICK m \in T : \A k \in T : ~(<<k, m>> \in OpToRel(<, Nat))
  BY <1>1, WFMin
<1>3. \A k \in T : ~(k < m)
  BY <1>2 DEF OpToRel
<1> QED
  BY <1>3

(* Induction, over the set of the numbers a fact holds of.                 *)
LEMMA SetInduction ==
  ASSUME NEW S, 0 \in S, \A n \in Nat : n \in S => n + 1 \in S
  PROVE  Nat \subseteq S
<1> DEFINE T == Nat \ S
<1>1. ASSUME NEW n \in T PROVE FALSE
  <2>1. PICK m \in T : \A k \in T : m <= k
    BY <1>1, LeastNumber
  <2>2. m # 0 /\ m - 1 \in Nat /\ m - 1 \notin T
    BY <2>1
  <2> QED
    BY <2>2
<1> QED
  BY <1>1

-----------------------------------------------------------------------------
(* Sequences.                                                              *)

(* What is kept of a sequence is a sequence of its members at those places. *)
LEMMA KeptIs ==
  ASSUME NEW R, NEW s \in Seq(R), NEW T
  PROVE  Kept(s, T) \in Seq({s[k] : k \in DOMAIN s \cap T})
<1> DEFINE Do(x, n) == IF n \in T THEN Append(x, s[n]) ELSE x
           Step(f, n) == IF n = 0 THEN <<>> ELSE Do(f[n - 1], n)
           S == {k \in Nat : \E f : f = [n \in 0 .. k |-> Step(f, n)]}
<1>1. 0 \in S
  <2> DEFINE f == [n \in 0 .. 0 |-> <<>>]
  <2>1. \A n \in 0 .. 0 : Step(f, n) = <<>>
    OBVIOUS
  <2>2. f = [n \in 0 .. 0 |-> Step(f, n)]
    BY <2>1
  <2> QED
    BY <2>2
<1>2. ASSUME NEW k \in Nat, k \in S PROVE k + 1 \in S
  <2>1. PICK f : f = [n \in 0 .. k |-> Step(f, n)]
    BY <1>2
  <2> HIDE DEF Do
  <2> DEFINE g == [n \in 0 .. (k + 1) |-> IF n <= k THEN f[n] ELSE Do(f[k], k + 1)]
  <2>2. ASSUME NEW n \in 0 .. (k + 1) PROVE g[n] = Step(g, n)
    <3>1. CASE n = 0
      BY <3>1, <2>1
    <3>2. CASE n \in 1 .. k
      <4>1. g[n] = f[n] /\ g[n - 1] = f[n - 1] /\ n # 0 /\ n \in 0 .. k
        BY <3>2
      <4>2. f[n] = Step(f, n)
        BY <4>1, <2>1
      <4> QED
        BY <4>1, <4>2
    <3>3. CASE n = k + 1
      <4>1. g[n - 1] = f[k] /\ n # 0 /\ ~(n <= k)
        BY <3>3
      <4> QED
        BY <4>1, <3>3
    <3> QED
      BY <3>1, <3>2, <3>3
  <2> HIDE DEF Step
  <2>3. g = [n \in 0 .. (k + 1) |-> Step(g, n)]
    BY <2>2
  <2> HIDE DEF g
  <2>4. \E h : h = [n \in 0 .. (k + 1) |-> Step(h, n)]
    BY <2>3
  <2> QED
    BY <2>4
<1>3. Nat \subseteq S
  <2> HIDE DEF S
  <2> QED
    BY <1>1, <1>2, SetInduction
<1> DEFINE N == Len(s)
           w == CHOOSE f : f = [n \in 0 .. N |-> Step(f, n)]
           K == {s[k] : k \in DOMAIN s \cap T}
<1>4. N \in Nat /\ DOMAIN s = 1 .. N
  OBVIOUS
<1>5. \E f : f = [n \in 0 .. N |-> Step(f, n)]
  BY <1>3, <1>4
<1>6. Kept(s, T) = w[N]
  BY DEF Kept
<1>7. w = [n \in 0 .. N |-> Step(w, n)]
  <2> HIDE DEF Step, N
  <2> QED
    BY <1>5
<1> HIDE DEF w
<1>8. \A n \in 0 .. N : w[n] = Step(w, n)
  <2> HIDE DEF Step
  <2> QED
    BY <1>7
<1>9. w[0] = <<>> /\ \A n \in 1 .. N : w[n] = IF n \in T THEN Append(w[n - 1], s[n]) ELSE w[n - 1]
  BY <1>4, <1>8
<1> DEFINE Q == {n \in Nat : n <= N => w[n] \in Seq(K)}
<1>10. 0 \in Q
  <2> HIDE DEF K
  <2>1. w[0] = <<>>
    BY <1>9
  <2>2. w[0] \in Seq(K)
    BY <2>1
  <2> QED
    BY <2>2
<1>11. ASSUME NEW n \in Nat, n \in Q PROVE n + 1 \in Q
  <2> SUFFICES ASSUME n + 1 <= N PROVE w[n + 1] \in Seq(K)
    OBVIOUS
  <2>1. n + 1 \in 1 .. N /\ (n + 1) - 1 = n /\ w[n] \in Seq(K)
    BY <1>4, <1>11
  <2>2. w[n + 1] = IF n + 1 \in T THEN Append(w[n], s[n + 1]) ELSE w[n]
    BY <1>9, <2>1
  <2>3. n + 1 \in T => s[n + 1] \in K
    BY <1>4, <2>1
  <2> HIDE DEF K
  <2> QED
    BY <2>1, <2>2, <2>3
<1>12. N \in Q
  <2> HIDE DEF Q
  <2> QED
    BY <1>4, <1>10, <1>11, SetInduction
<1> QED
  BY <1>6, <1>12

(* The pieces of a sequence of sequences, one after the other.             *)
LEMMA FlattenIs ==
  ASSUME NEW R, NEW ss \in Seq(Seq(R))
  PROVE  FlattenSeq(ss) \in Seq(R)
<1> DEFINE N == Len(ss)
           Step(f, n) == IF n = 1 THEN ss[n] ELSE f[n - 1] \o ss[n]
           S == {k \in Nat : k >= 1 => \E f : f = [n \in 1 .. k |-> Step(f, n)]}
<1>0. N \in Nat /\ \A n \in 1 .. N : ss[n] \in Seq(R)
  OBVIOUS
<1>1. 0 \in S
  OBVIOUS
<1>2. ASSUME NEW k \in Nat, k \in S PROVE k + 1 \in S
  <2>1. CASE k = 0
    <3> DEFINE f == [n \in 1 .. 1 |-> ss[1]]
    <3>1. \A n \in 1 .. 1 : Step(f, n) = ss[1]
      OBVIOUS
    <3>2. f = [n \in 1 .. 1 |-> Step(f, n)]
      BY <3>1
    <3> HIDE DEF f, Step
    <3>3. \E h : h = [n \in 1 .. 1 |-> Step(h, n)]
      BY <3>2
    <3>4. k + 1 = 1
      BY <2>1
    <3>5. \E h : h = [n \in 1 .. (k + 1) |-> Step(h, n)]
      BY <3>3, <3>4, Zenon
    <3> QED
      BY <3>5
  <2>2. CASE k # 0
    <3>1. PICK f : f = [n \in 1 .. k |-> Step(f, n)]
      <4>1. k >= 1
        BY <2>2
      <4> HIDE DEF Step
      <4> QED
        BY <1>2, <4>1
    <3> DEFINE g == [n \in 1 .. (k + 1) |-> IF n <= k THEN f[n] ELSE f[k] \o ss[k + 1]]
    <3>2. ASSUME NEW n \in 1 .. (k + 1) PROVE g[n] = Step(g, n)
      <4>1. CASE n = 1
        BY <2>2, <3>1, <4>1
      <4>2. CASE n \in 2 .. k
        <5>1. g[n] = f[n] /\ g[n - 1] = f[n - 1] /\ n # 1 /\ n \in 1 .. k
          BY <4>2
        <5>2. f[n] = Step(f, n)
          BY <5>1, <3>1
        <5> QED
          BY <5>1, <5>2
      <4>3. CASE n = k + 1 /\ n # 1
        <5>1. g[n - 1] = f[k] /\ ~(n <= k)
          BY <2>2, <4>3
        <5> QED
          BY <5>1, <4>3
      <4> QED
        BY <4>1, <4>2, <4>3
    <3> HIDE DEF Step
    <3>3. g = [n \in 1 .. (k + 1) |-> Step(g, n)]
      BY <3>2
    <3> HIDE DEF g
    <3>4. \E h : h = [n \in 1 .. (k + 1) |-> Step(h, n)]
      BY <3>3
    <3> QED
      BY <3>4
  <2> QED
    BY <2>1, <2>2
<1>3. Nat \subseteq S
  <2> HIDE DEF S
  <2> QED
    BY <1>1, <1>2, SetInduction
<1>4. CASE N = 0
  <2>1. FlattenSeq(ss) = ss /\ ss = <<>>
    BY <1>4 DEF FlattenSeq
  <2> QED
    BY <2>1
<1>5. CASE N # 0
  <2> DEFINE w == CHOOSE f : f = [n \in 1 .. N |-> Step(f, n)]
  <2>1. N >= 1
    BY <1>0, <1>5
  <2>2. \E f : f = [n \in 1 .. N |-> Step(f, n)]
    BY <1>0, <1>3, <2>1
  <2>3. FlattenSeq(ss) = w[N]
    BY <1>5 DEF FlattenSeq
  <2>4. w = [n \in 1 .. N |-> Step(w, n)]
    <3> HIDE DEF Step, N
    <3> QED
      BY <2>2
  <2> HIDE DEF w
  <2>5. \A n \in 1 .. N : w[n] = Step(w, n)
    <3> HIDE DEF Step
    <3> QED
      BY <2>4
  <2> DEFINE Q == {n \in Nat : 1 <= n /\ n <= N => w[n] \in Seq(R)}
  <2>6. 0 \in Q
    OBVIOUS
  <2>7. ASSUME NEW n \in Nat, n \in Q PROVE n + 1 \in Q
    <3> SUFFICES ASSUME n + 1 <= N PROVE w[n + 1] \in Seq(R)
      OBVIOUS
    <3>1. n + 1 \in 1 .. N /\ (n + 1) - 1 = n /\ ss[n + 1] \in Seq(R)
      BY <1>0
    <3>2. CASE n = 0
      BY <2>5, <3>1, <3>2
    <3>3. CASE n # 0
      <4>1. w[n] \in Seq(R)
        BY <2>7, <3>3
      <4>2. w[n + 1] = Step(w, n + 1)
        BY <2>5, <3>1
      <4>3. w[n + 1] = w[n] \o ss[n + 1]
        <5>1. n + 1 # 1
          BY <3>3
        <5>2. w[n + 1] = w[(n + 1) - 1] \o ss[n + 1]
          BY <4>2, <5>1, Zenon
        <5> QED
          BY <3>1, <5>2, Zenon
      <4> QED
        BY <3>1, <4>1, <4>3
    <3> QED
      BY <3>2, <3>3
  <2>8. N \in Q
    <3> HIDE DEF Q
    <3> QED
      BY <1>0, <2>6, <2>7, SetInduction
  <2> QED
    BY <1>0, <2>1, <2>3, <2>8
<1> QED
  BY <1>4, <1>5

-----------------------------------------------------------------------------
(* The list.                                                               *)

(* Three in a row.                                                         *)
LEMMA Triple ==
  ASSUME NEW R, NEW x \in R, NEW y \in R, NEW z \in R
  PROVE  /\ <<x, y, z>> \in Seq(R) /\ Len(<<x, y, z>>) = 3
         /\ <<x, y, z>>[1] = x /\ <<x, y, z>>[2] = y /\ <<x, y, z>>[3] = z
OBVIOUS

(* The words there are.                                                    *)
LEMMA WordsAre ==
  /\ Databases \in Seq(DBs) /\ Databases # <<>> /\ Tables \in Seq(Words)
  /\ DBs \subseteq Words /\ Patterns \subseteq Words
  /\ {"Tables", "Views", "Triggers"} = ToSet(Cats)
  /\ {"Tables", "Views", "Triggers", "", "g"} \subseteq Words
<1>1. ToSet(Cats) = {"Tables", "Views", "Triggers"}
  BY DEF Cats, ToSet
<1>2. Databases \in Seq(DBs)
  BY TreeConstants DEF DBs, ToSet
<1>3. Tables \in Seq(ToSet(Tables))
  BY TreeConstants DEF ToSet
<1>4. Tables \in Seq(Words)
  <2> DEFINE T == ToSet(Tables)
  <2>1. T \subseteq Words
    BY DEF Words
  <2> HIDE DEF T
  <2>2. Tables \in Seq(T)
    BY <1>3 DEF T
  <2> QED
    BY <2>1, <2>2
<1> QED
  BY <1>1, <1>2, <1>4, TreeConstants DEF Words

(* Every place of the tree is a node.                                      *)
LEMMA PathsAreNodes == Paths \in Seq(AllNodes)
<1> DEFINE Leaves(d, j) == [k \in DOMAIN Names(Cats[j]) |-> <<d, Cats[j], Names(Cats[j])[k]>>]
           Branch(d, j) == <<<<d, Cats[j]>>>> \o Leaves(d, j)
           Branches(d) == [j \in DOMAIN Cats |-> Branch(d, j)]
           Whole(i) == <<<<Databases[i]>>>> \o FlattenSeq(Branches(Databases[i]))
           All == [i \in DOMAIN Databases |-> Whole(i)]
<1>1. Cats \in Seq(Words) /\ Len(Cats) = 3 /\ DOMAIN Cats = 1 .. 3
  <2>1. "Tables" \in Words /\ "Views" \in Words /\ "Triggers" \in Words
    BY WordsAre
  <2>2. Cats \in Seq(Words)
    BY <2>1, Triple DEF Cats
  <2> QED
    BY <2>2 DEF Cats
<1>2. ASSUME NEW d \in DBs PROVE d \in Words
  BY <1>2, WordsAre
<1>3. ASSUME NEW d \in DBs, NEW j \in 1 .. 3 PROVE Branch(d, j) \in Seq(AllNodes)
  <2>1. d \in Words /\ Cats[j] \in Words /\ Cats[j] \in ToSet(Cats)
    <3>1. Cats[j] \in Words
      BY <1>1, <1>3, ElementOfSeq
    <3>2. Cats[j] \in ToSet(Cats)
      BY <1>1, <1>3 DEF ToSet
    <3> QED
      BY <1>2, <1>3, <3>1, <3>2
  <2>2. <<d, Cats[j]>> \in AllNodes
    BY <1>3, <2>1 DEF AllNodes, leaf
  <2>3. Names(Cats[j]) \in Seq(Words) /\ (Cats[j] = "Triggers" => Names(Cats[j]) = <<"g">>)
    <3>1. "g" \in Words /\ <<"g">> \in Seq(Words) /\ <<>> \in Seq(Words)
      <4>1. "g" \in Words
        BY WordsAre
      <4> QED
        BY <4>1
    <3>2. Cats[j] \in {"Tables", "Views", "Triggers"}
      BY <1>3 DEF Cats
    <3> QED
      BY <3>1, <3>2, WordsAre DEF Names
  <2>4. ASSUME NEW k \in DOMAIN Names(Cats[j]) PROVE <<d, Cats[j], Names(Cats[j])[k]>> \in AllNodes
    <3> DEFINE x == Names(Cats[j])[k]
               n == <<d, Cats[j], x>>
    <3>1. x \in Words
      BY <2>3, <2>4
    <3>2. Cats[j] = "Triggers" => x = "g"
      BY <2>3, <2>4
    <3> HIDE DEF x
    <3>3. n \in Seq(Words) /\ Len(n) = 3 /\ n[1] = d /\ n[2] = Cats[j] /\ n[3] = x
      <4> DEFINE c == Cats[j]
      <4> HIDE DEF c
      <4>1. c \in Words
        BY <2>1 DEF c
      <4>2. /\ <<d, c, x>> \in Seq(Words) /\ Len(<<d, c, x>>) = 3
            /\ <<d, c, x>>[1] = d /\ <<d, c, x>>[2] = c /\ <<d, c, x>>[3] = x
        BY <2>1, <3>1, <4>1, Triple
      <4> QED
        BY <4>2 DEF c
    <3>4. n[2] = "Triggers" => n = <<n[1], "Triggers", "g">>
      BY <3>2
    <3>5. n \in AllNodes
      <4> HIDE DEF n
      <4> QED
        BY <1>3, <2>1, <3>3, <3>4 DEF AllNodes, leaf
    <3> QED
      BY <3>5 DEF x
  <2>5. Leaves(d, j) \in Seq(AllNodes)
    <3>1. Len(Names(Cats[j])) \in Nat /\ DOMAIN Names(Cats[j]) = 1 .. Len(Names(Cats[j]))
      BY <2>3
    <3> QED
      BY <2>4, <3>1
  <2> HIDE DEF Leaves
  <2> QED
    BY <2>2, <2>5
<1>4. ASSUME NEW d \in DBs PROVE FlattenSeq(Branches(d)) \in Seq(AllNodes)
  <2>1. Branches(d) \in Seq(Seq(AllNodes))
    <3> HIDE DEF Branch
    <3> QED
      BY <1>1, <1>3, <1>4
  <2> HIDE DEF Branches
  <2> QED
    BY <2>1, FlattenIs
<1>5. All \in Seq(Seq(AllNodes))
  <2>1. ASSUME NEW i \in DOMAIN Databases PROVE Whole(i) \in Seq(AllNodes)
    <3>1. Databases[i] \in DBs
      BY <2>1 DEF DBs, ToSet
    <3>2. <<Databases[i]>> \in AllNodes
      BY <1>2, <3>1 DEF AllNodes, leaf
    <3> HIDE DEF Branches
    <3> QED
      BY <1>4, <3>1, <3>2
  <2>2. Len(Databases) \in Nat /\ DOMAIN Databases = 1 .. Len(Databases)
    <3>1. Databases \in Seq(DBs)
      BY WordsAre
    <3> QED
      BY <3>1
  <2> HIDE DEF Whole
  <2> QED
    BY <2>1, <2>2
<1>6. Paths = FlattenSeq(All)
  BY DEF Paths
<1> HIDE DEF All
<1> QED
  BY <1>5, <1>6, FlattenIs

(* The rows are nodes that have one.                                       *)
LEMMA RowsAreNodes ==
  ASSUME NEW rs, NEW op, NEW ct
  PROVE  /\ flatten(rs, op, ct) \in Seq(AllNodes)
         /\ \A i \in DOMAIN flatten(rs, op, ct) : hasRow(flatten(rs, op, ct)[i], rs, op, ct)
<1> DEFINE T == {i \in DOMAIN Paths : hasRow(Paths[i], rs, op, ct)}
           K == {Paths[k] : k \in DOMAIN Paths \cap T}
           f == flatten(rs, op, ct)
<1>1. Paths \in Seq(AllNodes)
  BY PathsAreNodes
<1>2. f \in Seq(K)
  <2> HIDE DEF T
  <2>1. Kept(Paths, T) \in Seq(K)
    BY <1>1, KeptIs
  <2> QED
    BY <2>1 DEF flatten, T
<1>3. \A n \in K : n \in AllNodes /\ hasRow(n, rs, op, ct)
  BY <1>1
<1> HIDE DEF K, f
<1>4. f \in Seq(AllNodes) /\ \A i \in DOMAIN f : f[i] \in K
  BY <1>2, <1>3
<1> QED
  BY <1>3, <1>4 DEF f

(* An item of the list is a row.                                           *)
LEMMA ItemsAre ==
  ASSUME NEW R, NEW rs \in Seq(R), NEW p
  PROVE  items(rs, p) \in Seq(DOMAIN rs)
<1> DEFINE D == DOMAIN rs
           all == [i \in D |-> i]
           matched == {i \in D : fuzzyMatch(p, Name(rs[i]))}
<1>1. Len(rs) \in Nat /\ D = 1 .. Len(rs)
  OBVIOUS
<1>2. all \in Seq(D) /\ DOMAIN all = D
  <2> HIDE DEF D
  <2> QED
    BY <1>1
<1>3. CASE p = ""
  BY <1>2, <1>3 DEF items
<1>4. CASE p # ""
  <2> DEFINE T == {i \in D : treeKeep(rs, matched, i)}
             K == {all[k] : k \in DOMAIN all \cap T}
  <2>1. items(rs, p) = Kept(all, T)
    BY <1>4 DEF items
  <2>2. K \subseteq D
    BY <1>2
  <2> HIDE DEF T, all
  <2>3. Kept(all, T) \in Seq(K)
    BY <1>2, KeptIs
  <2> HIDE DEF K, D
  <2> QED
    BY <2>1, <2>2, <2>3 DEF D
<1> QED
  BY <1>3, <1>4

(* What is selected is a node of the tree that has a row.                  *)
LEMMA SelectedHasRow ==
  ASSUME NEW rs, NEW op, NEW ct, NEW pn, NEW i, nodeAt(flatten(rs, op, ct), pn, i) # Nothing
  PROVE  /\ nodeAt(flatten(rs, op, ct), pn, i) \in AllNodes
         /\ hasRow(nodeAt(flatten(rs, op, ct), pn, i), rs, op, ct)
<1> DEFINE f == flatten(rs, op, ct)
           it == items(f, pn.filter)
<1>1. f \in Seq(AllNodes) /\ \A k \in DOMAIN f : hasRow(f[k], rs, op, ct)
  BY RowsAreNodes
<1> HIDE DEF f
<1>2. it \in Seq(DOMAIN f)
  BY <1>1, ItemsAre
<1> HIDE DEF it
<1>3. nodeAt(f, pn, i) = IF i \in DOMAIN it THEN f[it[i]] ELSE Nothing
  BY DEF nodeAt, it
<1>4. i \in DOMAIN it /\ it[i] \in DOMAIN f
  BY <1>2, <1>3 DEF f
<1> QED
  BY <1>1, <1>3, <1>4 DEF f

-----------------------------------------------------------------------------
(* The cursor.                                                             *)

(* A move ends on a row, or nowhere when there is none.                    *)
LEMMA MoveEndsOnARow ==
  ASSUME NEW R, NEW rs \in Seq(R), NEW pn \in Panels, NEW delta \in Int
  PROVE  /\ move(rs, pn, delta) \in Panels
         /\ move(rs, pn, delta).filter = pn.filter
         /\ CursorOn(rs, move(rs, pn, delta))
<1> DEFINE it == items(rs, pn.filter)
           n == Len(it)
           to == pn.cursor + delta
           c == IF n = 0 THEN 0 ELSE IF to < 1 THEN 1 ELSE IF to > n THEN n ELSE to
           q == move(rs, pn, delta)
<1>1. it \in Seq(DOMAIN rs)
  BY ItemsAre
<1>2. n \in Nat /\ DOMAIN it = 1 .. n /\ (n = 0 <=> it = <<>>)
  BY <1>1
<1>3. to \in Int
  BY DEF Panels
<1>4. q = [pn EXCEPT !.cursor = c]
  BY DEF move
<1> HIDE DEF it
<1>5. c \in Int /\ c \in IF it = <<>> THEN {0} ELSE DOMAIN it
  BY <1>2, <1>3
<1> HIDE DEF c
<1>6. q \in Panels /\ q.filter = pn.filter /\ q.cursor = c
  BY <1>4, <1>5 DEF Panels
<1> HIDE DEF q
<1>7. CursorOn(rs, q)
  BY <1>5, <1>6 DEF CursorOn, it
<1> QED
  BY <1>6, <1>7 DEF q

(* So does narrowing the list,                                             *)
LEMMA FilterEndsOnARow ==
  ASSUME NEW R, NEW rs \in Seq(R), NEW pn \in Panels
  PROVE  /\ applyFilter(rs, pn) \in Panels
         /\ applyFilter(rs, pn).filter = pn.filter
         /\ CursorOn(rs, applyFilter(rs, pn))
<1> DEFINE q == IF pn.filter = "" THEN pn ELSE [pn EXCEPT !.cursor = 1]
<1>1. q \in Panels /\ q.filter = pn.filter
  <2> DEFINE t == [pn EXCEPT !.cursor = 1]
  <2>1. t \in Panels /\ t.filter = pn.filter
    BY DEF Panels
  <2> HIDE DEF t
  <2>2. q = IF pn.filter = "" THEN pn ELSE t
    BY DEF t
  <2> HIDE DEF q
  <2> QED
    BY <2>1, <2>2
<1> HIDE DEF q
<1>2. /\ move(rs, q, 0) \in Panels /\ move(rs, q, 0).filter = q.filter
      /\ CursorOn(rs, move(rs, q, 0))
  BY <1>1, MoveEndsOnARow
<1>3. applyFilter(rs, pn) = move(rs, q, 0)
  BY DEF applyFilter, q
<1> QED
  BY <1>1, <1>2, <1>3

(* looking for a node, which it finds if the list has it,                  *)
LEMMA SelectEndsOnARow ==
  ASSUME NEW R, NEW rs \in Seq(R), NEW pn \in Panels, NEW want
  PROVE  /\ selectNode(rs, pn, want) \in Panels
         /\ selectNode(rs, pn, want).filter = pn.filter
         /\ CursorOn(rs, selectNode(rs, pn, want))
         /\ want # Nothing =>
              \/ nodeAt(rs, selectNode(rs, pn, want), selectNode(rs, pn, want).cursor) = want
              \/ \A i : nodeAt(rs, selectNode(rs, pn, want), i) # want
<1> DEFINE it == items(rs, pn.filter)
           At == {i \in DOMAIN it : rs[it[i]] = want}
           q == selectNode(rs, pn, want)
<1>1. it \in Seq(DOMAIN rs)
  BY ItemsAre
<1>2. \A i \in DOMAIN it : i \in Int
  BY <1>1
<1> HIDE DEF it
<1>3. CASE At = {}
  <2> DEFINE p == [pn EXCEPT !.cursor = 1]
  <2>1. p \in Panels /\ p.filter = pn.filter
    BY DEF Panels
  <2>2. q = move(rs, p, 0)
    BY <1>3 DEF selectNode, it
  <2> HIDE DEF p, q
  <2>3. q \in Panels /\ q.filter = pn.filter /\ CursorOn(rs, q)
    <3>1. /\ move(rs, p, 0) \in Panels /\ move(rs, p, 0).filter = p.filter
          /\ CursorOn(rs, move(rs, p, 0))
      BY <2>1, MoveEndsOnARow
    <3> QED
      BY <2>1, <2>2, <3>1
  <2>4. ASSUME want # Nothing, NEW i PROVE nodeAt(rs, q, i) # want
    BY <1>3, <2>3, <2>4 DEF nodeAt, it
  <2> QED
    BY <2>3, <2>4 DEF q
<1>4. CASE At # {}
  <2> DEFINE c == CHOOSE i \in At : TRUE
  <2>1. c \in At
    BY <1>4
  <2>2. q = [pn EXCEPT !.cursor = c]
    BY <1>4 DEF selectNode, it
  <2> HIDE DEF c
  <2>3. q \in Panels /\ q.filter = pn.filter /\ q.cursor = c
    BY <1>2, <2>1, <2>2 DEF Panels
  <2> HIDE DEF q
  <2>4. CursorOn(rs, q)
    BY <2>1, <2>3 DEF CursorOn, it
  <2>5. nodeAt(rs, q, q.cursor) = want
    BY <2>1, <2>3 DEF nodeAt, it
  <2> QED
    BY <2>3, <2>4, <2>5 DEF q
<1> QED
  BY <1>3, <1>4

(* and looking for a name.                                                 *)
LEMMA SelectByNameEndsOnARow ==
  ASSUME NEW R, NEW rs \in Seq(R), NEW pn \in Panels, NEW name
  PROVE  /\ selectByName(rs, pn, name) \in Panels
         /\ selectByName(rs, pn, name).filter = pn.filter
         /\ CursorOn(rs, selectByName(rs, pn, name))
<1> DEFINE it == items(rs, pn.filter)
           At == {i \in DOMAIN it : Name(rs[it[i]]) = name}
           q == selectByName(rs, pn, name)
<1>1. it \in Seq(DOMAIN rs)
  BY ItemsAre
<1>2. \A i \in DOMAIN it : i \in Nat
  BY <1>1
<1> HIDE DEF it
<1>3. CASE At = {}
  <2>1. q = move(rs, pn, 0)
    BY <1>3 DEF selectByName, it
  <2> QED
    BY <2>1, MoveEndsOnARow
<1>4. CASE At # {}
  <2> DEFINE c == CHOOSE i \in At : \A j \in At : i <= j
  <2>1. At \in SUBSET Nat /\ \A i \in At : i \in DOMAIN it
    BY <1>2
  <2>2. q = [pn EXCEPT !.cursor = c]
    BY <1>4 DEF selectByName, it
  <2> HIDE DEF At
  <2>3. \E i \in At : \A j \in At : i <= j
    BY <1>4, <2>1, LeastNumber
  <2>4. c \in At
    BY <2>3
  <2> HIDE DEF c
  <2>5. q \in Panels /\ q.filter = pn.filter /\ q.cursor = c /\ c \in DOMAIN it
    BY <1>2, <2>1, <2>2, <2>4 DEF Panels
  <2> HIDE DEF q
  <2>6. CursorOn(rs, q)
    BY <2>5 DEF CursorOn, it
  <2> QED
    BY <2>5, <2>6 DEF q
<1> QED
  BY <1>3, <1>4

(* A pattern typed or cleared leaves the cursor on a row.                  *)
LEMMA SetFilterEndsOnARow ==
  ASSUME NEW R, rows \in Seq(R), NEW pn \in Panels, NEW pattern \in Words
  PROVE  setFilter(pn, pattern) \in Panels /\ CursorOn(rows, setFilter(pn, pattern))
<1> DEFINE o == [pn EXCEPT !.filter = pattern]
           p == applyFilter(rows, o)
<1>1. o \in Panels
  BY DEF Panels
<1> HIDE DEF o
<1>2. p \in Panels /\ CursorOn(rows, p)
  BY <1>1, FilterEndsOnARow
<1>3. setFilter(pn, pattern) = IF selectedNode = Nothing THEN p ELSE selectByName(rows, p, Name(selectedNode))
  BY DEF setFilter, o
<1> HIDE DEF p
<1>4. /\ selectByName(rows, p, Name(selectedNode)) \in Panels
      /\ CursorOn(rows, selectByName(rows, p, Name(selectedNode)))
  BY <1>2, SelectByNameEndsOnARow
<1> QED
  BY <1>2, <1>3, <1>4

(* So does closing the filter.                                             *)
LEMMA ClearFilterEndsOnARow ==
  ASSUME NEW R, rows \in Seq(R), NEW pn \in Panels, CursorOn(rows, pn)
  PROVE  clearFilter(pn) \in Panels /\ CursorOn(rows, clearFilter(pn))
<1> DEFINE p == [pn EXCEPT !.filtering = FALSE, !.navigated = FALSE]
<1>1. p \in Panels /\ p.filter = pn.filter /\ p.cursor = pn.cursor
  BY DEF Panels
<1>2. clearFilter(pn) = IF p.filter = "" THEN p ELSE setFilter(p, "")
  BY DEF clearFilter
<1> HIDE DEF p
<1>3. setFilter(p, "") \in Panels /\ CursorOn(rows, setFilter(p, ""))
  BY <1>1, SetFilterEndsOnARow, WordsAre
<1>4. CursorOn(rows, p)
  BY <1>1 DEF CursorOn
<1> QED
  BY <1>1, <1>2, <1>3, <1>4

-----------------------------------------------------------------------------
(* The parts of a step.                                                    *)

(* The marks are of what is staged.                                        *)
LEMMA MarksAre ==
  ASSUME NEW rs, NEW ct, NEW mk, mk = markStagedSchema(rs, ct)
  PROVE  Marked(rs, ct, changes', mk)
<1>1. ASSUME NEW d \in ToSet(rs), NEW x \in ct[d, "Tables"].kids
      PROVE  <<d, "Tables", x>> \in mk <=> d \in changes'
  <2>1. ASSUME d \in changes' PROVE <<d, "Tables", x>> \in mk
    <3>1. <<d, "Tables", x>> \in Nodes(d, "Tables", ct)
      BY <1>1 DEF Nodes
    <3>2. d \in ToSet(rs) \cap changes'
      BY <1>1, <2>1
    <3> QED
      BY <3>1, <3>2 DEF markStagedSchema
  <2>2. ASSUME <<d, "Tables", x>> \in mk PROVE d \in changes'
    <3>1. PICK e \in ToSet(rs) \cap changes' : <<d, "Tables", x>> \in Nodes(e, "Tables", ct)
      BY <2>2 DEF markStagedSchema
    <3> QED
      BY <3>1 DEF Nodes
  <2> QED
    BY <2>1, <2>2
<1> QED
  BY <1>1 DEF Marked, Nodes

(* A refreshed list is that of the tree, with its marks, and keeps the node *)
(* under the cursor unless it is one of the fresh ones or is gone.         *)
LEMMA RefreshShows ==
  ASSUME NEW fresh, NEW pn \in Panels, refreshTree(fresh, pn)
  PROVE  /\ rows' = flatten(roots', open', cat')
         /\ panel' \in Panels /\ panel'.filter = pn.filter
         /\ CursorOn(rows', panel')
         /\ Marked(roots', cat', changes', marks')
         /\ selectedNode # Nothing /\ selectedNode \notin fresh =>
              \/ nodeAt(rows', panel', panel'.cursor) = selectedNode
              \/ \A i : nodeAt(rows', panel', i) # selectedNode
<1> DEFINE f == flatten(roots', open', cat')
           keep == IF selectedNode \in fresh THEN Nothing ELSE selectedNode
           p == applyFilter(rows', pn)
<1>1. rows' = f /\ panel' = selectNode(rows', p, keep) /\ marks' = markStagedSchema(roots', cat')
  BY DEF refreshTree, setTreeRows
<1>2. rows' \in Seq(AllNodes)
  BY <1>1, RowsAreNodes
<1>3. p \in Panels /\ p.filter = pn.filter
  BY <1>2, FilterEndsOnARow
<1> HIDE DEF p, keep
<1>4. /\ panel' \in Panels /\ panel'.filter = pn.filter /\ CursorOn(rows', panel')
      /\ keep # Nothing => \/ nodeAt(rows', panel', panel'.cursor) = keep
                           \/ \A i : nodeAt(rows', panel', i) # keep
  BY <1>1, <1>2, <1>3, SelectEndsOnARow
<1>5. Marked(roots', cat', changes', marks')
  BY <1>1, MarksAre
<1>6. selectedNode \notin fresh => keep = selectedNode
  BY DEF keep
<1> QED
  BY <1>1, <1>4, <1>5, <1>6

(* Requests sent later are numbered later.                                 *)
LEMMA SentLater ==
  ASSUME NEW as, NEW k \in Nat, NEW tr, Numbered(as, k, tr),
         NEW new, new \subseteq Requests, \A b \in new : b.n = k /\ b.kind # "ddl"
  PROVE  Numbered(as \cup new, k + 1, tr)
<1>1. ASSUME NEW a \in as PROVE a.n \in Nat
  BY <1>1 DEF Numbered, Requests
<1>2. ASSUME NEW a \in as \cup new
      PROVE  /\ a.n < k + 1
             /\ a.kind = "ddl" => a.n > 0 /\ (tr.req = a.n => tr.node = <<a.db, "Triggers", "g">>)
  <2>1. CASE a \in as
    <3>1. a.n < k /\ (a.kind = "ddl" => a.n > 0 /\ (tr.req = a.n => tr.node = <<a.db, "Triggers", "g">>))
      BY <2>1 DEF Numbered
    <3>0. a.n \in Nat
      BY <1>1, <2>1
    <3>2. a.n < k + 1
      BY <3>0, <3>1
    <3> QED
      BY <3>1, <3>2
  <2>2. CASE a \in new
    <3>1. a.n < k + 1 /\ a.kind # "ddl"
      BY <2>2
    <3> QED
      BY <3>1
  <2> QED
    BY <1>2, <2>1, <2>2
<1>3. as \cup new \subseteq Requests
  BY DEF Numbered
<1> QED
  BY <1>2, <1>3 DEF Numbered

(* Answered ones are forgotten.                                            *)
LEMMA AnsweredOnce ==
  ASSUME NEW as, NEW k, NEW tr, Numbered(as, k, tr), NEW b \in SUBSET as
  PROVE  Numbered(b, k, tr)
BY DEF Numbered

(* What is sent to a database carries the tables it has.                   *)
LEMMA AskIs ==
  ASSUME TreeTypes, NEW d \in DBs \cup {NoDb}, NEW kind \in {"databases", "relations", "sizes", "triggers", "ddl"}
  PROVE  Ask(kind, d) \in Requests /\ Ask(kind, d).n = asked /\ Ask(kind, d).kind = kind /\ Ask(kind, d).db = d
<1>1. d \in Words
  BY WordsAre DEF NoDb
<1>2. d # NoDb => srv[d] \in SUBSET Words
  BY DEF TreeTypes
<1> QED
  BY <1>1, <1>2 DEF Ask, Requests, TreeTypes

(* What is sent is numbered after all that was sent before, and is awaited.*)
LEMMA SendNumbers ==
  ASSUME TreeTypes, NEW tr, Numbered(asks, asked, tr), NEW d \in DBs \cup {NoDb},
         NEW kinds \in SUBSET {"databases", "relations", "sizes", "triggers"}, Send(kinds, d)
  PROVE  /\ asked' = asked + 1 /\ asked' \in Nat /\ Numbered(asks', asked', tr)
         /\ asks \subseteq asks'
         /\ \A k \in kinds : \E a \in asks' : a.db = d /\ a.kind = k
<1> DEFINE new == {Ask(k, d) : k \in kinds}
<1>1. asked' = asked + 1 /\ asks' = asks \cup new /\ asked \in Nat
  BY DEF Send, TreeTypes
<1>2. \A k \in kinds : Ask(k, d) \in Requests /\ Ask(k, d).n = asked /\ Ask(k, d).kind = k /\ Ask(k, d).db = d
  BY AskIs
<1>3. new \subseteq Requests /\ \A b \in new : b.n = asked /\ b.kind # "ddl"
  BY <1>2
<1>4. \A k \in kinds : \E a \in new : a.db = d /\ a.kind = k
  BY <1>2
<1> HIDE DEF new
<1>5. Numbered(asks', asked', tr)
  BY <1>1, <1>3, SentLater
<1> QED
  BY <1>1, <1>4, <1>5

(* Tables and views that start to load wait for the listing that was asked *)
(* for; they do so together.                                               *)
LEMMA StartLoadingReads ==
  ASSUME NEW as, NEW k, NEW rs, NEW ct, Reading(ct, as, k, rs),
         NEW bs, as \subseteq bs, NEW m \in Nat, m > 0, NEW d \in DBs, d \in ToSet(rs),
         \E a \in bs : a.db = d /\ a.kind = "relations"
  PROVE  /\ Reading(startLoading(d, ct), bs, m, rs)
         /\ \A q \in Places : startLoading(d, ct)[q].kids = ct[q].kids
<1> DEFINE cu == startLoading(d, ct)
<1>1. ct \in [Places -> Category] /\ Together(ct)
  BY DEF Reading
<1>2. ASSUME NEW q \in Places
      PROVE  /\ cu[q] \in Category /\ cu[q].kids = ct[q].kids /\ cu[q].loaded = ct[q].loaded
             /\ cu[q].loading = (ct[q].loading \/ (q[1] = d /\ q[2] \in Relational))
  <2>1. ct[q] \in Category
    BY <1>1
  <2>2. CASE q[1] = d /\ q[2] \in Relational
    <3>1. cu[q] = [ct[q] EXCEPT !.loading = TRUE]
      BY <1>1, <2>2 DEF startLoading
    <3> HIDE DEF cu
    <3> QED
      BY <2>1, <2>2, <3>1 DEF Category
  <2>3. CASE ~(q[1] = d /\ q[2] \in Relational)
    <3>1. cu[q] = ct[q]
      BY <1>1, <2>3 DEF startLoading
    <3>2. ct[q].loading \in BOOLEAN
      BY <2>1 DEF Category
    <3> HIDE DEF cu
    <3> QED
      BY <2>1, <2>3, <3>1, <3>2
  <2> QED
    BY <2>2, <2>3
<1>3. DOMAIN cu = Places /\ cu = [q \in Places |-> cu[q]]
  BY <1>1 DEF startLoading
<1> HIDE DEF cu
<1>4. cu \in [Places -> Category]
  BY <1>2, <1>3
<1>5. Together(cu)
  <2>1. ASSUME NEW e \in DBs
        PROVE  cu[e, "Tables"].loaded = cu[e, "Views"].loaded /\ cu[e, "Tables"].loading = cu[e, "Views"].loading
    <3>1. <<e, "Tables">> \in Places /\ <<e, "Views">> \in Places
      BY WordsAre DEF Places
    <3>2. ct[e, "Tables"].loaded = ct[e, "Views"].loaded /\ ct[e, "Tables"].loading = ct[e, "Views"].loading
      BY <1>1 DEF Together
    <3> QED
      BY <1>2, <3>1, <3>2 DEF Relational
  <2> QED
    BY <2>1 DEF Together
<1>6. ASSUME NEW e \in DBs, NEW b \in ToSet(Cats), cu[e, b].loading
      PROVE  e \in ToSet(rs) /\ AskFor(bs, e, b)
  <2>1. <<e, b>> \in Places /\ <<e, b>>[1] = e /\ <<e, b>>[2] = b
    BY DEF Places
  <2>2. ct[e, b].loading => e \in ToSet(rs) /\ AskFor(as, e, b)
    BY DEF Reading
  <2>3. AskFor(as, e, b) => AskFor(bs, e, b)
    BY DEF AskFor
  <2>4. e = d /\ b \in Relational => e \in ToSet(rs) /\ AskFor(bs, e, b)
    BY DEF AskFor, Relational
  <2> QED
    BY <1>2, <1>6, <2>1, <2>2, <2>3, <2>4
<1>7. Reading(cu, bs, m, rs)
  BY <1>4, <1>5, <1>6 DEF Reading
<1> QED
  BY <1>2, <1>7 DEF cu

(* What is to be read again is read no more, tables and views together.    *)
LEMMA UnloadReads ==
  ASSUME NEW as, NEW k, NEW rs, NEW ct, Reading(ct, as, k, rs), NEW d, NEW c \in ToSet(Cats)
  PROVE  /\ Reading(unload(d, c, ct), as, k, rs)
         /\ \A q \in Places : unload(d, c, ct)[q].kids = ct[q].kids
<1> DEFINE cu == unload(d, c, ct)
           Hit(q) == q[1] = d /\ (q[2] = c \/ {q[2], c} \subseteq Relational)
<1>1. ct \in [Places -> Category] /\ Together(ct)
  BY DEF Reading
<1>2. ASSUME NEW q \in Places
      PROVE  /\ cu[q] \in Category /\ cu[q].kids = ct[q].kids /\ cu[q].loading = ct[q].loading
             /\ cu[q].loaded = (ct[q].loaded /\ ~Hit(q))
  <2>1. ct[q] \in Category
    BY <1>1
  <2>2. CASE Hit(q)
    <3>1. cu[q] = [ct[q] EXCEPT !.loaded = FALSE]
      BY <1>1, <2>2 DEF unload
    <3> HIDE DEF cu, Hit
    <3> QED
      BY <2>1, <2>2, <3>1 DEF Category
  <2>3. CASE ~Hit(q)
    <3>1. cu[q] = ct[q]
      BY <1>1, <2>3 DEF unload
    <3>2. ct[q].loaded \in BOOLEAN
      BY <2>1 DEF Category
    <3> HIDE DEF cu, Hit
    <3> QED
      BY <2>1, <2>3, <3>1, <3>2
  <2> QED
    BY <2>2, <2>3
<1>3. DOMAIN cu = Places /\ cu = [q \in Places |-> cu[q]]
  BY <1>1 DEF unload
<1> HIDE DEF cu
<1>4. cu \in [Places -> Category]
  <2> HIDE DEF Hit
  <2> QED
    BY <1>2, <1>3
<1>5. Together(cu)
  <2>1. ASSUME NEW e \in DBs
        PROVE  cu[e, "Tables"].loaded = cu[e, "Views"].loaded /\ cu[e, "Tables"].loading = cu[e, "Views"].loading
    <3>1. <<e, "Tables">> \in Places /\ <<e, "Views">> \in Places
      BY WordsAre DEF Places
    <3>2. ct[e, "Tables"].loaded = ct[e, "Views"].loaded /\ ct[e, "Tables"].loading = ct[e, "Views"].loading
      BY <1>1 DEF Together
    <3>3. Hit(<<e, "Tables">>) = Hit(<<e, "Views">>)
      BY DEF Relational
    <3> HIDE DEF Hit
    <3> QED
      BY <1>2, <3>1, <3>2, <3>3
  <2> QED
    BY <2>1 DEF Together
<1>6. ASSUME NEW e \in DBs, NEW b \in ToSet(Cats)
      PROVE  cu[e, b].loading = ct[e, b].loading /\ cu[e, b].kids = ct[e, b].kids
  <2>1. <<e, b>> \in Places
    BY DEF Places
  <2> HIDE DEF Hit
  <2> QED
    BY <1>2, <2>1
<1>7. Reading(cu, as, k, rs)
  BY <1>4, <1>5, <1>6 DEF Reading
<1> QED
  <2> HIDE DEF Hit
  <2> QED
    BY <1>2, <1>7 DEF cu

(* A category that starts to load was asked for.                           *)
LEMMA LoadIsAsked ==
  ASSUME TreeTypes, NEW rs, NEW ct, NEW tr, Reading(ct, asks, asked, rs), Numbered(asks, asked, tr),
         NEW d \in DBs, d \in ToSet(rs), NEW c \in ToSet(Cats), loadCategory(d, c, ct)
  PROVE  /\ asked' \in Nat /\ Numbered(asks', asked', tr) /\ asks \subseteq asks'
         /\ Reading(cat', asks', asked', rs)
         /\ \A k \in Places : cat'[k].kids = ct[k].kids
<1>1. ct \in [Places -> Category]
  BY DEF Reading
<1>2. c \in {"Tables", "Views", "Triggers"} /\ ToSet(Cats) = {"Tables", "Views", "Triggers"}
  BY WordsAre
<1>3. CASE c \in Relational
  <2>1. cat' = startLoading(d, ct) /\ Send({"relations", "sizes"}, d)
    BY <1>3 DEF loadCategory
  <2>2. /\ asked' = asked + 1 /\ asked' \in Nat /\ Numbered(asks', asked', tr) /\ asks \subseteq asks'
        /\ \E a \in asks' : a.db = d /\ a.kind = "relations"
    BY <2>1, SendNumbers
  <2>3. asked' > 0
    <3>1. asked \in Nat
      BY DEF TreeTypes
    <3>2. asked' = asked + 1
      BY <2>2
    <3> QED
      BY <3>1, <3>2
  <2>4. /\ Reading(startLoading(d, ct), asks', asked', rs)
        /\ \A q \in Places : startLoading(d, ct)[q].kids = ct[q].kids
    <3>1. asks \subseteq asks' /\ asked' \in Nat
      BY <2>2
    <3>2. \E a \in asks' : a.db = d /\ a.kind = "relations"
      BY <2>2
    <3> QED
      BY <2>3, <3>1, <3>2, StartLoadingReads
  <2> QED
    BY <2>1, <2>2, <2>4
<1>4. CASE c \notin Relational
  <2>1. c = "Triggers" /\ cat' = [ct EXCEPT ![<<d, c>>].loading = TRUE] /\ Send({"triggers"}, d)
    BY <1>2, <1>4 DEF loadCategory, Relational
  <2>2. /\ asked' = asked + 1 /\ asked' \in Nat /\ Numbered(asks', asked', tr) /\ asks \subseteq asks'
        /\ \E a \in asks' : a.db = d /\ a.kind = "triggers"
    BY <2>1, SendNumbers
  <2>3. ASSUME NEW k \in Places
        PROVE  /\ cat'[k] \in Category /\ cat'[k].kids = ct[k].kids /\ cat'[k].loaded = ct[k].loaded
               /\ cat'[k].loading = (ct[k].loading \/ k = <<d, c>>)
    <3>1. ct[k] \in Category
      BY <1>1
    <3>2. CASE k = <<d, c>>
      <4>1. cat'[k] = [ct[k] EXCEPT !.loading = TRUE]
        BY <1>1, <2>1, <3>2
      <4> QED
        BY <3>1, <3>2, <4>1 DEF Category
    <3>3. CASE k # <<d, c>>
      <4>1. cat'[k] = ct[k]
        BY <1>1, <2>1, <3>3
      <4>2. ct[k].loading \in BOOLEAN
        BY <3>1 DEF Category
      <4> QED
        BY <3>1, <3>3, <4>1, <4>2
    <3> QED
      BY <3>2, <3>3
  <2>4. cat' \in [Places -> Category]
    BY <1>1, <2>1, <2>3
  <2>5. Together(cat')
    <3>1. ASSUME NEW e \in DBs
          PROVE  /\ cat'[e, "Tables"].loaded = cat'[e, "Views"].loaded
                 /\ cat'[e, "Tables"].loading = cat'[e, "Views"].loading
      <4>1. <<e, "Tables">> \in Places /\ <<e, "Views">> \in Places
        BY <1>2 DEF Places
      <4>2. ct[e, "Tables"].loaded = ct[e, "Views"].loaded /\ ct[e, "Tables"].loading = ct[e, "Views"].loading
        BY DEF Reading, Together
      <4>3. <<e, "Tables">> # <<d, c>> /\ <<e, "Views">> # <<d, c>>
        BY <2>1
      <4> QED
        BY <2>3, <4>1, <4>2, <4>3
    <3> QED
      BY <3>1 DEF Together
  <2>6. ASSUME NEW e \in DBs, NEW b \in ToSet(Cats)
        PROVE  /\ cat'[e, b].loading => e \in ToSet(rs) /\ AskFor(asks', e, b)
               /\ cat'[e, b].kids # {} => asked' > 0
    <3>1. <<e, b>> \in Places
      BY DEF Places
    <3>2. ct[e, b].loading => e \in ToSet(rs) /\ AskFor(asks', e, b)
      <4>1. ct[e, b].loading => e \in ToSet(rs) /\ AskFor(asks, e, b)
        BY DEF Reading
      <4>2. AskFor(asks, e, b) => AskFor(asks', e, b)
        BY <2>2 DEF AskFor
      <4> QED
        BY <4>1, <4>2
    <3>3. <<e, b>> = <<d, c>> => e \in ToSet(rs) /\ AskFor(asks', e, b)
      BY <2>1, <2>2 DEF AskFor
    <3>4. cat'[e, b].kids # {} => asked' > 0
      <4>1. asked \in Nat
        BY DEF TreeTypes
      <4>2. asked' = asked + 1
        BY <2>2
      <4>3. asked' > 0
        BY <4>1, <4>2
      <4> QED
        BY <4>3
    <3>5. cat'[e, b].loading => e \in ToSet(rs) /\ AskFor(asks', e, b)
      BY <2>3, <3>1, <3>2, <3>3
    <3> QED
      BY <3>4, <3>5
  <2> QED
    BY <2>2, <2>3, <2>4, <2>5, <2>6 DEF Reading
<1> QED
  BY <1>3, <1>4

(* What is below a number is below one that is not zero.                   *)
LEMMA Positive ==
  ASSUME NEW i \in Nat, NEW k \in Nat, i < k
  PROVE  k > 0
OBVIOUS

(* A reply to one request leaves what other categories wait for.           *)
LEMMA AnswerReads ==
  ASSUME NEW as, NEW k \in Nat, NEW tr, Numbered(as, k, tr), NEW a \in as,
         NEW rs, NEW ct, Reading(ct, as, k, rs),
         NEW cu \in [Places -> Category], Together(cu),
         \A d \in DBs, c \in ToSet(Cats) :
           cu[d, c].loading => /\ ct[d, c].loading
                               /\ ~(a.db = d /\ a.kind = IF c = "Triggers" THEN "triggers" ELSE "relations")
  PROVE  Reading(cu, as \ {a}, k, rs) /\ Numbered(as \ {a}, k, tr)
<1>1. k > 0
  <2>1. a.n \in Nat
    BY DEF Numbered, Requests
  <2>2. a.n < k
    BY DEF Numbered
  <2> QED
    BY <2>1, <2>2, Positive
<1>2. ASSUME NEW d \in DBs, NEW c \in ToSet(Cats), cu[d, c].loading
      PROVE  d \in ToSet(rs) /\ AskFor(as \ {a}, d, c)
  <2>1. d \in ToSet(rs) /\ AskFor(as, d, c)
    BY <1>2 DEF Reading
  <2>2. PICK b \in as : b.db = d /\ b.kind = IF c = "Triggers" THEN "triggers" ELSE "relations"
    BY <2>1 DEF AskFor
  <2>3. b # a
    BY <1>2, <2>2
  <2> QED
    BY <2>1, <2>2, <2>3 DEF AskFor
<1>3. Numbered(as \ {a}, k, tr)
  BY AnsweredOnce
<1> QED
  BY <1>1, <1>2, <1>3 DEF Reading

(* A tree of which nothing has been read.                                  *)
LEMMA UnreadIsReading ==
  ASSUME NEW as, NEW k \in Nat, NEW rs
  PROVE  /\ Reading([q \in Places |-> Unread], as, k, rs)
         /\ \A q \in Places : [r \in Places |-> Unread][q].kids = {}
<1> DEFINE ct == [q \in Places |-> Unread]
<1>1. Unread \in Category /\ Unread.loading = FALSE /\ Unread.loaded = FALSE /\ Unread.kids = {}
  BY DEF Unread, Category
<1>2. \A q \in Places : ct[q] = Unread
  OBVIOUS
<1>3. ct \in [Places -> Category]
  BY <1>1
<1> HIDE DEF ct
<1>4. \A d \in DBs, c \in ToSet(Cats) : ct[d, c] = Unread
  <2>1. ASSUME NEW d \in DBs, NEW c \in ToSet(Cats) PROVE ct[d, c] = Unread
    <3>1. <<d, c>> \in Places
      BY DEF Places
    <3> QED
      BY <1>2, <3>1
  <2> QED
    BY <2>1
<1>5. Together(ct)
  BY <1>4, WordsAre DEF Together
<1>6. Reading(ct, as, k, rs)
  BY <1>1, <1>3, <1>4, <1>5 DEF Reading
<1> QED
  BY <1>1, <1>2, <1>6 DEF ct

(* Whatever refreshes the list of a tree that is as it should be leaves the *)
(* panel as it should be.                                                  *)
LEMMA RefreshKeeps ==
  ASSUME NEW fresh, NEW pn \in Panels, refreshTree(fresh, pn),
         srv' \in [DBs -> SUBSET Words], roots' \in Seq(DBs), sizes' \in [DBs -> SUBSET Words],
         trigger' \in Triggers, asked' \in Nat,
         Sized(roots', cat', sizes', sized'),
         mirror' = IF database' = NoDb THEN {} ELSE listed'[database'].tables,
         Reading(cat', asks', asked', roots'), Numbered(asks', asked', trigger'),
         trigger'.ddl \in {Nothing, trigger'.node}, ~live' => roots' = <<>>
  PROVE  TreeInv'
<1>1. /\ rows' = flatten(roots', open', cat') /\ panel' \in Panels /\ CursorOn(rows', panel')
      /\ Marked(roots', cat', changes', marks')
  BY RefreshShows
<1>2. TreeTypes'
  BY <1>1 DEF TreeTypes
<1> QED
  BY <1>1, <1>2 DEF TreeInv

(* So does what only moves the cursor or sets the filter.                  *)
LEMMA PanelKeeps ==
  ASSUME TreeInv, panel' \in Panels, CursorOn(rows, panel'), PanelOnly
  PROVE  TreeInv'
<1>1. /\ live' = live /\ srv' = srv /\ asks' = asks /\ asked' = asked /\ database' = database
      /\ listed' = listed /\ mirror' = mirror /\ roots' = roots /\ open' = open /\ cat' = cat
      /\ sizes' = sizes /\ sized' = sized /\ changes' = changes /\ marks' = marks /\ rows' = rows
      /\ trigger' = trigger
  BY DEF PanelOnly
<1>2. TreeTypes'
  BY <1>1 DEF TreeInv, TreeTypes
<1> QED
  BY <1>1, <1>2 DEF TreeInv

(* What is selected in a panel that is as it should be.                    *)
LEMMA SelectedIs ==
  ASSUME TreeInv, selectedNode # Nothing
  PROVE  /\ selectedNode \in AllNodes
         /\ hasRow(selectedNode, roots, open, cat)
         /\ selectedNode[1] \in DBs /\ selectedNode[1] \in ToSet(roots)
         /\ Len(selectedNode) > 1 => selectedNode[2] \in ToSet(Cats)
         /\ live
<1>1. rows = flatten(roots, open, cat)
  BY DEF TreeInv
<1>2. selectedNode \in AllNodes /\ hasRow(selectedNode, roots, open, cat)
  BY <1>1, SelectedHasRow DEF selectedNode
<1> HIDE DEF selectedNode
<1>3. selectedNode[1] \in DBs /\ (Len(selectedNode) > 1 => selectedNode[2] \in ToSet(Cats))
  BY <1>2 DEF AllNodes
<1>4. selectedNode[1] \in ToSet(roots)
  BY <1>2 DEF hasRow
<1>5. live
  <2>1. ToSet(<<>>) = {}
    BY DEF ToSet
  <2> QED
    BY <1>4, <2>1 DEF TreeInv
<1> QED
  BY <1>2, <1>3, <1>4, <1>5

(* At first there is nothing to show.                                      *)
LEMMA EmptyTree ==
  ASSUME NEW op, NEW ct
  PROVE  flatten(<<>>, op, ct) = <<>>
<1> DEFINE f == flatten(<<>>, op, ct)
<1>1. f \in Seq(AllNodes) /\ \A i \in DOMAIN f : hasRow(f[i], <<>>, op, ct)
  BY RowsAreNodes
<1>2. ToSet(<<>>) = {}
  BY DEF ToSet
<1> HIDE DEF f
<1>3. \A i \in DOMAIN f : FALSE
  BY <1>1, <1>2 DEF hasRow
<1>4. f = <<>>
  BY <1>1, <1>3
<1> QED
  BY <1>4 DEF f

(* The empty tree is as it should be.                                      *)
LEMMA TreeInitially == TreeInit => TreeInv
<1> SUFFICES ASSUME TreeInit PROVE TreeInv
  OBVIOUS
<1>1. TreeTypes
  <2>1. ToSet(Tables) \subseteq Words
    BY DEF Words
  <2>2. Idle \in Panels
    <3>1. "" \in Words
      BY WordsAre
    <3> DEFINE e == ""
    <3>2. Idle = [filter |-> e, filtering |-> FALSE, navigated |-> FALSE, cursor |-> 0]
      BY DEF Idle
    <3> HIDE DEF e
    <3>3. e \in Words
      BY <3>1 DEF e
    <3> QED
      BY <3>2, <3>3 DEF Panels
  <2>3. NoTrigger \in Triggers
    BY DEF NoTrigger, Triggers, Nothing
  <2>4. srv \in [DBs -> SUBSET Words] /\ sizes \in [DBs -> SUBSET Words]
    BY <2>1 DEF TreeInit
  <2> QED
    BY <2>2, <2>3, <2>4 DEF TreeInit, TreeTypes
<1>2. rows = flatten(roots, open, cat)
  BY EmptyTree DEF TreeInit
<1>3. CursorOn(rows, panel)
  <2> DEFINE it == items(<<>>, "")
  <2>1. it \in Seq(DOMAIN <<>>)
    <3>1. <<>> \in Seq({})
      OBVIOUS
    <3> QED
      BY <3>1, ItemsAre
  <2> HIDE DEF it
  <2>2. it = <<>>
    BY <2>1
  <2>3. rows = <<>> /\ panel.filter = "" /\ panel.cursor = 0
    BY DEF TreeInit, Idle
  <2> QED
    BY <2>2, <2>3 DEF CursorOn, it
<1>4. ToSet(roots) = {}
  BY DEF ToSet, TreeInit
<1>5. Marked(roots, cat, changes, marks) /\ Sized(roots, cat, sizes, sized)
  BY <1>4 DEF Marked, Sized
<1>6. cat = [q \in Places |-> Unread]
  BY DEF TreeInit, Places
<1>7. Reading(cat, asks, asked, roots)
  <2>1. asked \in Nat
    BY DEF TreeInit
  <2> QED
    BY <1>6, <2>1, UnreadIsReading
<1>8. Numbered(asks, asked, trigger)
  BY DEF TreeInit, Numbered
<1>9. trigger.ddl = Nothing /\ (~live => roots = <<>>) /\ mirror = {} /\ database = NoDb
  BY DEF TreeInit, NoTrigger
<1> QED
  BY <1>1, <1>2, <1>3, <1>5, <1>7, <1>8, <1>9 DEF TreeInv

-----------------------------------------------------------------------------
(* The steps.                                                              *)

(* Nothing is sized in a tree that nothing was read of.                    *)
LEMMA EmptySized ==
  ASSUME NEW rs \in Seq(DBs), NEW ct, NEW sz, NEW st, \A q \in Places : ct[q].kids = {}
  PROVE  Sized(rs, ct, sz, st)
<1>1. ASSUME NEW d \in ToSet(rs) PROVE Nodes(d, "Tables", ct) = {}
  <2>1. d \in DBs
    BY <1>1 DEF ToSet
  <2>2. <<d, "Tables">> \in Places
    BY <2>1, WordsAre DEF Places
  <2>3. ct[d, "Tables"].kids = {}
    BY <2>2
  <2> QED
    BY <2>3 DEF Nodes
<1> QED
  BY <1>1 DEF Sized

(* One database alone is the first of the list.                            *)
LEMMA FirstOfList ==
  ASSUME NEW dbs \in Seq(DBs), Single(dbs)
  PROVE  dbs[1] \in DBs /\ dbs[1] \in ToSet(dbs)
BY DEF Single, ToSet

(* A list of databases is one of databases.                                *)
LEMMA ListsAre ==
  ASSUME NEW dbs \in Lists
  PROVE  dbs \in Seq(DBs)
<1>1. Databases \in Seq(DBs) /\ Databases # <<>>
  BY WordsAre
<1>2. SubSeq(Databases, 1, 1) \in Seq(DBs)
  BY <1>1
<1> QED
  BY <1>1, <1>2 DEF Lists

(* Requests for definitions are never the first, so none is for no trigger. *)
LEMMA NumberedForNone ==
  ASSUME NEW as, NEW k, NEW tr, Numbered(as, k, tr)
  PROVE  Numbered(as, k, NoTrigger)
<1>1. ASSUME NEW a \in as, a.kind = "ddl" PROVE NoTrigger.req # a.n /\ a.n > 0
  <2>1. a.n > 0 /\ a.n \in Nat
    BY <1>1 DEF Numbered, Requests
  <2>2. NoTrigger.req = 0
    BY DEF NoTrigger
  <2> QED
    BY <2>1, <2>2
<1> QED
  BY <1>1 DEF Numbered

(* No trigger is a trigger view too.                                       *)
LEMMA NoTriggerIs == NoTrigger \in Triggers /\ NoTrigger.ddl = Nothing
BY DEF NoTrigger, Triggers, Nothing

(* A new tree is one of which nothing was read; one database alone is      *)
(* asked for its relations.                                                *)
LEMMA RebuildReads ==
  ASSUME TreeInv, NEW dbs \in Seq(DBs), rebuildTree(dbs)
  PROVE  /\ roots' = dbs /\ listed' = [d \in DBs |-> NoList] /\ asked' \in Nat
         /\ sizes' \in [DBs -> SUBSET Words] /\ Sized(dbs, cat', sizes', sized')
         /\ Reading(cat', asks', asked', dbs) /\ Numbered(asks', asked', NoTrigger)
         /\ clearFilter(panel) \in Panels /\ refreshTree({selectedNode}, clearFilter(panel))
<1> DEFINE ct == [q \in Places |-> Unread]
<1>1. TreeTypes /\ asked \in Nat /\ Numbered(asks, asked, NoTrigger)
  BY NumberedForNone DEF TreeInv, TreeTypes
<1>2. [k \in DOMAIN cat |-> Unread] = ct
  BY DEF TreeInv, Reading
<1>3. Reading(ct, asks, asked, dbs) /\ \A q \in Places : ct[q].kids = {}
  BY <1>1, UnreadIsReading
<1> HIDE DEF ct
<1>4. /\ roots' = dbs /\ listed' = [d \in DBs |-> NoList] /\ sizes' = [d \in DBs |-> {}]
      /\ IF Single(dbs) THEN loadCategory(dbs[1], "Tables", ct) ELSE cat' = ct /\ UNCHANGED <<asks, asked>>
      /\ refreshTree({selectedNode}, clearFilter(panel))
  BY <1>2 DEF rebuildTree
<1>5. /\ asked' \in Nat /\ Numbered(asks', asked', NoTrigger) /\ Reading(cat', asks', asked', dbs)
      /\ \A q \in Places : cat'[q].kids = {}
  <2>1. CASE Single(dbs)
    <3>1. dbs[1] \in DBs /\ dbs[1] \in ToSet(dbs) /\ "Tables" \in ToSet(Cats)
      BY <2>1, FirstOfList, WordsAre
    <3>2. loadCategory(dbs[1], "Tables", ct)
      BY <1>4, <2>1
    <3>3. /\ asked' \in Nat /\ Numbered(asks', asked', NoTrigger) /\ Reading(cat', asks', asked', dbs)
          /\ \A k \in Places : cat'[k].kids = ct[k].kids
      BY <1>1, <1>3, <3>1, <3>2, LoadIsAsked
    <3> QED
      BY <1>3, <3>3
  <2>2. CASE ~Single(dbs)
    <3>1. cat' = ct /\ asks' = asks /\ asked' = asked
      BY <1>4, <2>2
    <3> QED
      BY <1>1, <1>3, <3>1
  <2> QED
    BY <2>1, <2>2
<1>6. Sized(dbs, cat', sizes', sized')
  BY <1>5, EmptySized
<1>7. clearFilter(panel) \in Panels
  <2>1. rows \in Seq(AllNodes) /\ panel \in Panels /\ CursorOn(rows, panel)
    BY RowsAreNodes DEF TreeInv, TreeTypes
  <2> QED
    BY <2>1, ClearFilterEndsOnARow
<1> QED
  BY <1>4, <1>5, <1>6, <1>7

(* A connection brings a new tree.                                         *)
LEMMA ConnectedKeeps ==
  ASSUME TreeInv, NEW dbs \in Lists, connected(dbs)
  PROVE  TreeInv'
<1>1. dbs \in Seq(DBs)
  BY ListsAre
<1>2. /\ rebuildTree(dbs) /\ live' = TRUE /\ trigger' = NoTrigger /\ mirror' = {} /\ srv' = srv
      /\ database' = IF Single(dbs) THEN dbs[1] ELSE NoDb
  BY DEF connected, openDatabase, resetBrowse
<1>3. /\ roots' = dbs /\ listed' = [d \in DBs |-> NoList] /\ asked' \in Nat
      /\ sizes' \in [DBs -> SUBSET Words] /\ Sized(dbs, cat', sizes', sized')
      /\ Reading(cat', asks', asked', dbs) /\ Numbered(asks', asked', NoTrigger)
      /\ clearFilter(panel) \in Panels /\ refreshTree({selectedNode}, clearFilter(panel))
  BY <1>1, <1>2, RebuildReads
<1>4. mirror' = IF database' = NoDb THEN {} ELSE listed'[database'].tables
  <2>1. database' # NoDb => database' \in DBs
    BY <1>1, <1>2, FirstOfList
  <2>2. NoList.tables = {}
    BY DEF NoList
  <2> QED
    BY <1>2, <1>3, <2>1, <2>2
<1>5. srv' \in [DBs -> SUBSET Words]
  BY <1>2 DEF TreeInv, TreeTypes
<1> QED
  BY <1>1, <1>2, <1>3, <1>4, <1>5, NoTriggerIs, RefreshKeeps

(* None leaves an empty one.                                               *)
LEMMA DisconnectKeeps ==
  ASSUME TreeInv, disconnectActive
  PROVE  TreeInv'
<1>1. <<>> \in Seq(DBs)
  OBVIOUS
<1>2. /\ rebuildTree(<<>>) /\ trigger' = NoTrigger /\ mirror' = {} /\ srv' = srv /\ database' = NoDb
  BY DEF disconnectActive, resetBrowse
<1>3. /\ roots' = <<>> /\ asked' \in Nat
      /\ sizes' \in [DBs -> SUBSET Words] /\ Sized(<<>>, cat', sizes', sized')
      /\ Reading(cat', asks', asked', <<>>) /\ Numbered(asks', asked', NoTrigger)
      /\ clearFilter(panel) \in Panels /\ refreshTree({selectedNode}, clearFilter(panel))
  BY <1>1, <1>2, RebuildReads
<1>4. srv' \in [DBs -> SUBSET Words]
  BY <1>2 DEF TreeInv, TreeTypes
<1> QED
  BY <1>1, <1>2, <1>3, <1>4, NoTriggerIs, RefreshKeeps

(* The databases again bring a new tree, too.                              *)
LEMMA DatabasesLoadedKeeps ==
  ASSUME TreeInv, NEW a \in asks, NEW dbs \in Lists, databasesLoaded(a, dbs)
  PROVE  TreeInv'
<1> DEFINE ct == [q \in Places |-> Unread]
           bs == asks \ {a}
<1>1. dbs \in Seq(DBs)
  BY ListsAre
<1>2. TreeTypes /\ asked \in Nat /\ Numbered(bs, asked, trigger)
  BY AnsweredOnce DEF TreeInv, TreeTypes
<1>3. [k \in DOMAIN cat |-> Unread] = ct
  BY DEF TreeInv, Reading
<1>4. Reading(ct, bs, asked, dbs) /\ \A q \in Places : ct[q].kids = {}
  BY <1>2, UnreadIsReading
<1> HIDE DEF ct
<1>5. /\ live' = live /\ srv' = srv /\ live /\ roots' = dbs /\ sizes' = [d \in DBs |-> {}]
      /\ IF Single(dbs)
         THEN /\ asked' = asked + 1 /\ cat' = startLoading(dbs[1], ct)
              /\ asks' = bs \cup {Ask(k, dbs[1]) : k \in {"relations", "sizes"}}
              /\ trigger' = NoTrigger
         ELSE cat' = ct /\ asks' = bs /\ asked' = asked /\ trigger' = trigger
      /\ refreshTree({selectedNode}, clearFilter(panel))
      /\ syncRelations(database', listed')
  BY <1>3 DEF databasesLoaded, Heard, resetBrowse
<1>6. /\ asked' \in Nat /\ Numbered(asks', asked', trigger') /\ Reading(cat', asks', asked', dbs)
      /\ \A q \in Places : cat'[q].kids = {}
      /\ trigger' \in Triggers /\ trigger'.ddl \in {Nothing, trigger'.node}
  <2>1. CASE Single(dbs)
    <3> DEFINE new == {Ask(k, dbs[1]) : k \in {"relations", "sizes"}}
    <3>1. dbs[1] \in DBs /\ dbs[1] \in ToSet(dbs)
      BY <1>1, <2>1, FirstOfList
    <3>2. \A k \in {"relations", "sizes"} :
            Ask(k, dbs[1]) \in Requests /\ Ask(k, dbs[1]).n = asked /\ Ask(k, dbs[1]).kind = k /\ Ask(k, dbs[1]).db = dbs[1]
      BY <1>2, <3>1, AskIs
    <3>3. new \subseteq Requests /\ \A b \in new : b.n = asked /\ b.kind # "ddl"
      BY <3>2
    <3>4. \E b \in new : b.db = dbs[1] /\ b.kind = "relations"
      BY <3>2
    <3>5. Numbered(bs, asked, NoTrigger)
      BY <1>2, NumberedForNone
    <3> HIDE DEF new
    <3>6. Numbered(bs \cup new, asked + 1, NoTrigger)
      BY <1>2, <3>3, <3>5, SentLater
    <3>7. asks' = bs \cup new /\ asked' = asked + 1 /\ trigger' = NoTrigger /\ cat' = startLoading(dbs[1], ct)
      BY <1>5, <2>1 DEF new
    <3>8. asked' \in Nat /\ asked' > 0
      BY <1>2, <3>7
    <3>9. bs \subseteq asks' /\ \E b \in asks' : b.db = dbs[1] /\ b.kind = "relations"
      BY <3>4, <3>7
    <3> HIDE DEF bs
    <3>10. /\ Reading(startLoading(dbs[1], ct), asks', asked', dbs)
           /\ \A q \in Places : startLoading(dbs[1], ct)[q].kids = ct[q].kids
      BY <1>4, <3>1, <3>8, <3>9, StartLoadingReads
    <3> QED
      BY <1>4, <3>6, <3>7, <3>8, <3>10, NoTriggerIs
  <2>2. CASE ~Single(dbs)
    <3>1. cat' = ct /\ asks' = bs /\ asked' = asked /\ trigger' = trigger
      BY <1>5, <2>2
    <3>2. trigger \in Triggers /\ trigger.ddl \in {Nothing, trigger.node}
      BY DEF TreeInv, TreeTypes
    <3> HIDE DEF bs
    <3> QED
      BY <1>2, <1>4, <3>1, <3>2
  <2> QED
    BY <2>1, <2>2
<1>7. Sized(dbs, cat', sizes', sized')
  BY <1>1, <1>6, EmptySized
<1>8. clearFilter(panel) \in Panels
  <2>1. rows \in Seq(AllNodes) /\ panel \in Panels /\ CursorOn(rows, panel)
    BY RowsAreNodes DEF TreeInv, TreeTypes
  <2> QED
    BY <2>1, ClearFilterEndsOnARow
<1>9. mirror' = IF database' = NoDb THEN {} ELSE listed'[database'].tables
  BY <1>5 DEF syncRelations
<1>10. srv' \in [DBs -> SUBSET Words] /\ sizes' \in [DBs -> SUBSET Words]
  BY <1>5 DEF TreeInv, TreeTypes
<1>11. live' /\ roots' = dbs /\ refreshTree({selectedNode}, clearFilter(panel))
  BY <1>5
<1> QED
  BY <1>1, <1>6, <1>7, <1>8, <1>9, <1>10, <1>11, RefreshKeeps

(* The replies. One that comes when nothing is open leaves nothing waiting, *)
(* for there is nothing.                                                   *)
LEMMA DroppedKeeps ==
  ASSUME TreeInv, NEW a \in asks, Dropped(a)
  PROVE  TreeInv'
<1>1. /\ ~live /\ asks' = asks \ {a} /\ live' = live /\ srv' = srv /\ asked' = asked /\ database' = database
      /\ listed' = listed /\ mirror' = mirror /\ roots' = roots /\ open' = open /\ cat' = cat
      /\ sizes' = sizes /\ sized' = sized /\ changes' = changes /\ marks' = marks /\ rows' = rows
      /\ panel' = panel /\ trigger' = trigger
  BY DEF Dropped, Heard, Answered
<1>2. ToSet(roots) = {}
  BY <1>1 DEF TreeInv, ToSet
<1>3. Reading(cat, asks \ {a}, asked, roots)
  BY <1>2 DEF TreeInv, Reading
<1>4. Numbered(asks \ {a}, asked, trigger)
  BY AnsweredOnce DEF TreeInv
<1>5. TreeTypes'
  BY <1>1 DEF TreeInv, TreeTypes
<1> QED
  BY <1>1, <1>3, <1>4, <1>5 DEF TreeInv

(* A list of databases that failed was of no category.                     *)
LEMMA IgnoredKeeps ==
  ASSUME TreeInv, NEW a \in asks, Ignored(a)
  PROVE  TreeInv'
<1>1. /\ a.kind = "databases" /\ asks' = asks \ {a} /\ live' = live /\ srv' = srv /\ asked' = asked
      /\ database' = database
      /\ listed' = listed /\ mirror' = mirror /\ roots' = roots /\ open' = open /\ cat' = cat
      /\ sizes' = sizes /\ sized' = sized /\ changes' = changes /\ marks' = marks /\ rows' = rows
      /\ panel' = panel /\ trigger' = trigger
  BY DEF Ignored, Heard, Answered, Rest
<1>2. asked \in Nat /\ Numbered(asks, asked, trigger) /\ Reading(cat, asks, asked, roots)
  BY DEF TreeInv, TreeTypes
<1>3. cat \in [Places -> Category] /\ Together(cat)
  BY <1>2 DEF Reading
<1>4. Reading(cat, asks \ {a}, asked, roots) /\ Numbered(asks \ {a}, asked, trigger)
  BY <1>1, <1>2, <1>3, AnswerReads
<1>5. TreeTypes'
  BY <1>1 DEF TreeInv, TreeTypes
<1> QED
  BY <1>1, <1>4, <1>5 DEF TreeInv

(* A definition is shown when it is of the trigger that is open.           *)
LEMMA TriggerDDLKeeps ==
  ASSUME TreeInv, NEW a \in asks, applyTriggerDDL(a)
  PROVE  TreeInv'
<1> DEFINE def == <<a.db, "Triggers", "g">>
           shown == [trigger EXCEPT !.ddl = def]
<1>1. /\ a.kind = "ddl" /\ asks' = asks \ {a} /\ live' = live /\ srv' = srv /\ asked' = asked
      /\ database' = database
      /\ listed' = listed /\ mirror' = mirror /\ roots' = roots /\ open' = open /\ cat' = cat
      /\ sizes' = sizes /\ sized' = sized /\ changes' = changes /\ marks' = marks /\ rows' = rows
      /\ panel' = panel /\ trigger' = IF trigger.req = a.n THEN shown ELSE trigger
  BY DEF applyTriggerDDL, Heard, Answered, Rest
<1>2. asked \in Nat /\ Numbered(asks, asked, trigger) /\ Reading(cat, asks, asked, roots) /\ trigger \in Triggers
  BY DEF TreeInv, TreeTypes
<1>3. cat \in [Places -> Category] /\ Together(cat)
  BY <1>2 DEF Reading
<1>4. Reading(cat, asks \ {a}, asked, roots) /\ Numbered(asks \ {a}, asked, trigger)
  BY <1>1, <1>2, <1>3, AnswerReads
<1>5. def \in Seq(Words)
  <2>1. a.db \in Words
    BY <1>2 DEF Numbered, Requests
  <2>2. "Triggers" \in Words /\ "g" \in Words
    BY WordsAre
  <2> QED
    BY <2>1, <2>2, Triple
<1>6. trigger.req = a.n => trigger.node = def
  BY <1>1, <1>2 DEF Numbered
<1> HIDE DEF def
<1>7. shown \in Triggers /\ shown.node = trigger.node /\ shown.req = trigger.req /\ shown.ddl = def
  BY <1>2, <1>5 DEF Triggers
<1> HIDE DEF shown
<1>8. /\ trigger' \in Triggers /\ trigger'.node = trigger.node /\ trigger'.req = trigger.req
      /\ trigger'.ddl \in {Nothing, trigger'.node}
  <2>1. trigger.ddl \in {Nothing, trigger.node}
    BY DEF TreeInv
  <2> QED
    BY <1>1, <1>2, <1>6, <1>7, <2>1
<1>9. Numbered(asks \ {a}, asked, trigger')
  BY <1>4, <1>8 DEF Numbered
<1>10. TreeTypes'
  BY <1>1, <1>8 DEF TreeInv, TreeTypes
<1> QED
  BY <1>1, <1>4, <1>8, <1>9, <1>10 DEF TreeInv

(* Sizes are attached to the tables of the database they are of.           *)
LEMMA AttachSizes ==
  ASSUME NEW rs, NEW ct, NEW cu, NEW sy, NEW sz, NEW e, Sized(rs, ct, sy, sized), attachStats(e, cu, sz),
         \A d \in ToSet(rs) : d # e => cu[d, "Tables"].kids = ct[d, "Tables"].kids /\ sz[d] = sy[d]
  PROVE  Sized(rs, cu, sz, sized')
<1>1. sized' = {n \in sized : n[1] # e} \cup {n \in Nodes(e, "Tables", cu) : n[3] \in sz[e]}
  BY DEF attachStats
<1>2. ASSUME NEW d \in ToSet(rs), NEW x \in cu[d, "Tables"].kids
      PROVE  <<d, "Tables", x>> \in sized' <=> x \in sz[d]
  <2>1. CASE d = e
    <3>1. <<d, "Tables", x>> \in Nodes(e, "Tables", cu)
      BY <1>2, <2>1 DEF Nodes
    <3> QED
      BY <1>1, <2>1, <3>1
  <2>2. CASE d # e
    <3>1. <<d, "Tables", x>> \in Nodes(d, "Tables", ct)
      BY <1>2, <2>2 DEF Nodes
    <3>2. <<d, "Tables", x>> \in sized <=> x \in sz[d]
      BY <1>2, <2>2, <3>1 DEF Sized
    <3>3. <<d, "Tables", x>> \notin Nodes(e, "Tables", cu)
      BY <2>2 DEF Nodes
    <3> QED
      BY <1>1, <2>2, <3>2, <3>3
  <2> QED
    BY <2>1, <2>2
<1>3. ASSUME NEW d \in ToSet(rs), NEW n \in Nodes(d, "Tables", cu) PROVE n \in sized' <=> n[3] \in sz[d]
  <2>1. PICK x \in cu[d, "Tables"].kids : n = <<d, "Tables", x>>
    BY <1>3 DEF Nodes
  <2> QED
    BY <1>2, <2>1
<1> QED
  BY <1>3 DEF Sized

(* What stays as it is when a reply is heard.                              *)
LEMMA HeardIs ==
  ASSUME TreeInv, NEW a \in asks
  PROVE  /\ asked \in Nat /\ Numbered(asks, asked, trigger) /\ Reading(cat, asks, asked, roots)
         /\ cat \in [Places -> Category] /\ Together(cat)
         /\ panel \in Panels /\ srv \in [DBs -> SUBSET Words] /\ roots \in Seq(DBs)
         /\ sizes \in [DBs -> SUBSET Words] /\ trigger \in Triggers
         /\ trigger.ddl \in {Nothing, trigger.node} /\ Sized(roots, cat, sizes, sized)
         /\ mirror = IF database = NoDb THEN {} ELSE listed[database].tables
         /\ a.tables \in SUBSET Words /\ (InTree(a.db) => a.db \in DBs)
<1>1. ToSet(roots) \subseteq DBs
  BY DEF TreeInv, TreeTypes, ToSet
<1>2. a.tables \in SUBSET Words
  BY DEF TreeInv, Numbered, Requests
<1> QED
  BY <1>1, <1>2 DEF TreeInv, TreeTypes, Reading, InTree

(* Sizes heard are those of their database from now on.                    *)
LEMMA TableStatsKeeps ==
  ASSUME TreeInv, NEW a \in asks, tableStatsLoaded(a)
  PROVE  TreeInv'
<1>1. /\ live /\ a.kind = "sizes" /\ asks' = asks \ {a} /\ live' = live /\ srv' = srv /\ asked' = asked
      /\ sizes' = [sizes EXCEPT ![a.db] = a.tables]
      /\ IF InTree(a.db) THEN attachStats(a.db, cat, sizes') ELSE sized' = sized
      /\ roots' = roots /\ cat' = cat /\ database' = database /\ listed' = listed /\ mirror' = mirror
      /\ trigger' = trigger /\ refreshTree({}, panel)
  BY DEF tableStatsLoaded, Heard, Answered, Rest
<1>2. /\ asked \in Nat /\ Numbered(asks, asked, trigger) /\ Reading(cat, asks, asked, roots)
      /\ cat \in [Places -> Category] /\ Together(cat)
      /\ panel \in Panels /\ srv \in [DBs -> SUBSET Words] /\ roots \in Seq(DBs)
      /\ sizes \in [DBs -> SUBSET Words] /\ trigger \in Triggers
      /\ trigger.ddl \in {Nothing, trigger.node} /\ Sized(roots, cat, sizes, sized)
      /\ mirror = IF database = NoDb THEN {} ELSE listed[database].tables
      /\ a.tables \in SUBSET Words
  BY HeardIs
<1>3. Reading(cat, asks \ {a}, asked, roots) /\ Numbered(asks \ {a}, asked, trigger)
  BY <1>1, <1>2, AnswerReads
<1>4. sizes' \in [DBs -> SUBSET Words] /\ \A d \in DBs : d # a.db => sizes'[d] = sizes[d]
  BY <1>1, <1>2
<1>5. ToSet(roots) \subseteq DBs
  BY <1>2 DEF ToSet
<1>6. Sized(roots, cat, sizes', sized')
  <2>1. CASE InTree(a.db)
    <3>1. attachStats(a.db, cat, sizes')
      BY <1>1, <2>1
    <3> QED
      BY <1>2, <1>4, <1>5, <3>1, AttachSizes
  <2>2. CASE ~InTree(a.db)
    <3>1. \A d \in ToSet(roots) : sizes'[d] = sizes[d]
      BY <1>4, <1>5, <2>2 DEF InTree
    <3>2. sized' = sized
      BY <1>1, <2>2
    <3> QED
      BY <1>2, <3>1, <3>2 DEF Sized
  <2> QED
    BY <2>1, <2>2
<1>7. /\ srv' \in [DBs -> SUBSET Words] /\ roots' \in Seq(DBs) /\ trigger' \in Triggers /\ asked' \in Nat
      /\ mirror' = IF database' = NoDb THEN {} ELSE listed'[database'].tables
      /\ trigger'.ddl \in {Nothing, trigger'.node} /\ live'
  BY <1>1, <1>2
<1>8. Sized(roots', cat', sizes', sized') /\ Reading(cat', asks', asked', roots') /\ Numbered(asks', asked', trigger')
  BY <1>1, <1>3, <1>6
<1> QED
  BY <1>1, <1>2, <1>4, <1>7, <1>8, RefreshKeeps

(* A category that was read is not loading.                                *)
LEMMA FilledIs ==
  ASSUME NEW ks \in SUBSET Words
  PROVE  /\ Filled(ks) \in Category /\ Filled(ks).loading = FALSE /\ Filled(ks).loaded = TRUE
         /\ Filled(ks).kids = ks
BY DEF Filled, Category

(* A listing fills the tables and the views of its database.               *)
LEMMA RelationsKeeps ==
  ASSUME TreeInv, NEW a \in asks, relationsLoaded(a)
  PROVE  TreeInv'
<1> DEFINE e == a.db
           fresh == Nodes(e, "Tables", cat)
<1>1. /\ live /\ a.kind = "relations" /\ asks' = asks \ {a} /\ live' = live /\ srv' = srv /\ asked' = asked
      /\ cat' = IF ~InTree(e) THEN cat
                ELSE [cat EXCEPT ![<<e, "Tables">>] = Filled(a.tables), ![<<e, "Views">>] = Filled({})]
      /\ attachStats(e, cat', sizes)
      /\ mirror' = IF database = NoDb THEN {} ELSE listed'[database].tables
      /\ roots' = roots /\ database' = database /\ sizes' = sizes
      /\ trigger' = trigger /\ refreshTree(fresh, panel)
  BY DEF relationsLoaded, applyRelations, syncRelations, Heard, Answered, Rest
<1>2. /\ asked \in Nat /\ Numbered(asks, asked, trigger) /\ Reading(cat, asks, asked, roots)
      /\ cat \in [Places -> Category] /\ Together(cat)
      /\ panel \in Panels /\ srv \in [DBs -> SUBSET Words] /\ roots \in Seq(DBs)
      /\ sizes \in [DBs -> SUBSET Words] /\ trigger \in Triggers
      /\ trigger.ddl \in {Nothing, trigger.node} /\ Sized(roots, cat, sizes, sized)
      /\ a.tables \in SUBSET Words /\ (InTree(e) => e \in DBs)
  BY HeardIs
<1>3. ToSet(roots) \subseteq DBs
  BY <1>2 DEF ToSet
<1> HIDE DEF fresh, e
<1>4. /\ cat' \in [Places -> Category] /\ Together(cat')
      /\ \A d \in DBs, c \in ToSet(Cats) : cat'[d, c].loading => cat[d, c].loading /\ ~(d = e /\ c \in Relational)
      /\ \A d \in DBs : d # e => cat'[d, "Tables"].kids = cat[d, "Tables"].kids
  <2>1. CASE ~InTree(e)
    <3>1. cat' = cat
      BY <1>1, <2>1
    <3>2. \A d \in DBs, c \in ToSet(Cats) : cat[d, c].loading => d # e
      BY <1>2, <2>1 DEF Reading, InTree
    <3> QED
      BY <1>2, <3>1, <3>2
  <2>2. CASE InTree(e)
    <3>1. cat' = [cat EXCEPT ![<<e, "Tables">>] = Filled(a.tables), ![<<e, "Views">>] = Filled({})]
      BY <1>1, <2>2
    <3>2. <<e, "Tables">> \in Places /\ <<e, "Views">> \in Places
      BY <1>2, <2>2, WordsAre DEF Places
    <3>3. /\ Filled(a.tables) \in Category /\ Filled(a.tables).loading = FALSE /\ Filled(a.tables).loaded = TRUE
          /\ Filled({}) \in Category /\ Filled({}).loading = FALSE /\ Filled({}).loaded = TRUE
      BY <1>2, FilledIs
    <3>4. cat' \in [Places -> Category]
      BY <1>2, <3>1, <3>2, <3>3
    <3>5. cat'[<<e, "Tables">>] = Filled(a.tables) /\ cat'[<<e, "Views">>] = Filled({})
      BY <1>2, <3>1, <3>2
    <3>6. \A q \in Places : q # <<e, "Tables">> /\ q # <<e, "Views">> => cat'[q] = cat[q]
      BY <1>2, <3>1
    <3>7. ASSUME NEW d \in DBs, NEW c \in ToSet(Cats), ~(d = e /\ c \in Relational)
          PROVE  cat'[d, c] = cat[d, c]
      <4>1. <<d, c>> \in Places
        BY DEF Places
      <4>2. <<d, c>> # <<e, "Tables">> /\ <<d, c>> # <<e, "Views">>
        BY <3>7 DEF Relational
      <4> QED
        BY <3>6, <4>1, <4>2
    <3>8. ASSUME NEW d \in DBs
          PROVE  cat'[d, "Tables"].loaded = cat'[d, "Views"].loaded /\ cat'[d, "Tables"].loading = cat'[d, "Views"].loading
      <4>1. CASE d = e
        BY <3>3, <3>5, <4>1
      <4>2. CASE d # e
        <5>1. cat'[d, "Tables"] = cat[d, "Tables"] /\ cat'[d, "Views"] = cat[d, "Views"]
          BY <3>7, <4>2, WordsAre
        <5> QED
          BY <1>2, <5>1 DEF Together
      <4> QED
        BY <4>1, <4>2
    <3>9. ASSUME NEW d \in DBs, NEW c \in ToSet(Cats), cat'[d, c].loading
          PROVE  cat[d, c].loading /\ ~(d = e /\ c \in Relational)
      <4>1. ~(d = e /\ c \in Relational)
        BY <3>3, <3>5, <3>9 DEF Relational
      <4> QED
        BY <3>7, <3>9, <4>1
    <3>10. \A d \in DBs : d # e => cat'[d, "Tables"].kids = cat[d, "Tables"].kids
      BY <3>7, WordsAre
    <3> QED
      BY <3>4, <3>8, <3>9, <3>10 DEF Together
  <2> QED
    BY <2>1, <2>2
<1>5. Reading(cat', asks \ {a}, asked, roots) /\ Numbered(asks \ {a}, asked, trigger)
  <2>1. \A d \in DBs, c \in ToSet(Cats) : cat'[d, c].loading =>
          cat[d, c].loading /\ ~(a.db = d /\ a.kind = IF c = "Triggers" THEN "triggers" ELSE "relations")
    BY <1>1, <1>4, WordsAre DEF Relational, e
  <2> QED
    BY <1>2, <1>4, <2>1, AnswerReads
<1>6. Sized(roots, cat', sizes, sized')
  BY <1>1, <1>2, <1>3, <1>4, AttachSizes
<1>7. /\ srv' \in [DBs -> SUBSET Words] /\ roots' \in Seq(DBs) /\ trigger' \in Triggers /\ asked' \in Nat
      /\ mirror' = IF database' = NoDb THEN {} ELSE listed'[database'].tables
      /\ sizes' \in [DBs -> SUBSET Words] /\ trigger'.ddl \in {Nothing, trigger'.node} /\ live'
  BY <1>1, <1>2
<1>8. Sized(roots', cat', sizes', sized') /\ Reading(cat', asks', asked', roots') /\ Numbered(asks', asked', trigger')
  BY <1>1, <1>5, <1>6
<1> QED
  BY <1>1, <1>2, <1>7, <1>8, RefreshKeeps

(* The triggers are a listing of their own.                                *)
LEMMA TriggersKeeps ==
  ASSUME TreeInv, NEW a \in asks, triggersLoaded(a)
  PROVE  TreeInv'
<1> DEFINE e == a.db
           fresh == Nodes(e, "Triggers", cat)
<1>1. /\ live /\ a.kind = "triggers" /\ asks' = asks \ {a} /\ live' = live /\ srv' = srv /\ asked' = asked
      /\ cat' = IF InTree(e) THEN [cat EXCEPT ![<<e, "Triggers">>] = Filled({"g"})] ELSE cat
      /\ sized' = sized /\ listed' = listed /\ mirror' = mirror
      /\ roots' = roots /\ database' = database /\ sizes' = sizes
      /\ trigger' = trigger /\ refreshTree(fresh, panel)
  BY DEF triggersLoaded, Heard, Answered, Rest
<1>2. /\ asked \in Nat /\ Numbered(asks, asked, trigger) /\ Reading(cat, asks, asked, roots)
      /\ cat \in [Places -> Category] /\ Together(cat)
      /\ panel \in Panels /\ srv \in [DBs -> SUBSET Words] /\ roots \in Seq(DBs)
      /\ sizes \in [DBs -> SUBSET Words] /\ trigger \in Triggers
      /\ trigger.ddl \in {Nothing, trigger.node} /\ Sized(roots, cat, sizes, sized)
      /\ mirror = IF database = NoDb THEN {} ELSE listed[database].tables
      /\ (InTree(e) => e \in DBs)
  BY HeardIs
<1>3. ToSet(roots) \subseteq DBs
  BY <1>2 DEF ToSet
<1> HIDE DEF fresh, e
<1>4. /\ cat' \in [Places -> Category]
      /\ \A d \in DBs, c \in ToSet(Cats) : c # "Triggers" => cat'[d, c] = cat[d, c]
      /\ \A d \in DBs, c \in ToSet(Cats) : cat'[d, c].loading => cat[d, c].loading /\ ~(d = e /\ c = "Triggers")
  <2>1. CASE ~InTree(e)
    <3>1. cat' = cat
      BY <1>1, <2>1
    <3>2. \A d \in DBs, c \in ToSet(Cats) : cat[d, c].loading => d # e
      BY <1>2, <2>1 DEF Reading, InTree
    <3> QED
      BY <1>2, <3>1, <3>2
  <2>2. CASE InTree(e)
    <3>1. cat' = [cat EXCEPT ![<<e, "Triggers">>] = Filled({"g"})]
      BY <1>1, <2>2
    <3>2. <<e, "Triggers">> \in Places
      BY <1>2, <2>2, WordsAre DEF Places
    <3>3. Filled({"g"}) \in Category /\ Filled({"g"}).loading = FALSE
      <4>1. {"g"} \in SUBSET Words
        BY WordsAre
      <4> QED
        BY <4>1, FilledIs
    <3>4. cat' \in [Places -> Category]
      BY <1>2, <3>1, <3>2, <3>3
    <3>5. cat'[<<e, "Triggers">>] = Filled({"g"})
      BY <1>2, <3>1, <3>2
    <3>6. \A q \in Places : q # <<e, "Triggers">> => cat'[q] = cat[q]
      BY <1>2, <3>1
    <3>7. ASSUME NEW d \in DBs, NEW c \in ToSet(Cats), ~(d = e /\ c = "Triggers")
          PROVE  cat'[d, c] = cat[d, c]
      <4>1. <<d, c>> \in Places
        BY DEF Places
      <4>2. <<d, c>> # <<e, "Triggers">>
        BY <3>7
      <4> QED
        BY <3>6, <4>1, <4>2
    <3>8. ASSUME NEW d \in DBs, NEW c \in ToSet(Cats), cat'[d, c].loading
          PROVE  cat[d, c].loading /\ ~(d = e /\ c = "Triggers")
      <4>1. ~(d = e /\ c = "Triggers")
        BY <3>3, <3>5, <3>8
      <4> QED
        BY <3>7, <3>8, <4>1
    <3> QED
      BY <3>4, <3>7, <3>8
  <2> QED
    BY <2>1, <2>2
<1>5. \A d \in DBs : cat'[d, "Tables"] = cat[d, "Tables"] /\ cat'[d, "Views"] = cat[d, "Views"]
  BY <1>4, WordsAre
<1>6. Together(cat')
  BY <1>2, <1>5 DEF Together
<1>7. Reading(cat', asks \ {a}, asked, roots) /\ Numbered(asks \ {a}, asked, trigger)
  <2>1. \A d \in DBs, c \in ToSet(Cats) : cat'[d, c].loading =>
          cat[d, c].loading /\ ~(a.db = d /\ a.kind = IF c = "Triggers" THEN "triggers" ELSE "relations")
    BY <1>1, <1>4 DEF e
  <2> QED
    BY <1>2, <1>4, <1>6, <2>1, AnswerReads
<1>8. Sized(roots, cat', sizes, sized)
  BY <1>2, <1>3, <1>5 DEF Sized, Nodes
<1>9. /\ srv' \in [DBs -> SUBSET Words] /\ roots' \in Seq(DBs) /\ trigger' \in Triggers /\ asked' \in Nat
      /\ mirror' = IF database' = NoDb THEN {} ELSE listed'[database'].tables
      /\ sizes' \in [DBs -> SUBSET Words] /\ trigger'.ddl \in {Nothing, trigger'.node} /\ live'
  BY <1>1, <1>2
<1>10. Sized(roots', cat', sizes', sized') /\ Reading(cat', asks', asked', roots') /\ Numbered(asks', asked', trigger')
  BY <1>1, <1>7, <1>8
<1> QED
  BY <1>1, <1>2, <1>9, <1>10, RefreshKeeps

(* A failure keeps what its categories had.                                *)
LEMMA FailedKeeps ==
  ASSUME TreeInv, NEW a \in asks, NEW unsupported \in BOOLEAN, categoryFailed(a, unsupported)
  PROVE  TreeInv'
<1> DEFINE e == a.db
           cs == IF a.kind = "triggers" THEN {"Triggers"} ELSE Relational
           Missed(k) == k[1] # e \/ k[2] \notin cs \/ ~InTree(e)
<1>1. /\ live /\ a.kind \in {"relations", "triggers"} /\ asks' = asks \ {a} /\ live' = live /\ srv' = srv
      /\ asked' = asked /\ (unsupported => a.kind = "triggers")
      /\ cat' = [k \in DOMAIN cat |-> IF Missed(k) THEN cat[k]
                                      ELSE IF unsupported THEN Filled({}) ELSE [cat[k] EXCEPT !.loading = FALSE]]
      /\ sized' = sized /\ listed' = listed /\ mirror' = mirror
      /\ roots' = roots /\ database' = database /\ sizes' = sizes
      /\ trigger' = trigger /\ refreshTree({}, panel)
  BY DEF categoryFailed, Heard, Answered, Rest
<1>2. /\ asked \in Nat /\ Numbered(asks, asked, trigger) /\ Reading(cat, asks, asked, roots)
      /\ cat \in [Places -> Category] /\ Together(cat)
      /\ panel \in Panels /\ srv \in [DBs -> SUBSET Words] /\ roots \in Seq(DBs)
      /\ sizes \in [DBs -> SUBSET Words] /\ trigger \in Triggers
      /\ trigger.ddl \in {Nothing, trigger.node} /\ Sized(roots, cat, sizes, sized)
      /\ mirror = IF database = NoDb THEN {} ELSE listed[database].tables
  BY HeardIs
<1>3. ToSet(roots) \subseteq DBs
  BY <1>2 DEF ToSet
<1>4. ASSUME NEW k \in Places
      PROVE  /\ cat'[k] \in Category
             /\ Missed(k) => cat'[k] = cat[k]
             /\ ~Missed(k) => cat'[k].loading = FALSE
             /\ ~Missed(k) /\ ~unsupported => cat'[k].loaded = cat[k].loaded /\ cat'[k].kids = cat[k].kids
  <2>1. cat[k] \in Category
    BY <1>2
  <2>2. CASE Missed(k)
    <3>1. cat'[k] = cat[k]
      BY <1>1, <1>2, <2>2
    <3> HIDE DEF Missed
    <3> QED
      BY <2>1, <2>2, <3>1
  <2>3. CASE ~Missed(k) /\ unsupported
    <3>1. cat'[k] = Filled({})
      BY <1>1, <1>2, <2>3
    <3>2. Filled({}) \in Category /\ Filled({}).loading = FALSE
      BY FilledIs
    <3> HIDE DEF Missed
    <3> QED
      BY <2>3, <3>1, <3>2
  <2>4. CASE ~Missed(k) /\ ~unsupported
    <3>1. cat'[k] = [cat[k] EXCEPT !.loading = FALSE]
      BY <1>1, <1>2, <2>4
    <3> HIDE DEF Missed
    <3> QED
      BY <2>1, <2>4, <3>1 DEF Category
  <2> HIDE DEF Missed
  <2> QED
    BY <2>2, <2>3, <2>4
<1>5. cat' \in [Places -> Category]
  <2>1. DOMAIN cat' = Places /\ cat' = [k \in Places |-> cat'[k]]
    BY <1>1, <1>2
  <2> HIDE DEF Missed
  <2> QED
    BY <1>4, <2>1
<1>6. ASSUME NEW d \in DBs
      PROVE  /\ cat'[d, "Tables"].kids = cat[d, "Tables"].kids
             /\ cat'[d, "Tables"].loaded = cat'[d, "Views"].loaded
             /\ cat'[d, "Tables"].loading = cat'[d, "Views"].loading
  <2> DEFINE t == <<d, "Tables">>
             v == <<d, "Views">>
  <2>1. t \in Places /\ v \in Places
    BY WordsAre DEF Places
  <2>2. Missed(t) = Missed(v) /\ (~Missed(t) => a.kind # "triggers")
    BY DEF Relational
  <2>3. cat[d, "Tables"].loaded = cat[d, "Views"].loaded /\ cat[d, "Tables"].loading = cat[d, "Views"].loading
    BY <1>2 DEF Together
  <2> HIDE DEF Missed
  <2>4. CASE Missed(t)
    <3>1. cat'[t] = cat[t] /\ cat'[v] = cat[v]
      BY <1>4, <2>1, <2>2, <2>4
    <3> QED
      BY <2>3, <3>1
  <2>5. CASE ~Missed(t)
    <3>1. ~unsupported
      BY <1>1, <2>2, <2>5
    <3>2. /\ cat'[t].loading = FALSE /\ cat'[t].loaded = cat[t].loaded /\ cat'[t].kids = cat[t].kids
          /\ cat'[v].loading = FALSE /\ cat'[v].loaded = cat[v].loaded
      BY <1>4, <2>1, <2>2, <2>5, <3>1
    <3> QED
      BY <2>3, <3>2
  <2> QED
    BY <2>4, <2>5
<1>7. ASSUME NEW d \in DBs, NEW c \in ToSet(Cats), cat'[d, c].loading
      PROVE  cat[d, c].loading /\ ~(a.db = d /\ a.kind = IF c = "Triggers" THEN "triggers" ELSE "relations")
  <2> DEFINE k == <<d, c>>
  <2>1. k \in Places
    BY DEF Places
  <2>2. Missed(k)
    <3> HIDE DEF Missed
    <3> QED
      BY <1>4, <1>7, <2>1
  <2>3. cat'[k] = cat[k]
    <3> HIDE DEF Missed
    <3> QED
      BY <1>4, <2>1, <2>2
  <2>4. cat[d, c].loading
    BY <1>7, <2>3
  <2>5. d \in ToSet(roots)
    BY <1>2, <2>4 DEF Reading
  <2>6. ~(a.db = d /\ a.kind = IF c = "Triggers" THEN "triggers" ELSE "relations")
    BY <2>2, <2>5, WordsAre DEF InTree, Relational
  <2> QED
    BY <2>4, <2>6
<1>8. Reading(cat', asks \ {a}, asked, roots) /\ Numbered(asks \ {a}, asked, trigger)
  <2>1. Together(cat')
    BY <1>6 DEF Together
  <2> QED
    BY <1>2, <1>5, <1>7, <2>1, AnswerReads
<1>9. Sized(roots, cat', sizes, sized)
  BY <1>2, <1>3, <1>6 DEF Sized, Nodes
<1>10. /\ srv' \in [DBs -> SUBSET Words] /\ roots' \in Seq(DBs) /\ trigger' \in Triggers /\ asked' \in Nat
       /\ mirror' = IF database' = NoDb THEN {} ELSE listed'[database'].tables
       /\ sizes' \in [DBs -> SUBSET Words] /\ trigger'.ddl \in {Nothing, trigger'.node} /\ live'
  BY <1>1, <1>2
<1>11. Sized(roots', cat', sizes', sized') /\ Reading(cat', asks', asked', roots') /\ Numbered(asks', asked', trigger')
  BY <1>1, <1>8, <1>9
<1> QED
  BY <1>1, <1>2, <1>10, <1>11, RefreshKeeps

-----------------------------------------------------------------------------
(* The keys.                                                               *)

(* More that was asked for leaves nothing waiting.                         *)
LEMMA MoreAsked ==
  ASSUME NEW as, NEW k, NEW rs, NEW ct, Reading(ct, as, k, rs),
         NEW bs, as \subseteq bs, NEW m \in Nat, m > 0
  PROVE  Reading(ct, bs, m, rs)
<1>1. \A d, c : AskFor(as, d, c) => AskFor(bs, d, c)
  BY DEF AskFor
<1> QED
  BY <1>1 DEF Reading

(* A tree that has the nodes it had, shown anew, is as it should be.       *)
LEMMA SameTreeKeeps ==
  ASSUME TreeInv, NEW fresh, NEW pn \in Panels, refreshTree(fresh, pn),
         UNCHANGED <<live, database, listed, mirror, roots, sizes, sized, trigger>>,
         srv' \in [DBs -> SUBSET Words], asked' \in Nat,
         Numbered(asks', asked', trigger), Reading(cat', asks', asked', roots),
         \A q \in Places : cat'[q].kids = cat[q].kids
  PROVE  TreeInv'
<1>1. /\ live' = live /\ database' = database /\ listed' = listed /\ mirror' = mirror /\ roots' = roots
      /\ sizes' = sizes /\ sized' = sized /\ trigger' = trigger
  OBVIOUS
<1>2. /\ roots \in Seq(DBs) /\ sizes \in [DBs -> SUBSET Words] /\ trigger \in Triggers
      /\ trigger.ddl \in {Nothing, trigger.node} /\ Sized(roots, cat, sizes, sized)
      /\ mirror = (IF database = NoDb THEN {} ELSE listed[database].tables) /\ (~live => roots = <<>>)
  BY DEF TreeInv, TreeTypes
<1>3. Sized(roots, cat', sizes, sized)
  <2>1. \A d \in ToSet(roots) : d \in DBs
    BY <1>2 DEF ToSet
  <2>2. \A d \in DBs : <<d, "Tables">> \in Places
    BY WordsAre DEF Places
  <2>3. \A d \in ToSet(roots) : cat'[d, "Tables"].kids = cat[d, "Tables"].kids
    BY <2>1, <2>2
  <2> QED
    BY <1>2, <2>3 DEF Sized, Nodes
<1>4. /\ roots' \in Seq(DBs) /\ sizes' \in [DBs -> SUBSET Words] /\ trigger' \in Triggers
      /\ trigger'.ddl \in {Nothing, trigger'.node} /\ Sized(roots', cat', sizes', sized')
      /\ mirror' = (IF database' = NoDb THEN {} ELSE listed'[database'].tables) /\ (~live' => roots' = <<>>)
      /\ Numbered(asks', asked', trigger') /\ Reading(cat', asks', asked', roots')
  BY <1>1, <1>2, <1>3
<1> QED
  BY <1>4, RefreshKeeps

(* A node that opens is asked for what it has, once.                       *)
LEMMA ExpandReads ==
  ASSUME TreeInv, selectedNode # Nothing, expandNode(selectedNode)
  PROVE  /\ asked' \in Nat /\ Numbered(asks', asked', trigger) /\ Reading(cat', asks', asked', roots)
         /\ \A q \in Places : cat'[q].kids = cat[q].kids
<1> DEFINE n == selectedNode
<1>1. n[1] \in DBs /\ n[1] \in ToSet(roots) /\ (Len(n) > 1 => n[2] \in ToSet(Cats))
  BY SelectedIs
<1>2. \/ Len(n) = 2 /\ loadCategory(n[1], n[2], cat)
      \/ cat' = cat /\ asks' = asks /\ asked' = asked
  BY DEF expandNode, NoLoad
<1> HIDE DEF n
<1>3. TreeTypes /\ asked \in Nat /\ Numbered(asks, asked, trigger) /\ Reading(cat, asks, asked, roots)
  BY DEF TreeInv, TreeTypes
<1>4. CASE Len(n) = 2 /\ loadCategory(n[1], n[2], cat)
  <2>1. n[2] \in ToSet(Cats)
    BY <1>1, <1>4
  <2> QED
    BY <1>1, <1>3, <1>4, <2>1, LoadIsAsked
<1>5. CASE cat' = cat /\ asks' = asks /\ asked' = asked
  BY <1>3, <1>5
<1> QED
  BY <1>2, <1>4, <1>5

(* What loads nothing leaves what is read as it was.                       *)
LEMMA NoLoadReads ==
  ASSUME TreeInv, NoLoad
  PROVE  /\ asked' \in Nat /\ Numbered(asks', asked', trigger) /\ Reading(cat', asks', asked', roots)
         /\ \A q \in Places : cat'[q].kids = cat[q].kids
BY DEF TreeInv, TreeTypes, NoLoad

(* What keeps the tree keeps its shapes.                                   *)
LEMMA SameTreeIs ==
  ASSUME TreeInv, SameTree
  PROVE  /\ UNCHANGED <<live, database, listed, mirror, roots, sizes, sized, trigger>>
         /\ srv' \in [DBs -> SUBSET Words] /\ panel \in Panels /\ rows \in Seq(AllNodes) /\ CursorOn(rows, panel)
BY RowsAreNodes DEF TreeInv, TreeTypes, SameTree

(* Enter on a branch.                                                      *)
LEMMA ToggleKeeps ==
  ASSUME TreeInv, NEW pn \in Panels, selectedNode # Nothing, toggleNode(selectedNode, pn)
  PROVE  TreeInv'
<1>1. SameTree /\ refreshTree({}, pn) /\ (NoLoad \/ expandNode(selectedNode))
  BY DEF toggleNode
<1>2. /\ asked' \in Nat /\ Numbered(asks', asked', trigger) /\ Reading(cat', asks', asked', roots)
      /\ \A q \in Places : cat'[q].kids = cat[q].kids
  BY <1>1, ExpandReads, NoLoadReads
<1>3. UNCHANGED <<live, database, listed, mirror, roots, sizes, sized, trigger>> /\ srv' \in [DBs -> SUBSET Words]
  BY <1>1, SameTreeIs
<1> QED
  BY <1>1, <1>2, <1>3, SameTreeKeeps

(* A key that moves the cursor alone.                                      *)
LEMMA MovedKeeps ==
  ASSUME TreeInv, SameTree, NoLoad, UNCHANGED <<open, rows, marks>>, panel' \in Panels, CursorOn(rows, panel')
  PROVE  TreeInv'
BY PanelKeeps DEF PanelOnly, SameTree, NoLoad

(* l.                                                                      *)
LEMMA ExpandKeeps ==
  ASSUME TreeInv, expandSelected
  PROVE  TreeInv'
<1>1. /\ SameTree /\ selectedNode # Nothing
      /\ \/ panel' = move(rows, panel, 1) /\ NoLoad /\ UNCHANGED <<open, rows, marks>>
         \/ expandNode(selectedNode) /\ refreshTree({}, panel)
  BY DEF expandSelected, Keys
<1>2. /\ UNCHANGED <<live, database, listed, mirror, roots, sizes, sized, trigger>>
      /\ srv' \in [DBs -> SUBSET Words] /\ panel \in Panels /\ rows \in Seq(AllNodes) /\ CursorOn(rows, panel)
  BY <1>1, SameTreeIs
<1>3. CASE panel' = move(rows, panel, 1) /\ NoLoad /\ UNCHANGED <<open, rows, marks>>
  <2>1. panel' \in Panels /\ CursorOn(rows, panel')
    BY <1>2, <1>3, MoveEndsOnARow
  <2> QED
    BY <1>1, <1>3, <2>1, MovedKeeps
<1>4. CASE expandNode(selectedNode) /\ refreshTree({}, panel)
  <2>1. /\ asked' \in Nat /\ Numbered(asks', asked', trigger) /\ Reading(cat', asks', asked', roots)
        /\ \A q \in Places : cat'[q].kids = cat[q].kids
    BY <1>1, <1>4, ExpandReads
  <2> QED
    BY <1>2, <1>4, <2>1, SameTreeKeeps
<1> QED
  BY <1>1, <1>3, <1>4

(* h.                                                                      *)
LEMMA CollapseKeeps ==
  ASSUME TreeInv, collapseSelected
  PROVE  TreeInv'
<1>1. /\ SameTree /\ NoLoad
      /\ \/ panel' = selectNode(rows, panel, parentOf(selectedNode)) /\ UNCHANGED <<open, rows, marks>>
         \/ refreshTree({}, panel)
  BY DEF collapseSelected
<1>2. /\ UNCHANGED <<live, database, listed, mirror, roots, sizes, sized, trigger>>
      /\ srv' \in [DBs -> SUBSET Words] /\ panel \in Panels /\ rows \in Seq(AllNodes) /\ CursorOn(rows, panel)
  BY <1>1, SameTreeIs
<1>3. CASE panel' = selectNode(rows, panel, parentOf(selectedNode)) /\ UNCHANGED <<open, rows, marks>>
  <2>1. panel' \in Panels /\ CursorOn(rows, panel')
    BY <1>2, <1>3, SelectEndsOnARow
  <2> QED
    BY <1>1, <1>3, <2>1, MovedKeeps
<1>4. CASE refreshTree({}, panel)
  <2>1. /\ asked' \in Nat /\ Numbered(asks', asked', trigger) /\ Reading(cat', asks', asked', roots)
        /\ \A q \in Places : cat'[q].kids = cat[q].kids
    BY <1>1, NoLoadReads
  <2> QED
    BY <1>2, <1>4, <2>1, SameTreeKeeps
<1> QED
  BY <1>1, <1>3, <1>4

(* What is read again is read by a new listing.                            *)
LEMMA ReloadKeeps ==
  ASSUME TreeInv, reloadNode
  PROVE  TreeInv'
<1> DEFINE n == selectedNode
<1>1. /\ SameTree
      /\ IF Len(n) < 2
         THEN Send({"databases"}, NoDb) /\ UNCHANGED <<cat, open, rows, panel, marks>>
         ELSE loadCategory(n[1], n[2], unload(n[1], n[2], cat)) /\ refreshTree({}, panel)
  BY DEF reloadNode
<1>2. /\ UNCHANGED <<live, database, listed, mirror, roots, sizes, sized, trigger>>
      /\ srv' \in [DBs -> SUBSET Words] /\ panel \in Panels /\ rows \in Seq(AllNodes) /\ CursorOn(rows, panel)
  BY <1>1, SameTreeIs
<1>3. TreeTypes /\ asked \in Nat /\ Numbered(asks, asked, trigger) /\ Reading(cat, asks, asked, roots)
  BY DEF TreeInv, TreeTypes
<1>4. n # Nothing => n \in AllNodes /\ n[1] \in DBs /\ n[1] \in ToSet(roots) /\ (Len(n) > 1 => n[2] \in ToSet(Cats))
  BY SelectedIs
<1> HIDE DEF n
<1>5. CASE Len(n) < 2
  <2>1. Send({"databases"}, NoDb) /\ UNCHANGED <<cat, open, rows, panel, marks>>
    BY <1>1, <1>5
  <2>2. NoDb \in DBs \cup {NoDb} /\ {"databases"} \in SUBSET {"databases", "relations", "sizes", "triggers"}
    OBVIOUS
  <2>3. asked' = asked + 1 /\ asked' \in Nat /\ Numbered(asks', asked', trigger) /\ asks \subseteq asks'
    BY <1>3, <2>1, <2>2, SendNumbers
  <2>4. asked' > 0
    BY <1>3, <2>3
  <2>5. Reading(cat, asks', asked', roots)
    BY <1>3, <2>3, <2>4, MoreAsked
  <2>6. TreeTypes'
    BY <1>2, <1>3, <2>1, <2>3 DEF TreeTypes
  <2>7. /\ live' = live /\ database' = database /\ listed' = listed /\ mirror' = mirror /\ roots' = roots
        /\ sizes' = sizes /\ sized' = sized /\ trigger' = trigger /\ changes' = changes
        /\ cat' = cat /\ open' = open /\ rows' = rows /\ panel' = panel /\ marks' = marks
    BY <1>1, <2>1 DEF SameTree
  <2> QED
    BY <2>3, <2>5, <2>6, <2>7 DEF TreeInv
<1>6. CASE ~(Len(n) < 2)
  <2> DEFINE ct == unload(n[1], n[2], cat)
  <2>1. n # Nothing
    BY <1>6 DEF Nothing
  <2>2. Len(n) > 1
    BY <1>4, <1>6, <2>1 DEF AllNodes
  <2>3. n[1] \in DBs /\ n[1] \in ToSet(roots) /\ n[2] \in ToSet(Cats)
    BY <1>4, <2>1, <2>2
  <2>4. Reading(ct, asks, asked, roots) /\ \A q \in Places : ct[q].kids = cat[q].kids
    BY <1>3, <2>3, UnloadReads
  <2>5. loadCategory(n[1], n[2], ct) /\ refreshTree({}, panel)
    BY <1>1, <1>6
  <2> HIDE DEF ct
  <2>6. /\ asked' \in Nat /\ Numbered(asks', asked', trigger) /\ Reading(cat', asks', asked', roots)
        /\ \A q \in Places : cat'[q].kids = ct[q].kids
    BY <1>3, <2>3, <2>4, <2>5, LoadIsAsked
  <2>7. \A q \in Places : cat'[q].kids = cat[q].kids
    BY <2>4, <2>6
  <2> QED
    BY <1>2, <2>5, <2>6, <2>7, SameTreeKeeps
<1> QED
  BY <1>5, <1>6

(* Enter on a relation browses it.                                         *)
LEMMA ObjectKeeps ==
  ASSUME TreeInv, NEW n, NEW pn \in Panels, CursorOn(rows, pn), openObject(n, pn)
  PROVE  TreeInv'
<1>1. /\ database' = n[1] /\ mirror' = (IF n[1] = NoDb THEN {} ELSE listed[n[1]].tables)
      /\ trigger' = NoTrigger /\ panel' = pn /\ asks' = asks /\ asked' = asked /\ cat' = cat
      /\ live' = live /\ srv' = srv /\ listed' = listed /\ roots' = roots /\ open' = open
      /\ sizes' = sizes /\ sized' = sized /\ changes' = changes /\ marks' = marks /\ rows' = rows
  BY DEF openObject, syncRelations, NoLoad
<1>2. Numbered(asks, asked, NoTrigger)
  BY NumberedForNone DEF TreeInv
<1>3. TreeTypes'
  BY <1>1, NoTriggerIs DEF TreeInv, TreeTypes
<1>4. mirror' = IF database' = NoDb THEN {} ELSE listed'[database'].tables
  BY <1>1
<1>5. trigger'.ddl \in {Nothing, trigger'.node} /\ Numbered(asks', asked', trigger')
  BY <1>1, <1>2, NoTriggerIs
<1>6. /\ rows' = flatten(roots', open', cat') /\ CursorOn(rows', panel')
      /\ Marked(roots', cat', changes', marks') /\ Sized(roots', cat', sizes', sized')
      /\ Reading(cat', asks', asked', roots') /\ (~live' => roots' = <<>>)
  BY <1>1 DEF TreeInv
<1> QED
  BY <1>3, <1>4, <1>5, <1>6 DEF TreeInv

(* Enter on a trigger asks for its definition, by the number that opens it. *)
LEMMA TriggerKeeps ==
  ASSUME TreeInv, selectedNode # Nothing, NEW pn \in Panels, CursorOn(rows, pn), openTrigger(selectedNode, pn)
  PROVE  TreeInv'
<1> DEFINE n == selectedNode
           new == Ask("ddl", n[1])
           tr == [node |-> n, req |-> asked, ddl |-> Nothing]
<1>1. /\ Len(n) = 3 /\ n[2] = "Triggers" /\ trigger' = tr /\ panel' = pn
      /\ asked' = asked + 1 /\ asks' = asks \cup {new}
      /\ live' = live /\ srv' = srv /\ database' = database /\ listed' = listed /\ mirror' = mirror
      /\ roots' = roots /\ open' = open /\ cat' = cat
      /\ sizes' = sizes /\ sized' = sized /\ changes' = changes /\ marks' = marks /\ rows' = rows
  BY DEF openTrigger, leaf, Send
<1>2. /\ n \in AllNodes /\ hasRow(n, roots, open, cat) /\ n[1] \in DBs /\ n[2] \in ToSet(Cats)
  BY <1>1, SelectedIs
<1>3. n = <<n[1], "Triggers", "g">> /\ n \in Seq(Words)
  BY <1>1, <1>2 DEF AllNodes, leaf
<1>4. /\ TreeTypes /\ asked \in Nat /\ Numbered(asks, asked, trigger) /\ Reading(cat, asks, asked, roots)
  BY DEF TreeInv, TreeTypes
<1>5. asked > 0
  <2>1. n[3] \in cat[n[1], n[2]].kids
    BY <1>1, <1>2 DEF hasRow
  <2> QED
    BY <1>2, <1>4, <2>1 DEF Reading
<1> HIDE DEF n
<1>6. new \in Requests /\ new.n = asked /\ new.kind = "ddl" /\ new.db = n[1]
  BY <1>2, <1>4, AskIs
<1>7. tr \in Triggers /\ tr.node = n /\ tr.req = asked /\ tr.ddl = Nothing
  BY <1>3, <1>4 DEF Triggers, Nothing
<1> HIDE DEF new, tr
<1>8. Numbered(asks', asked', trigger')
  <2>1. ASSUME NEW a \in asks
        PROVE  /\ a.n < asked + 1 /\ (a.kind = "ddl" => a.n > 0) /\ a.n # asked
    <3>1. a.n \in Nat
      BY <1>4, <2>1 DEF Numbered, Requests
    <3>2. a.n < asked /\ (a.kind = "ddl" => a.n > 0)
      BY <1>4, <2>1 DEF Numbered
    <3> QED
      BY <1>4, <3>1, <3>2
  <2>2. new.n < asked + 1 /\ new.n > 0
    BY <1>4, <1>5, <1>6
  <2>3. tr.node = <<new.db, "Triggers", "g">>
    BY <1>3, <1>6, <1>7
  <2>4. asks' \subseteq Requests
    BY <1>1, <1>4, <1>6 DEF Numbered
  <2>5. ASSUME NEW a \in asks'
        PROVE  /\ a.n < asked'
               /\ a.kind = "ddl" => a.n > 0 /\ (trigger'.req = a.n => trigger'.node = <<a.db, "Triggers", "g">>)
    <3>1. CASE a \in asks
      BY <1>1, <1>7, <2>1, <3>1
    <3>2. CASE a = new
      BY <1>1, <2>2, <2>3, <3>2
    <3> QED
      BY <1>1, <2>5, <3>1, <3>2
  <2> QED
    BY <2>4, <2>5 DEF Numbered
<1>9. asked' \in Nat /\ asked' > 0 /\ asks \subseteq asks'
  BY <1>1, <1>4
<1>10. Reading(cat, asks', asked', roots)
  BY <1>4, <1>9, MoreAsked
<1>11. TreeTypes'
  BY <1>1, <1>4, <1>7, <1>9 DEF TreeTypes
<1>12. /\ rows' = flatten(roots', open', cat') /\ CursorOn(rows', panel')
       /\ Marked(roots', cat', changes', marks') /\ Sized(roots', cat', sizes', sized')
       /\ mirror' = (IF database' = NoDb THEN {} ELSE listed'[database'].tables)
       /\ (~live' => roots' = <<>>)
  BY <1>1 DEF TreeInv
<1> QED
  BY <1>1, <1>7, <1>8, <1>10, <1>11, <1>12 DEF TreeInv

(* Enter, whatever it is on.                                               *)
LEMMA ActivateKeeps ==
  ASSUME TreeInv, selectedNode # Nothing, NEW pn \in Panels, CursorOn(rows, pn), activateSelection(pn)
  PROVE  TreeInv'
BY ToggleKeeps, ObjectKeeps, TriggerKeeps DEF activateSelection

(* The panel's own keys.                                                   *)
LEMMA PanelIs ==
  ASSUME TreeInv
  PROVE  panel \in Panels /\ rows \in Seq(AllNodes) /\ CursorOn(rows, panel)
BY RowsAreNodes DEF TreeInv, TreeTypes

(* A step in the list.                                                     *)
LEMMA WalkKeeps ==
  ASSUME TreeInv, Walk
  PROVE  TreeInv'
<1>1. PICK delta \in {-1, 1} : panel' = move(rows, [panel EXCEPT !.navigated = panel.filtering \/ @], delta)
  BY DEF Walk
<1> DEFINE p == [panel EXCEPT !.navigated = panel.filtering \/ @]
<1>2. panel \in Panels /\ rows \in Seq(AllNodes)
  BY PanelIs
<1>3. p \in Panels
  BY <1>2 DEF Panels
<1>4. panel' = move(rows, p, delta) /\ delta \in Int
  BY <1>1
<1> HIDE DEF p
<1>5. panel' \in Panels /\ CursorOn(rows, panel')
  BY <1>2, <1>3, <1>4, MoveEndsOnARow
<1> QED
  BY <1>5, PanelKeeps DEF Walk

(* The filter opens,                                                       *)
LEMMA StartFilterKeeps ==
  ASSUME TreeInv, startFilter
  PROVE  TreeInv'
<1>1. panel \in Panels /\ CursorOn(rows, panel)
  BY PanelIs
<1>2. panel' = [panel EXCEPT !.filtering = TRUE, !.navigated = FALSE]
  BY DEF startFilter
<1>3. panel' \in Panels /\ panel'.filter = panel.filter /\ panel'.cursor = panel.cursor
  BY <1>1, <1>2 DEF Panels
<1>4. CursorOn(rows, panel')
  BY <1>1, <1>3 DEF CursorOn
<1> QED
  BY <1>3, <1>4, PanelKeeps DEF startFilter

(* is typed,                                                               *)
LEMMA TypeFilterKeeps ==
  ASSUME TreeInv, TypeFilter
  PROVE  TreeInv'
<1>1. PICK p \in (Patterns \cup {""}) \ {panel.filter} : panel' = setFilter(panel, p)
  BY DEF TypeFilter
<1>2. p \in Words
  BY <1>1, WordsAre
<1>3. panel' \in Panels /\ CursorOn(rows, panel')
  BY <1>1, <1>2, PanelIs, SetFilterEndsOnARow
<1> QED
  BY <1>3, PanelKeeps DEF TypeFilter

(* is given up                                                             *)
LEMMA FilterEscKeeps ==
  ASSUME TreeInv, FilterEsc
  PROVE  TreeInv'
<1>1. panel' \in Panels /\ CursorOn(rows, panel')
  BY PanelIs, ClearFilterEndsOnARow DEF FilterEsc
<1> QED
  BY <1>1, PanelKeeps DEF FilterEsc

(* or confirmed.                                                           *)
LEMMA FilterEnterKeeps ==
  ASSUME TreeInv, FilterEnter
  PROVE  TreeInv'
<1> DEFINE p == [panel EXCEPT !.filtering = FALSE, !.navigated = FALSE]
<1>1. panel \in Panels /\ CursorOn(rows, panel)
  BY PanelIs
<1>2. p \in Panels /\ p.filter = panel.filter /\ p.cursor = panel.cursor
  BY <1>1 DEF Panels
<1>3. \/ selectedNode # Nothing /\ activateSelection(p)
      \/ panel' = p /\ PanelOnly
  BY DEF FilterEnter
<1> HIDE DEF p
<1>4. CursorOn(rows, p)
  BY <1>1, <1>2 DEF CursorOn
<1> QED
  BY <1>2, <1>3, <1>4, ActivateKeeps, PanelKeeps

(* A jump opens what is on the way to its relation.                        *)
LEMMA JumpKeeps ==
  ASSUME TreeInv, NEW d, NEW name, jumpTo(d, name)
  PROVE  TreeInv'
<1>1. PICK c \in Relational : selectObject(d, c, name)
  BY DEF jumpTo
<1> DEFINE p == applyFilter(rows', panel)
<1>2. /\ live' = live /\ srv' = srv /\ asks' = asks /\ asked' = asked /\ database' = database
      /\ listed' = listed /\ mirror' = mirror /\ roots' = roots /\ cat' = cat
      /\ sizes' = sizes /\ sized' = sized /\ changes' = changes /\ trigger' = trigger
      /\ rows' = flatten(roots, open', cat) /\ marks' = markStagedSchema(roots, cat)
      /\ panel' = selectNode(rows', p, <<d, c, name>>)
  BY <1>1 DEF jumpTo, selectObject, NoLoad
<1>3. rows' \in Seq(AllNodes) /\ panel \in Panels
  BY <1>2, RowsAreNodes, PanelIs
<1>4. p \in Panels
  BY <1>3, FilterEndsOnARow
<1> HIDE DEF p
<1>5. panel' \in Panels /\ CursorOn(rows', panel')
  BY <1>2, <1>3, <1>4, SelectEndsOnARow
<1>6. Marked(roots, cat, changes', marks')
  BY <1>2, MarksAre
<1>7. TreeTypes'
  BY <1>2, <1>5 DEF TreeInv, TreeTypes
<1> QED
  BY <1>2, <1>5, <1>6, <1>7 DEF TreeInv

(* A drop that is staged or taken back marks the table again.              *)
LEMMA StageKeeps ==
  ASSUME TreeInv, NEW d, stageSchema(d)
  PROVE  TreeInv'
<1>1. /\ NoLoad /\ refreshTree({}, panel) /\ srv' = srv
      /\ UNCHANGED <<live, database, listed, mirror, roots, sizes, sized, trigger>>
  BY DEF stageSchema
<1>2. /\ asked' \in Nat /\ Numbered(asks', asked', trigger) /\ Reading(cat', asks', asked', roots)
      /\ \A q \in Places : cat'[q].kids = cat[q].kids
  BY <1>1, NoLoadReads
<1>3. srv' \in [DBs -> SUBSET Words] /\ panel \in Panels
  BY <1>1 DEF TreeInv, TreeTypes
<1> QED
  BY <1>1, <1>2, <1>3, SameTreeKeeps

(* The commit of one asks for the listing again.                           *)
LEMMA CommitKeeps ==
  ASSUME TreeInv, NEW d, afterSchemaCommit(d)
  PROVE  TreeInv'
<1> DEFINE left == srv[d] \ {Tables[1]}
           new == {[Ask(k, d) EXCEPT !.tables = srv'[d]] : k \in {"relations", "sizes"}}
<1>1. /\ refreshTree({}, panel) /\ srv' = [srv EXCEPT ![d] = left]
      /\ UNCHANGED <<live, database, listed, mirror, roots, sizes, sized, trigger>>
      /\ \/ /\ InTree(d) /\ asked' = asked + 1 /\ asks' = asks \cup new
            /\ cat' = startLoading(d, unload(d, "Tables", cat))
         \/ NoLoad
  BY DEF afterSchemaCommit
<1>2. /\ TreeTypes /\ asked \in Nat /\ Numbered(asks, asked, trigger) /\ Reading(cat, asks, asked, roots)
      /\ srv \in [DBs -> SUBSET Words] /\ panel \in Panels
  BY DEF TreeInv, TreeTypes
<1>3. srv' \in [DBs -> SUBSET Words]
  BY <1>1, <1>2
<1>4. CASE NoLoad
  <2>1. /\ asked' \in Nat /\ Numbered(asks', asked', trigger) /\ Reading(cat', asks', asked', roots)
        /\ \A q \in Places : cat'[q].kids = cat[q].kids
    BY <1>4, NoLoadReads
  <2> QED
    BY <1>1, <1>2, <1>3, <2>1, SameTreeKeeps
<1>5. CASE /\ InTree(d) /\ asked' = asked + 1 /\ asks' = asks \cup new
           /\ cat' = startLoading(d, unload(d, "Tables", cat))
  <2> DEFINE ct == unload(d, "Tables", cat)
  <2>0. /\ d \in ToSet(roots)
        /\ roots \in Seq(DBs)
    BY <1>2, <1>5 DEF InTree, TreeTypes
  <2>1. d \in ToSet(roots) /\ d \in DBs /\ "Tables" \in ToSet(Cats)
    <3>1. d \in DBs
      BY <2>0 DEF ToSet
    <3>2. "Tables" \in ToSet(Cats)
      BY WordsAre
    <3> QED
      BY <2>0, <3>1, <3>2
  <2>2. ASSUME NEW k \in {"relations", "sizes"}
        PROVE  /\ [Ask(k, d) EXCEPT !.tables = srv'[d]] \in Requests
               /\ [Ask(k, d) EXCEPT !.tables = srv'[d]].n = asked
               /\ [Ask(k, d) EXCEPT !.tables = srv'[d]].kind = k
               /\ [Ask(k, d) EXCEPT !.tables = srv'[d]].db = d
    <3> DEFINE q == Ask(k, d)
    <3>1. q \in Requests /\ q.n = asked /\ q.kind = k /\ q.db = d
      BY <1>2, <2>1, <2>2, AskIs
    <3>2. srv'[d] \in SUBSET Words
      BY <1>3, <2>1
    <3> HIDE DEF q
    <3>3. /\ [q EXCEPT !.tables = srv'[d]] \in Requests /\ [q EXCEPT !.tables = srv'[d]].n = asked
          /\ [q EXCEPT !.tables = srv'[d]].kind = k /\ [q EXCEPT !.tables = srv'[d]].db = d
      BY <3>1, <3>2 DEF Requests
    <3> QED
      BY <3>3 DEF q
  <2>3. new \subseteq Requests /\ \A b \in new : b.n = asked /\ b.kind # "ddl"
    BY <2>2
  <2>4. \E b \in new : b.db = d /\ b.kind = "relations"
    BY <2>2
  <2> HIDE DEF new
  <2>5. Numbered(asks', asked', trigger)
    BY <1>2, <1>5, <2>3, SentLater
  <2>6. asked' \in Nat /\ asked' > 0
    BY <1>2, <1>5
  <2>7. asks \subseteq asks' /\ \E b \in asks' : b.db = d /\ b.kind = "relations"
    BY <1>5, <2>4
  <2>8. Reading(ct, asks, asked, roots) /\ \A q \in Places : ct[q].kids = cat[q].kids
    BY <1>2, <2>1, UnloadReads
  <2>9. cat' = startLoading(d, ct)
    BY <1>5
  <2> HIDE DEF ct
  <2>10. /\ Reading(startLoading(d, ct), asks', asked', roots)
         /\ \A q \in Places : startLoading(d, ct)[q].kids = ct[q].kids
    BY <2>1, <2>6, <2>7, <2>8, StartLoadingReads
  <2>11. Reading(cat', asks', asked', roots) /\ \A q \in Places : cat'[q].kids = cat[q].kids
    BY <2>8, <2>9, <2>10
  <2> QED
    BY <1>1, <1>2, <1>3, <2>5, <2>6, <2>11, SameTreeKeeps
<1> QED
  BY <1>1, <1>4, <1>5

-----------------------------------------------------------------------------
(* A step.                                                                *)

(* Nothing changes.                                                        *)
LEMMA TreeStays ==
  ASSUME TreeInv, UNCHANGED treeVars
  PROVE  TreeInv'
<1>1. panel \in Panels /\ CursorOn(rows, panel)
  BY PanelIs
<1>2. panel' = panel /\ PanelOnly
  BY DEF treeVars, PanelOnly
<1> QED
  BY <1>1, <1>2, PanelKeeps

(* Any reply.                                                              *)
LEMMA ReplyKeeps ==
  ASSUME TreeInv, Reply
  PROVE  TreeInv'
<1>1. PICK a \in asks :
        \/ Dropped(a) \/ Ignored(a) \/ applyTriggerDDL(a)
        \/ \E dbs \in Lists : databasesLoaded(a, dbs)
        \/ relationsLoaded(a) \/ tableStatsLoaded(a) \/ triggersLoaded(a)
        \/ \E u \in BOOLEAN : categoryFailed(a, u)
  BY DEF Reply
<1> QED
  BY <1>1, DroppedKeeps, IgnoredKeeps, TriggerDDLKeeps, DatabasesLoadedKeeps, RelationsKeeps, TableStatsKeeps,
     TriggersKeeps, FailedKeeps

(* Any step.                                                               *)
LEMMA TreeStep ==
  ASSUME TreeInv, [TreeNext]_treeVars
  PROVE  TreeInv'
<1>1. ASSUME Enter PROVE TreeInv'
  BY <1>1, PanelIs, ActivateKeeps DEF Enter, Keys
<1>2. ASSUME NEW d \in Droppable, stageSchema(d) \/ afterSchemaCommit(d) PROVE TreeInv'
  BY <1>2, StageKeeps, CommitKeeps
<1>3. CASE UNCHANGED treeVars
  BY <1>3, TreeStays
<1>4. CASE TreeNext
  BY <1>1, <1>2, <1>4, ConnectedKeeps, DisconnectKeeps, ReplyKeeps, ExpandKeeps, CollapseKeeps, ReloadKeeps,
     WalkKeeps, StartFilterKeeps, TypeFilterKeeps, FilterEscKeeps, FilterEnterKeeps, JumpKeeps DEF TreeNext
<1> QED
  BY <1>3, <1>4

(* The tree, what it is listed as and what it waits for belong together.   *)
THEOREM TreeInvariant == TreeSpec => []TreeInv
<1>1. TreeInit => TreeInv
  BY TreeInitially
<1>2. TreeInv /\ [TreeNext]_treeVars => TreeInv'
  BY TreeStep
<1> QED
  BY <1>1, <1>2, PTL DEF TreeSpec

(* Whatever order listings, sizes and staged marks come in, the panel shows *)
(* the tree and the tree tells what is being read.                         *)
THEOREM PanelIsTree == TreeSpec => []TreeTruth
<1>1. TreeInv => TreeTruth
  <2> SUFFICES ASSUME TreeInv PROVE TreeTruth
    OBVIOUS
  <2>1. ListIsTree
    <3>1. /\ rows = flatten(roots, open, cat)
          /\ panel.cursor \in (IF items(rows, panel.filter) = <<>> THEN {0} ELSE DOMAIN items(rows, panel.filter))
          /\ mirror = IF database = NoDb THEN {} ELSE listed[database].tables
      BY DEF TreeInv, CursorOn
    <3>2. \A d \in ToSet(roots) : \A n \in Nodes(d, "Tables", cat) :
            (n \in marks <=> d \in changes) /\ (n \in sized <=> n[3] \in sizes[d])
      BY DEF TreeInv, Marked, Sized
    <3> QED
      BY <3>1, <3>2 DEF ListIsTree
  <2>2. LoadingIsAsked
    BY DEF TreeInv, Reading, AskFor, LoadingIsAsked
  <2>3. ReadTogether
    BY DEF TreeInv, Reading, Together, ReadTogether
  <2> QED
    BY <2>1, <2>2, <2>3 DEF TreeTruth
<1> QED
  BY <1>1, TreeInvariant, PTL

-----------------------------------------------------------------------------
(* The cursor.                                                             *)

(* What is sent leaves what is awaited,                                    *)
LEMMA SendAdds ==
  ASSUME NEW kinds, NEW d, Send(kinds, d)
  PROVE  asks \subseteq asks'
BY DEF Send

(* and so does what a key loads or opens.                                  *)
LEMMA LoadAdds ==
  ASSUME NEW d, NEW c, NEW ct, loadCategory(d, c, ct)
  PROVE  asks \subseteq asks'
BY SendAdds DEF loadCategory

(* Opening a node sends at most,                                           *)
LEMMA ExpandAdds ==
  ASSUME NEW n, expandNode(n)
  PROVE  asks \subseteq asks'
BY LoadAdds DEF expandNode, NoLoad

(* as does a new tree,                                                     *)
LEMMA RebuildAdds ==
  ASSUME NEW dbs, rebuildTree(dbs)
  PROVE  asks \subseteq asks'
BY LoadAdds DEF rebuildTree

(* and enter.                                                              *)
LEMMA ActivateAdds ==
  ASSUME NEW pn, activateSelection(pn)
  PROVE  asks \subseteq asks'
<1>1. ASSUME NEW n, toggleNode(n, pn) PROVE asks \subseteq asks'
  BY <1>1, ExpandAdds DEF toggleNode, NoLoad
<1>2. ASSUME NEW n, openObject(n, pn) PROVE asks \subseteq asks'
  BY <1>2 DEF openObject, NoLoad
<1>3. ASSUME NEW n, openTrigger(n, pn) PROVE asks \subseteq asks'
  BY <1>3, SendAdds DEF openTrigger
<1> QED
  BY <1>1, <1>2, <1>3 DEF activateSelection

(* Nothing but a reply takes a request back.                               *)
LEMMA OnlyRepliesAnswer ==
  ASSUME [TreeNext]_treeVars, ~Reply
  PROVE  asks \subseteq asks'
<1>1. CASE UNCHANGED treeVars
  BY <1>1 DEF treeVars
<1>2. ASSUME NEW dbs, connected(dbs) PROVE asks \subseteq asks'
  BY <1>2, RebuildAdds DEF connected
<1>3. CASE disconnectActive
  BY <1>3, RebuildAdds DEF disconnectActive
<1>4. CASE expandSelected
  BY <1>4, ExpandAdds DEF expandSelected, NoLoad
<1>5. CASE collapseSelected
  BY <1>5 DEF collapseSelected, NoLoad
<1>6. CASE reloadNode
  BY <1>6, SendAdds, LoadAdds DEF reloadNode
<1>7. CASE Enter
  BY <1>7, ActivateAdds DEF Enter
<1>8. CASE Walk \/ startFilter \/ TypeFilter \/ FilterEsc
  BY <1>8 DEF Walk, startFilter, TypeFilter, FilterEsc, PanelOnly
<1>9. CASE FilterEnter
  BY <1>9, ActivateAdds DEF FilterEnter, PanelOnly
<1>10. ASSUME NEW d, NEW name, jumpTo(d, name) PROVE asks \subseteq asks'
  BY <1>10 DEF jumpTo, NoLoad
<1>11. ASSUME NEW d, stageSchema(d) \/ afterSchemaCommit(d) PROVE asks \subseteq asks'
  BY <1>11 DEF stageSchema, afterSchemaCommit, NoLoad
<1> QED
  BY <1>1, <1>2, <1>3, <1>4, <1>5, <1>6, <1>7, <1>8, <1>9, <1>10, <1>11 DEF TreeNext

(* A refresh follows the node under the cursor unless it is a fresh one.   *)
LEMMA RefreshFollows ==
  ASSUME NEW fresh, NEW pn \in Panels, refreshTree(fresh, pn),
         selectedNode \in fresh => Replaced(selectedNode)
  PROVE  Followed
<1>1. selectedNode # Nothing /\ selectedNode \notin fresh =>
        \/ nodeAt(rows', panel', panel'.cursor) = selectedNode
        \/ \A i : nodeAt(rows', panel', i) # selectedNode
  BY RefreshShows
<1>2. selectedNode \in Listed(rows', panel') => \E i : nodeAt(rows', panel', i) = selectedNode
  BY DEF Listed, nodeAt
<1> QED
  BY <1>1, <1>2 DEF Followed

(* So does what leaves the list and its panel alone.                       *)
LEMMA StillFollows ==
  ASSUME rows' = rows, panel' = panel
  PROVE  Followed
<1>1. nodeAt(rows', panel', panel'.cursor) = selectedNode
  BY DEF selectedNode
<1> QED
  BY <1>1 DEF Followed

(* The nodes a reply makes are leaves of the category it is of.            *)
LEMMA FreshIsReplaced ==
  ASSUME NEW a \in asks, a \notin asks', NEW c, NEW ct,
         a.kind = (IF c = "Triggers" THEN "triggers" ELSE "relations"), NEW n \in Nodes(a.db, c, ct)
  PROVE  Replaced(n)
<1>1. PICK x \in ct[a.db, c].kids : n = <<a.db, c, x>>
  BY DEF Nodes
<1>2. leaf(n) /\ n[1] = a.db /\ n[2] = c
  BY <1>1 DEF leaf
<1> QED
  BY <1>2 DEF Replaced

(* A list of databases is answered as it comes: what it asks for is new.   *)
LEMMA AnsweredList ==
  ASSUME TreeInv, NEW a \in asks, NEW dbs \in Lists, databasesLoaded(a, dbs), asks' # asks, asks' \subseteq asks
  PROVE  Replaced(selectedNode)
<1> DEFINE q(k) == Ask(k, dbs[1])
<1>1. a.kind = "databases"
  BY DEF databasesLoaded
<1>2. a \notin asks'
  <2>1. CASE Single(dbs)
    <3>1. asks' = (asks \ {a}) \cup {q(k) : k \in {"relations", "sizes"}}
      BY <2>1 DEF databasesLoaded
    <3>2. q("relations").kind = "relations" /\ q("sizes").kind = "sizes"
      BY DEF Ask
    <3> HIDE DEF q
    <3> QED
      BY <1>1, <3>1, <3>2
  <2>2. CASE ~Single(dbs)
    BY <2>2 DEF databasesLoaded
  <2> QED
    BY <2>1, <2>2
<1> HIDE DEF selectedNode
<1> QED
  BY <1>1, <1>2 DEF Replaced

(* Every reply follows the cursor's node.                                  *)
LEMMA ReplyFollows ==
  ASSUME TreeInv, NEW a \in asks,
         \/ Dropped(a) \/ Ignored(a) \/ applyTriggerDDL(a)
         \/ \E dbs \in Lists : databasesLoaded(a, dbs)
         \/ relationsLoaded(a) \/ tableStatsLoaded(a) \/ triggersLoaded(a)
         \/ \E u \in BOOLEAN : categoryFailed(a, u)
  PROVE  Followed
<1>1. panel \in Panels
  BY PanelIs
<1>2. CASE Dropped(a) \/ Ignored(a) \/ applyTriggerDDL(a)
  BY <1>2, StillFollows DEF Dropped, Ignored, applyTriggerDDL
<1>3. ASSUME NEW dbs \in Lists, databasesLoaded(a, dbs) PROVE Followed
  <2>1. a.kind = "databases" /\ refreshTree({selectedNode}, clearFilter(panel))
    BY <1>3 DEF databasesLoaded
  <2>2. asks' # asks /\ asks' \subseteq asks => Replaced(selectedNode)
    BY <1>3, AnsweredList
  <2> QED
    BY <2>2 DEF Followed
<1>4. CASE relationsLoaded(a)
  <2>1. a.kind = "relations" /\ a \notin asks' /\ refreshTree(Nodes(a.db, "Tables", cat), panel)
    BY <1>4 DEF relationsLoaded, Answered
  <2>2. \A n \in Nodes(a.db, "Tables", cat) : Replaced(n)
    BY <2>1, FreshIsReplaced
  <2> QED
    BY <1>1, <2>1, <2>2, RefreshFollows
<1>5. CASE triggersLoaded(a)
  <2>1. a.kind = "triggers" /\ a \notin asks' /\ refreshTree(Nodes(a.db, "Triggers", cat), panel)
    BY <1>5 DEF triggersLoaded, Answered
  <2>2. \A n \in Nodes(a.db, "Triggers", cat) : Replaced(n)
    BY <2>1, FreshIsReplaced
  <2> QED
    BY <1>1, <2>1, <2>2, RefreshFollows
<1>6. CASE tableStatsLoaded(a)
  <2>1. refreshTree({}, panel)
    BY <1>6 DEF tableStatsLoaded
  <2> QED
    BY <1>1, <2>1, RefreshFollows
<1>7. ASSUME NEW u \in BOOLEAN, categoryFailed(a, u) PROVE Followed
  <2>1. refreshTree({}, panel)
    BY <1>7 DEF categoryFailed
  <2> QED
    BY <1>1, <2>1, RefreshFollows
<1> QED
  BY <1>2, <1>3, <1>4, <1>5, <1>6, <1>7

(* A reply moves the cursor off its node only where it replaces that node  *)
(* or takes it away.                                                       *)
THEOREM CursorStays == TreeSpec => CursorFollows
<1>1. ASSUME TreeInv, [TreeNext]_treeVars PROVE [Followed]_treeVars
  <2>1. CASE Reply
    <3>1. PICK a \in asks :
            \/ Dropped(a) \/ Ignored(a) \/ applyTriggerDDL(a)
            \/ \E dbs \in Lists : databasesLoaded(a, dbs)
            \/ relationsLoaded(a) \/ tableStatsLoaded(a) \/ triggersLoaded(a)
            \/ \E u \in BOOLEAN : categoryFailed(a, u)
      BY <2>1 DEF Reply
    <3> QED
      BY <1>1, <3>1, ReplyFollows
  <2>2. CASE ~Reply
    <3>1. asks \subseteq asks'
      BY <1>1, <2>2, OnlyRepliesAnswer
    <3> QED
      BY <3>1 DEF Followed
  <2> QED
    BY <2>1, <2>2
<1> QED
  BY <1>1, TreeInvariant, PTL DEF TreeSpec, CursorFollows

=============================================================================
