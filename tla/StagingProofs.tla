---------------------------- MODULE StagingProofs ----------------------------
(***************************************************************************)
(* What is proved of the writes to a table: of the list that keeps the     *)
(* staged changes and the statements it renders to (Changeset), of their   *)
(* life between the key that stages them and the answer to their commit    *)
(* (StagedCommit), and of an import of a CSV file (CsvImport). The modules *)
(* share no variable.                                                      *)
(***************************************************************************)
EXTENDS Changeset, StagedCommit, CsvImport, SequenceTheorems, FiniteSetTheorems, NaturalsInduction,
        WellFoundedInduction, TLAPS

-----------------------------------------------------------------------------
(* Induction over the natural numbers, for the recursive functions of the  *)
(* model.                                                                  *)

(* A set of naturals that is not empty has a least element.                *)
LEMMA LeastNumber ==
  ASSUME NEW T \in SUBSET Nat, NEW n \in T
  PROVE  \E m \in T : \A k \in T : m <= k
<1>1. IsWellFoundedOn(OpToRel(<, Nat), Nat)
  BY NatLessThanWellFounded
<1>2. PICK m \in T : \A k \in T : ~(<<k, m>> \in OpToRel(<, Nat))
  BY <1>1, WFMin
<1>3. \A k \in T : ~(k < m)
  BY <1>2 DEF OpToRel
<1> QED
  BY <1>3

(* Induction, over the set of the numbers a fact holds of.                 *)
LEMMA SetInduction ==
  ASSUME NEW S, 0 \in S, \A n \in Nat : n \in S => n + 1 \in S
  PROVE  Nat \subseteq S
<1> DEFINE T == Nat \ S
<1>1. ASSUME NEW n \in T PROVE FALSE
  <2>1. PICK m \in T : \A k \in T : m <= k
    BY <1>1, LeastNumber
  <2>2. m # 0 /\ m - 1 \in Nat /\ m - 1 \notin T
    BY <2>1
  <2> QED
    BY <2>2
<1> QED
  BY <1>1

-----------------------------------------------------------------------------
(* The slice and the index of a changeset.                                 *)

\* The changes held, in any order.
Held(cs) == {cs.ops[i] : i \in DOMAIN cs.ops}

\* The index finds every change held and nothing else.
Sound(cs, C) ==
  /\ cs.ops \in Seq(C)
  /\ DOMAIN cs.index = {key(cs.ops[i]) : i \in DOMAIN cs.ops}
  /\ \A i \in DOMAIN cs.ops : cs.index[key(cs.ops[i])] = i

(* What With builds.                                                       *)
LEMMA WithFacts ==
  ASSUME NEW f, NEW k, NEW v
  PROVE  /\ DOMAIN With(f, k, v) = DOMAIN f \cup {k}
         /\ With(f, k, v)[k] = v
         /\ \A x \in DOMAIN f : x # k => With(f, k, v)[x] = f[x]
BY DEF With

(* No two changes held have one key.                                       *)
LEMMA KeysDiffer ==
  ASSUME NEW C, NEW cs, Sound(cs, C),
         NEW i \in DOMAIN cs.ops, NEW j \in DOMAIN cs.ops, key(cs.ops[i]) = key(cs.ops[j])
  PROVE  i = j
BY DEF Sound

(* The index leads to the change of its key.                               *)
LEMMA IndexLeads ==
  ASSUME NEW C, NEW cs, Sound(cs, C), NEW k \in DOMAIN cs.index
  PROVE  /\ cs.index[k] \in DOMAIN cs.ops
         /\ key(cs.ops[cs.index[k]]) = k
         /\ cs.ops[cs.index[k]] \in Held(cs)
BY DEF Sound, Held

(* A key is in the index exactly when a change held has it.                *)
LEMMA KeysHeld ==
  ASSUME NEW C, NEW cs, Sound(cs, C), NEW k
  PROVE  k \in DOMAIN cs.index <=> \E d \in Held(cs) : key(d) = k
BY DEF Sound, Held

(* Staging replaces the change of the same key, or adds one.               *)
LEMMA StageFacts ==
  ASSUME NEW C, NEW cs, Sound(cs, C), NEW c \in C
  PROVE  /\ Sound(stage(cs, c), C)
         /\ Held(stage(cs, c)) = {d \in Held(cs) : key(d) # key(c)} \cup {c}
<1> DEFINE new == stage(cs, c)
<1>1. CASE key(c) \in DOMAIN cs.index
  <2> DEFINE at == cs.index[key(c)]
  <2>1. at \in DOMAIN cs.ops /\ key(cs.ops[at]) = key(c)
    BY <1>1, IndexLeads
  <2>2. new.ops = [cs.ops EXCEPT ![at] = c] /\ new.index = cs.index
    BY <1>1 DEF stage
  <2>3. /\ new.ops \in Seq(C)
        /\ DOMAIN new.ops = DOMAIN cs.ops
        /\ new.ops[at] = c
        /\ \A j \in DOMAIN cs.ops : j # at => new.ops[j] = cs.ops[j]
    BY <2>1, <2>2, ExceptSeq DEF Sound
  <2> HIDE DEF new, at
  <2>4. \A j \in DOMAIN cs.ops : key(new.ops[j]) = key(cs.ops[j])
    BY <2>1, <2>3
  <2>5. Sound(new, C)
    BY <2>2, <2>3, <2>4 DEF Sound
  <2>6. \A j \in DOMAIN cs.ops : j # at <=> key(cs.ops[j]) # key(c)
    BY <2>1, KeysDiffer
  <2>7. Held(new) = {d \in Held(cs) : key(d) # key(c)} \cup {c}
    BY <2>1, <2>3, <2>6 DEF Held
  <2> QED
    BY <2>5, <2>7 DEF new
<1>2. CASE key(c) \notin DOMAIN cs.index
  <2>1. new.ops = Append(cs.ops, c) /\ new.index = With(cs.index, key(c), Len(cs.ops) + 1)
    BY <1>2 DEF stage
  <2>2. /\ new.ops \in Seq(C)
        /\ DOMAIN cs.ops = 1..Len(cs.ops)
        /\ DOMAIN new.ops = 1..(Len(cs.ops) + 1)
        /\ new.ops[Len(cs.ops) + 1] = c
        /\ \A j \in DOMAIN cs.ops : new.ops[j] = cs.ops[j]
        /\ Len(cs.ops) \in Nat
    BY <2>1 DEF Sound
  <2> HIDE DEF new
  <2>3. /\ DOMAIN new.index = DOMAIN cs.index \cup {key(c)}
        /\ new.index[key(c)] = Len(cs.ops) + 1
        /\ \A k \in DOMAIN cs.index : k # key(c) => new.index[k] = cs.index[k]
    BY <2>1 DEF With
  <2>4. DOMAIN new.ops = DOMAIN cs.ops \cup {Len(cs.ops) + 1}
    BY <2>2
  <2>5. \A j \in DOMAIN cs.ops : key(cs.ops[j]) \in DOMAIN cs.index /\ key(cs.ops[j]) # key(c)
    BY <1>2 DEF Sound
  <2>6. Sound(new, C)
    <3>1. DOMAIN new.index = {key(new.ops[j]) : j \in DOMAIN new.ops}
      <4>1. {key(new.ops[j]) : j \in DOMAIN new.ops} =
              {key(cs.ops[j]) : j \in DOMAIN cs.ops} \cup {key(c)}
        <5>1. \A j \in DOMAIN cs.ops : key(new.ops[j]) = key(cs.ops[j])
          BY <2>2
        <5>2. key(new.ops[Len(cs.ops) + 1]) = key(c)
          BY <2>2
        <5> QED
          BY <5>1, <5>2, <2>4, Zenon
      <4> QED
        BY <4>1, <2>3 DEF Sound
    <3>2. ASSUME NEW j \in DOMAIN new.ops PROVE new.index[key(new.ops[j])] = j
      <4>1. CASE j \in DOMAIN cs.ops
        BY <4>1, <2>2, <2>3, <2>5 DEF Sound
      <4>2. CASE j = Len(cs.ops) + 1
        BY <4>2, <2>2, <2>3
      <4> QED
        BY <4>1, <4>2, <2>4
    <3> QED
      BY <2>2, <3>1, <3>2 DEF Sound
  <2>7. Held(new) = {d \in Held(cs) : key(d) # key(c)} \cup {c}
    BY <2>2, <2>4, <2>5 DEF Held
  <2> QED
    BY <2>6, <2>7 DEF new
<1> QED
  BY <1>1, <1>2

(* Removing drops one change, and the index finds those behind it.         *)
LEMMA RemoveAtFacts ==
  ASSUME NEW C, NEW cs, Sound(cs, C), NEW i \in DOMAIN cs.ops
  PROVE  /\ Sound(removeAt(cs, i), C)
         /\ Len(removeAt(cs, i).ops) = Len(cs.ops) - 1
         /\ \A j \in 1..(i - 1) : removeAt(cs, i).ops[j] = cs.ops[j]
         /\ \A j \in i..(Len(cs.ops) - 1) : removeAt(cs, i).ops[j] = cs.ops[j + 1]
         /\ Held(removeAt(cs, i)) = {d \in Held(cs) : key(d) # key(cs.ops[i])}
<1> DEFINE new == removeAt(cs, i)
           rest == RemoveAt(cs.ops, i)
           its == key(cs.ops[i])
           moved == {key(rest[j]) : j \in i..Len(rest)}
<1>0. /\ cs.ops \in Seq(C) /\ Len(cs.ops) \in Nat /\ DOMAIN cs.ops = 1..Len(cs.ops)
      /\ i \in 1..Len(cs.ops)
  BY DEF Sound
<1>1. /\ rest \in Seq(C)
      /\ Len(rest) = Len(cs.ops) - 1
      /\ DOMAIN rest = 1..(Len(cs.ops) - 1)
      /\ \A j \in 1..(i - 1) : rest[j] = cs.ops[j]
      /\ \A j \in i..(Len(cs.ops) - 1) : rest[j] = cs.ops[j + 1]
  <2> DEFINE front == SubSeq(cs.ops, 1, i - 1)
             back == SubSeq(cs.ops, i + 1, Len(cs.ops))
  <2>1. /\ front \in Seq(C) /\ Len(front) = i - 1
        /\ \A j \in 1..(i - 1) : front[j] = cs.ops[j]
    BY <1>0, SubSeqProperties
  <2>2. /\ back \in Seq(C) /\ Len(back) = Len(cs.ops) - i
        /\ \A j \in 1..(Len(cs.ops) - i) : back[j] = cs.ops[i + j]
    BY <1>0, SubSeqProperties
  <2>3. rest = front \o back
    BY DEF RemoveAt
  <2> HIDE DEF rest, front, back
  <2>35. /\ rest \in Seq(C)
         /\ Len(rest) = Len(front) + Len(back)
         /\ \A j \in 1..Len(front) + Len(back) :
              rest[j] = IF j <= Len(front) THEN front[j] ELSE back[j - Len(front)]
    <3>1. front \in Seq(C) /\ back \in Seq(C)
      BY <2>1, <2>2
    <3> QED
      BY <3>1, <2>3, ConcatProperties, Zenon
  <2>4. /\ rest \in Seq(C)
        /\ Len(rest) = Len(cs.ops) - 1
        /\ DOMAIN rest = 1..(Len(cs.ops) - 1)
        /\ \A j \in 1..(i - 1) : rest[j] = front[j]
    BY <2>1, <2>2, <2>35, <1>0
  <2>5. ASSUME NEW j \in i..(Len(cs.ops) - 1) PROVE rest[j] = cs.ops[j + 1]
    <3>1. j \in Len(front) + 1..Len(front) + Len(back) /\ j - (i - 1) \in 1..(Len(cs.ops) - i)
      BY <2>1, <2>2, <1>0
    <3>2. rest[j] = back[j - (i - 1)]
      <4>1. j \in 1..Len(front) + Len(back) /\ ~(j <= Len(front))
        BY <2>1, <2>2, <1>0
      <4>2. rest[j] = back[j - Len(front)]
        BY <4>1, <2>35
      <4> QED
        BY <4>2, <2>1
    <3>3. back[j - (i - 1)] = cs.ops[i + (j - (i - 1))]
      BY <3>1, <2>2
    <3> QED
      BY <3>2, <3>3, <1>0
  <2> QED
    BY <2>1, <2>4, <2>5
<1>2. /\ new.ops = rest
      /\ new.index = [k \in DOMAIN cs.index \ {its} |->
                        IF k \in moved THEN CHOOSE j \in i..Len(rest) : key(rest[j]) = k
                                       ELSE cs.index[k]]
  BY DEF removeAt
<1> HIDE DEF new, rest
<1>3. \A j \in DOMAIN cs.ops : j # i <=> key(cs.ops[j]) # its
  BY KeysDiffer
<1>4. \A j, l \in DOMAIN rest : key(rest[j]) = key(rest[l]) => j = l
  <2> SUFFICES ASSUME NEW j \in DOMAIN rest, NEW l \in DOMAIN rest, key(rest[j]) = key(rest[l])
               PROVE  j = l
    OBVIOUS
  <2> DEFINE was(x) == IF x < i THEN x ELSE x + 1
  <2>1. /\ was(j) \in DOMAIN cs.ops /\ rest[j] = cs.ops[was(j)]
        /\ was(l) \in DOMAIN cs.ops /\ rest[l] = cs.ops[was(l)]
    <3>1. ASSUME NEW x \in DOMAIN rest PROVE was(x) \in DOMAIN cs.ops /\ rest[x] = cs.ops[was(x)]
      <4>1. CASE x < i
        BY <4>1, <1>0, <1>1
      <4>2. CASE x >= i
        BY <4>2, <1>0, <1>1
      <4> QED
        BY <4>1, <4>2, <1>0, <1>1
    <3> QED
      BY <3>1
  <2>2. was(j) = was(l)
    BY <2>1, KeysDiffer
  <2> QED
    BY <2>2, <1>0, <1>1
<1>5. Held(new) = {d \in Held(cs) : key(d) # its}
  <2>1. ASSUME NEW d \in Held(new) PROVE d \in Held(cs) /\ key(d) # its
    <3>1. PICK j \in DOMAIN rest : d = rest[j]
      BY <1>2 DEF Held
    <3>2. PICK l \in DOMAIN cs.ops : l # i /\ d = cs.ops[l]
      <4>1. CASE j < i
        BY <4>1, <3>1, <1>0, <1>1
      <4>2. CASE j >= i
        <5>1. j + 1 \in DOMAIN cs.ops /\ j + 1 # i /\ d = cs.ops[j + 1]
          BY <4>2, <3>1, <1>0, <1>1
        <5> QED
          BY <5>1
      <4> QED
        BY <4>1, <4>2, <1>0, <1>1
    <3> QED
      BY <3>2, <1>3 DEF Held
  <2>2. ASSUME NEW d \in Held(cs), key(d) # its PROVE d \in Held(new)
    <3>1. PICK l \in DOMAIN cs.ops : d = cs.ops[l]
      BY DEF Held
    <3>2. l # i
      BY <3>1, <2>2
    <3>3. PICK j \in DOMAIN rest : d = rest[j]
      <4>1. CASE l < i
        <5>1. l \in DOMAIN rest /\ rest[l] = d
          BY <4>1, <3>1, <1>0, <1>1
        <5> QED
          BY <5>1
      <4>2. CASE l > i
        <5>1. l - 1 \in DOMAIN rest /\ rest[l - 1] = d
          BY <4>2, <3>1, <1>0, <1>1
        <5> QED
          BY <5>1
      <4> QED
        BY <4>1, <4>2, <3>2, <1>0
    <3> QED
      BY <3>3, <1>2 DEF Held
  <2> QED
    BY <2>1, <2>2
<1>6. DOMAIN new.index = {key(new.ops[j]) : j \in DOMAIN new.ops}
  <2>1. DOMAIN new.index = DOMAIN cs.index \ {its}
    BY <1>2
  <2>2. DOMAIN cs.index = {key(d) : d \in Held(cs)}
    BY DEF Sound, Held
  <2>3. {key(new.ops[j]) : j \in DOMAIN new.ops} = {key(d) : d \in Held(new)}
    BY DEF Held
  <2> QED
    BY <2>1, <2>2, <2>3, <1>5
<1>7. ASSUME NEW j \in DOMAIN rest PROVE new.index[key(rest[j])] = j
  <2> DEFINE k == key(rest[j])
  <2>1. k \in DOMAIN cs.index \ {its}
    BY <1>2, <1>6
  <2>2. CASE j >= i
    <3>1. j \in i..Len(rest) /\ k \in moved
      BY <2>2, <1>0, <1>1
    <3>2. \A l \in i..Len(rest) : key(rest[l]) = k => l = j
      BY <1>0, <1>1, <1>4
    <3>3. (CHOOSE l \in i..Len(rest) : key(rest[l]) = k) = j
      BY <3>1, <3>2
    <3>4. new.index[k] = CHOOSE l \in i..Len(rest) : key(rest[l]) = k
      BY <2>1, <3>1, <1>2
    <3> QED
      BY <3>3, <3>4
  <2>3. CASE j < i
    <3>1. k \notin moved
      <4> SUFFICES ASSUME NEW l \in i..Len(rest), key(rest[l]) = key(rest[j])
                   PROVE  FALSE
        OBVIOUS
      <4>1. l \in DOMAIN rest
        BY <1>0, <1>1
      <4>2. l = j
        BY <4>1, <1>4
      <4> QED
        BY <4>2, <2>3, <1>0
    <3>2. j \in 1..(i - 1) /\ j \in DOMAIN cs.ops /\ rest[j] = cs.ops[j]
      BY <2>3, <1>0, <1>1
    <3>3. cs.index[k] = j
      BY <3>2 DEF Sound
    <3> QED
      BY <2>1, <3>1, <3>3, <1>2
  <2> QED
    BY <2>2, <2>3, <1>0, <1>1
<1>8. Sound(new, C)
  BY <1>1, <1>2, <1>6, <1>7 DEF Sound
<1> QED
  BY <1>1, <1>2, <1>5, <1>8 DEF new

(* Removing by key drops the change of the key, if there is one.           *)
LEMMA RemoveKeyFacts ==
  ASSUME NEW C, NEW cs, Sound(cs, C), NEW k
  PROVE  /\ Sound(removeKey(cs, k), C)
         /\ Held(removeKey(cs, k)) = {d \in Held(cs) : key(d) # k}
<1>1. CASE k \in DOMAIN cs.index
  BY <1>1, IndexLeads, RemoveAtFacts DEF removeKey
<1>2. CASE k \notin DOMAIN cs.index
  <2>1. \A d \in Held(cs) : key(d) # k
    BY <1>2, KeysHeld
  <2> QED
    BY <1>2, <2>1 DEF removeKey
<1> QED
  BY <1>1, <1>2

-----------------------------------------------------------------------------
(* The walk that drops the edits of a row.                                 *)

(* The walk is a function, defined by what it is at 0 and at each step.    *)
LEMMA DropEditsFacts ==
  ASSUME NEW cs, NEW pk, Len(cs.ops) \in Nat
  PROVE  /\ dropEdits(cs, pk)[0] = cs
         /\ \A n \in 1..Len(cs.ops) :
              dropEdits(cs, pk)[n] =
                dropIfEdit(dropEdits(cs, pk)[n - 1], Len(cs.ops) - n + 1, pk)
<1> DEFINE Step(f, n) == IF n = 0 THEN cs ELSE dropIfEdit(f[n - 1], Len(cs.ops) - n + 1, pk)
           S == {k \in Nat : \E f : f = [n \in 0..k |-> Step(f, n)]}
<1>1. 0 \in S
  <2> DEFINE f == [n \in 0..0 |-> cs]
  <2>1. \A n \in 0..0 : Step(f, n) = cs
    OBVIOUS
  <2>2. f = [n \in 0..0 |-> Step(f, n)]
    BY <2>1
  <2> QED
    BY <2>2
<1>2. ASSUME NEW k \in Nat, k \in S PROVE k + 1 \in S
  <2>1. PICK f : f = [n \in 0..k |-> Step(f, n)]
    BY <1>2
  <2> DEFINE g == [n \in 0..(k + 1) |->
                     IF n <= k THEN f[n] ELSE dropIfEdit(f[k], Len(cs.ops) - (k + 1) + 1, pk)]
  <2>2. ASSUME NEW n \in 0..(k + 1) PROVE g[n] = Step(g, n)
    <3>1. CASE n = 0
      BY <3>1, <2>1
    <3>2. CASE n \in 1..k
      <4>1. g[n] = f[n] /\ g[n - 1] = f[n - 1] /\ n # 0 /\ n \in 0..k
        BY <3>2
      <4>2. f[n] = Step(f, n)
        BY <4>1, <2>1
      <4> QED
        BY <4>1, <4>2
    <3>3. CASE n = k + 1
      <4>1. g[n - 1] = f[k] /\ n # 0 /\ ~(n <= k)
        BY <3>3
      <4> QED
        BY <4>1, <3>3
    <3> QED
      BY <3>1, <3>2, <3>3
  <2> HIDE DEF Step
  <2>3. g = [n \in 0..(k + 1) |-> Step(g, n)]
    BY <2>2
  <2> HIDE DEF g
  <2>4. \E h : h = [n \in 0..(k + 1) |-> Step(h, n)]
    BY <2>3
  <2> QED
    BY <2>4
<1>3. Nat \subseteq S
  <2> HIDE DEF S
  <2> QED
    BY <1>1, <1>2, SetInduction
<1> DEFINE N == Len(cs.ops)
           w == dropEdits(cs, pk)
<1>4. \E f : f = [n \in 0..N |-> Step(f, n)]
  BY <1>3
<1>5. w = CHOOSE f : f = [n \in 0..N |-> Step(f, n)]
  BY DEF dropEdits
<1>6. w = [n \in 0..N |-> Step(w, n)]
  <2> HIDE DEF Step, w, N
  <2> QED
    BY <1>4, <1>5
<1> HIDE DEF w
<1>7. \A n \in 0..N : w[n] = Step(w, n)
  <2> HIDE DEF Step
  <2> QED
    BY <1>6
<1>8. w[0] = cs
  BY <1>7
<1>9. \A n \in 1..N : w[n] = dropIfEdit(w[n - 1], N - n + 1, pk)
  BY <1>7
<1> QED
  BY <1>8, <1>9 DEF w

(* Dropping the edits of a row keeps every other change.                   *)
LEMMA DropEditsSound ==
  ASSUME NEW C, NEW cs, Sound(cs, C), NEW pk
  PROVE  LET all == dropEdits(cs, pk)[Len(cs.ops)]
         IN /\ Sound(all, C)
            /\ Held(all) = {d \in Held(cs) : ~CellsOf(d, pk)}
<1> DEFINE N == Len(cs.ops)
           w == dropEdits(cs, pk)
           Others(x) == {d \in Held(x) : ~CellsOf(d, pk)}
           Walked(x, left) ==
             /\ Sound(x, C)
             /\ Len(x.ops) >= left
             /\ \A j \in 1..left : x.ops[j] = cs.ops[j]
             /\ \A j \in DOMAIN x.ops : j > left => ~CellsOf(x.ops[j], pk)
             /\ Others(x) = Others(cs)
           S == {n \in Nat : n <= N => Walked(w[n], N - n)}
<1>0. N \in Nat /\ DOMAIN cs.ops = 1..N
  BY DEF Sound
<1>1. /\ w[0] = cs
      /\ \A n \in 1..N : w[n] = dropIfEdit(w[n - 1], N - n + 1, pk)
  BY <1>0, DropEditsFacts, Zenon
<1> HIDE DEF w
<1>2. 0 \in S
  BY <1>0, <1>1
<1>3. ASSUME NEW n \in Nat, n \in S PROVE n + 1 \in S
  <2> SUFFICES ASSUME n + 1 <= N PROVE Walked(w[n + 1], N - (n + 1))
    OBVIOUS
  <2> DEFINE x == w[n]
             i == N - n
  <2>1. Walked(x, i) /\ i \in 1..N /\ i - 1 = N - (n + 1)
    BY <1>0, <1>3
  <2>2. w[n + 1] = dropIfEdit(x, i, pk)
    <3>1. n + 1 \in 1..N /\ (n + 1) - 1 = n /\ N - (n + 1) + 1 = i
      BY <1>0
    <3> QED
      BY <3>1, <1>1
  <2> HIDE DEF x, i, N
  <2>3. /\ Len(x.ops) \in Nat
        /\ DOMAIN x.ops = 1..Len(x.ops)
        /\ i \in DOMAIN x.ops
        /\ x.ops[i] = cs.ops[i]
    BY <2>1, <1>0 DEF Sound
  <2>4. CASE CellsOf(x.ops[i], pk)
    <3> DEFINE y == removeAt(x, i)
    <3>1. /\ Sound(y, C)
          /\ Len(y.ops) = Len(x.ops) - 1
          /\ \A j \in 1..(i - 1) : y.ops[j] = x.ops[j]
          /\ \A j \in i..(Len(x.ops) - 1) : y.ops[j] = x.ops[j + 1]
          /\ Held(y) = {d \in Held(x) : key(d) # key(x.ops[i])}
      BY <2>1, <2>3, RemoveAtFacts
    <3> HIDE DEF y
    <3>2. DOMAIN y.ops = 1..Len(y.ops)
      BY <3>1 DEF Sound
    <3>3. ASSUME NEW j \in DOMAIN y.ops, j > i - 1 PROVE ~CellsOf(y.ops[j], pk)
      <4>1. j \in i..(Len(x.ops) - 1) /\ j + 1 \in DOMAIN x.ops /\ j + 1 > i
        BY <3>1, <3>2, <3>3, <2>1, <2>3, <1>0
      <4> QED
        BY <4>1, <3>1, <2>1
    <3>4. Others(y) = Others(x)
      <4>1. \A d \in Held(x) : ~CellsOf(d, pk) => key(d) # key(x.ops[i])
        <5> SUFFICES ASSUME NEW d \in Held(x), ~CellsOf(d, pk), key(d) = key(x.ops[i])
                     PROVE  FALSE
          OBVIOUS
        <5>1. PICK j \in DOMAIN x.ops : d = x.ops[j]
          BY DEF Held
        <5>2. j = i
          BY <5>1, <2>1, <2>3, KeysDiffer
        <5> QED
          BY <5>1, <5>2, <2>4
      <4> QED
        BY <4>1, <3>1
    <3>5. Walked(y, i - 1)
      <4>1. Len(y.ops) >= i - 1
        BY <3>1, <2>1, <2>3, <1>0
      <4>2. \A j \in 1..(i - 1) : y.ops[j] = cs.ops[j]
        BY <3>1, <2>1, <1>0
      <4> QED
        BY <4>1, <4>2, <3>1, <3>3, <3>4, <2>1
    <3> QED
      BY <3>5, <2>1, <2>2, <2>4 DEF dropIfEdit, y
  <2>5. CASE ~CellsOf(x.ops[i], pk)
    <3>1. w[n + 1] = x
      BY <2>2, <2>5 DEF dropIfEdit
    <3>2. Walked(x, i - 1)
      <4>1. \A j \in DOMAIN x.ops : j > i - 1 => j > i \/ j = i
        BY <2>1, <2>3, <1>0
      <4>2. \A j \in 1..(i - 1) : j \in 1..i
        BY <2>1, <1>0
      <4>3. Len(x.ops) >= i - 1
        BY <2>1, <2>3, <1>0
      <4> QED
        BY <4>1, <4>2, <4>3, <2>1, <2>5
    <3> QED
      BY <3>1, <3>2, <2>1
  <2> QED
    BY <2>4, <2>5
<1>4. N \in S
  <2> HIDE DEF S
  <2> QED
    BY <1>0, <1>2, <1>3, SetInduction
<1>5. Walked(w[N], 0)
  BY <1>0, <1>4
<1>6. Held(w[N]) = Others(w[N])
  <2>1. \A j \in DOMAIN w[N].ops : j > 0
    BY <1>5 DEF Sound
  <2> QED
    BY <2>1, <1>5 DEF Held
<1> QED
  BY <1>5, <1>6 DEF w

(* Staging a delete drops the edits of its row and adds the delete.        *)
LEMMA StageDeleteFacts ==
  ASSUME NEW C, NEW cs, Sound(cs, C), NEW pk, RowDelete(pk) \in C
  PROVE  /\ Sound(StageDelete(cs, pk), C)
         /\ DeleteStaged(cs, pk) => StageDelete(cs, pk) = cs
         /\ ~DeleteStaged(cs, pk) =>
              Held(StageDelete(cs, pk)) =
                {d \in Held(cs) : ~CellsOf(d, pk)} \cup {RowDelete(pk)}
<1>1. CASE DeleteStaged(cs, pk)
  BY <1>1 DEF StageDelete, DeleteStaged
<1>2. CASE ~DeleteStaged(cs, pk)
  <2> DEFINE all == dropEdits(cs, pk)[Len(cs.ops)]
  <2>1. Sound(all, C) /\ Held(all) = {d \in Held(cs) : ~CellsOf(d, pk)}
    BY DropEditsSound
  <2>2. StageDelete(cs, pk) = stage(all, RowDelete(pk))
    BY <1>2 DEF StageDelete, DeleteStaged
  <2> HIDE DEF all
  <2>3. key(RowDelete(pk)) = <<"del", pk>>
    BY DEF key, RowDelete
  <2>4. \A d \in Held(all) : key(d) # <<"del", pk>>
    BY <1>2, <2>1, KeysHeld DEF DeleteStaged
  <2>5. /\ Sound(stage(all, RowDelete(pk)), C)
        /\ Held(stage(all, RowDelete(pk))) =
             {d \in Held(all) : key(d) # key(RowDelete(pk))} \cup {RowDelete(pk)}
    BY <2>1, StageFacts
  <2> QED
    BY <1>2, <2>1, <2>2, <2>3, <2>4, <2>5
<1> QED
  BY <1>1, <1>2
-----------------------------------------------------------------------------
(* What the changes are.                                                   *)

(* The kinds of changes, and the shape of each.                            *)
LEMMA ChangeKinds ==
  ASSUME NEW n, NEW d \in AllChanges(n)
  PROVE  \/ /\ d.kind = "cell" /\ d.pk \in Keys /\ d.col \in Columns
            /\ d = CellChange(d.pk, d.col, d.old, d.new)
         \/ d.kind = "del" /\ d.pk \in Keys /\ d = RowDelete(d.pk)
         \/ /\ d.kind = "ins" /\ d.id \in 1..n
            /\ d.row \in [id : Keys, v : Vals] /\ d = RowInsert(d.id, d.row)
         \/ d.kind = "schema" /\ d.change \in Schemas /\ d = SchemaChange(d.change)
<1>1. CASE d \in {CellChange(pk, "id", old, new) : pk, old, new \in Keys}
  BY <1>1 DEF CellChange, Columns
<1>2. CASE d \in {CellChange(pk, "v", old, new) : pk \in Keys, old, new \in Vals}
  BY <1>2 DEF CellChange, Columns
<1>3. CASE d \in {RowDelete(pk) : pk \in Keys}
  BY <1>3 DEF RowDelete
<1>4. CASE d \in {RowInsert(id, [id |-> k, v |-> v]) : id \in 1..n, k \in Keys, v \in Vals}
  BY <1>4 DEF RowInsert
<1>5. CASE d \in {SchemaChange(c) : c \in Schemas}
  BY <1>5 DEF SchemaChange
<1> QED
  BY <1>1, <1>2, <1>3, <1>4, <1>5 DEF AllChanges

(* A key says what it is the key of.                                       *)
LEMMA KeyTells ==
  ASSUME NEW n, NEW d \in AllChanges(n)
  PROVE  /\ \A pk, col : key(d) = <<"cell", pk, col>> <=>
                            d.kind = "cell" /\ d.pk = pk /\ d.col = col
         /\ \A pk : key(d) = <<"del", pk>> <=> d = RowDelete(pk)
         /\ \A pk : d = RowDelete(pk) <=> d.kind = "del" /\ d.pk = pk
<1>1. CASE d.kind = "cell"
  <2>1. key(d) = <<"cell", d.pk, d.col>>
    BY <1>1 DEF key
  <2> QED
    BY <1>1, <2>1 DEF RowDelete
<1>2. CASE d.kind = "del" /\ d = RowDelete(d.pk)
  <2>1. key(d) = <<"del", d.pk>>
    BY <1>2 DEF key
  <2> QED
    BY <1>2, <2>1 DEF RowDelete
<1>3. CASE d.kind = "ins"
  <2>1. key(d) = <<"ins", d.id>>
    BY <1>3 DEF key
  <2> QED
    BY <1>3, <2>1 DEF RowDelete
<1>4. CASE d.kind = "schema"
  <2>1. key(d) = <<"schema", d.change>>
    BY <1>4 DEF key
  <2> QED
    BY <1>4, <2>1 DEF RowDelete
<1> QED
  BY <1>1, <1>2, <1>3, <1>4, ChangeKinds

(* A row is staged for deletion when its delete is held.                   *)
LEMMA DeleteHeld ==
  ASSUME NEW n, NEW cs, Sound(cs, AllChanges(n)), NEW pk
  PROVE  DeleteStaged(cs, pk) <=> RowDelete(pk) \in Held(cs)
<1>1. Held(cs) \subseteq AllChanges(n)
  BY ElementOfSeq DEF Sound, Held
<1>2. DeleteStaged(cs, pk) <=> \E d \in Held(cs) : key(d) = <<"del", pk>>
  BY KeysHeld DEF DeleteStaged
<1> QED
  BY <1>1, <1>2, KeyTells

-----------------------------------------------------------------------------
(* The edits.                                                              *)

\* The rows hold values.
RowsOK(rows) ==
  /\ DOMAIN rows \subseteq Keys
  /\ IsFiniteSet(DOMAIN rows)
  /\ \A k \in DOMAIN rows : rows[k] \in Vals
TableOK == RowsOK(table)

\* An edit has something to do to a row of the table that stays.
EditStands(d, cs) ==
  /\ d.pk \in DOMAIN table
  /\ RowDelete(d.pk) \notin Held(cs)
  /\ d.new # d.old
  /\ d.old = Value(d.pk, d.col)

\* What is staged is staged on the rows of the table.
Standing(cs) ==
  /\ \A d \in Held(cs) : d.kind = "cell" => EditStands(d, cs)
  /\ \A pk : RowDelete(pk) \in Held(cs) => pk \in DOMAIN table

(* A change of one kind is not of another.                                 *)
LEMMA KindsDiffer ==
  /\ \A pk : RowDelete(pk).kind = "del" /\ RowDelete(pk).pk = pk
  /\ \A pk, col, old, new :
       /\ CellChange(pk, col, old, new).kind = "cell"
       /\ CellChange(pk, col, old, new).pk = pk
       /\ CellChange(pk, col, old, new).col = col
       /\ CellChange(pk, col, old, new).old = old
       /\ CellChange(pk, col, old, new).new = new
BY DEF RowDelete, CellChange

(* Dropping changes leaves the rest standing.                              *)
LEMMA FewerStand ==
  ASSUME NEW cs, Standing(cs), NEW new, Held(new) \subseteq Held(cs)
  PROVE  Standing(new)
BY DEF Standing, EditStands

(* One confirmed edit leaves a changeset that stands, and every delete     *)
(* where it was.                                                           *)
LEMMA EditFacts ==
  ASSUME TableOK, NEW n, NEW cs, Sound(cs, AllChanges(n)), Standing(cs),
         NEW pk \in DOMAIN table, RowDelete(pk) \notin Held(cs),
         NEW col \in Columns, NEW new \in ValuesOf(col)
  PROVE  LET after == stageChange(cs, EditOf(cs, pk, col, new))
         IN /\ Sound(after, AllChanges(n))
            /\ Standing(after)
            /\ \A p : RowDelete(p) \in Held(after) => RowDelete(p) \in Held(cs)
<1> DEFINE c == CellChange(pk, col, Value(pk, col), new)
           k == <<"cell", pk, col>>
<1>1. Held(cs) \subseteq AllChanges(n)
  BY ElementOfSeq DEF Sound, Held
<1>2. k \in DOMAIN cs.index => Lookup(cs, pk, col).old = Value(pk, col)
  <2> SUFFICES ASSUME k \in DOMAIN cs.index PROVE Lookup(cs, pk, col).old = Value(pk, col)
    OBVIOUS
  <2> DEFINE d == Lookup(cs, pk, col)
  <2>1. d \in Held(cs) /\ key(d) = k
    BY IndexLeads DEF Lookup
  <2> HIDE DEF d
  <2>2. d.kind = "cell" /\ d.pk = pk /\ d.col = col
    BY <2>1, <1>1, KeyTells
  <2>3. d.old = Value(pk, col)
    BY <2>1, <2>2 DEF Standing, EditStands
  <2> QED
    BY <2>3 DEF d
<1>3. EditOf(cs, pk, col, new) = c
  BY <1>2 DEF EditOf
<1>4. c \in AllChanges(n)
  <2>1. CASE col = "id"
    BY <2>1 DEF AllChanges, TableOK, RowsOK, Value, ValuesOf
  <2>2. CASE col = "v"
    BY <2>2 DEF AllChanges, TableOK, RowsOK, Value, ValuesOf
  <2> QED
    BY <2>1, <2>2 DEF Columns
<1>5. key(c) = k /\ c.kind = "cell" /\ c.new = new /\ c.old = Value(pk, col) /\ c.pk = pk /\ c.col = col
  BY DEF key, CellChange
<1>6. CASE new = Value(pk, col)
  <2>1. stageChange(cs, c) = removeKey(cs, k)
    BY <1>5, <1>6 DEF stageChange
  <2>2. /\ Sound(removeKey(cs, k), AllChanges(n))
        /\ Held(removeKey(cs, k)) = {d \in Held(cs) : key(d) # k}
    BY RemoveKeyFacts
  <2>3. Standing(removeKey(cs, k))
    BY <2>2, FewerStand
  <2> QED
    BY <1>3, <2>1, <2>2, <2>3
<1>7. CASE new # Value(pk, col)
  <2>1. Stage(cs, c) = stage(cs, c)
    <3>1. CASE k \in DOMAIN cs.index
      <4>1. [c EXCEPT !.old = cs.ops[cs.index[k]].old] = c
        BY <1>2, <3>1 DEF Lookup, CellChange
      <4> QED
        BY <4>1, <1>5, <3>1 DEF Stage
    <3>2. CASE k \notin DOMAIN cs.index
      BY <1>5, <3>2 DEF Stage
    <3> QED
      BY <3>1, <3>2
  <2>2. stageChange(cs, c) = stage(cs, c)
    BY <1>5, <1>7, <2>1 DEF stageChange
  <2> DEFINE after == stage(cs, c)
  <2>3. Sound(after, AllChanges(n)) /\ Held(after) = {d \in Held(cs) : key(d) # key(c)} \cup {c}
    BY <1>4, StageFacts
  <2> HIDE DEF after, c
  <2>4. \A p : RowDelete(p) \in Held(after) => RowDelete(p) \in Held(cs)
    BY <2>3, <1>5, KindsDiffer
  <2>5. Standing(after)
    <3>1. ASSUME NEW d \in Held(after), d.kind = "cell" PROVE EditStands(d, after)
      <4>1. CASE d = c
        BY <4>1, <1>5, <1>7, <2>4 DEF EditStands
      <4>2. CASE d \in Held(cs)
        BY <4>2, <2>4, <3>1 DEF EditStands, Standing
      <4> QED
        BY <4>1, <4>2, <2>3
    <3> QED
      BY <3>1, <2>4 DEF Standing
  <2> QED
    BY <1>3, <2>2, <2>3, <2>4, <2>5 DEF after
<1> QED
  BY <1>6, <1>7

(* The changesets of a bulk edit are a function of how many rows are done. *)
LEMMA StageValueFacts ==
  ASSUME NEW pks, NEW col, NEW new, Len(pks) \in Nat
  PROVE  /\ stageValue(pks, col, new)[0] = Set
         /\ \A n \in 1..Len(pks) :
              LET before == stageValue(pks, col, new)[n - 1]
              IN stageValue(pks, col, new)[n] =
                   stageChange(before, EditOf(before, pks[n], col, new))
<1> DEFINE Do(x, n) == stageChange(x, EditOf(x, pks[n], col, new))
           Step(f, n) == IF n = 0 THEN Set ELSE Do(f[n - 1], n)
           S == {k \in Nat : \E f : f = [n \in 0..k |-> Step(f, n)]}
<1>1. 0 \in S
  <2> DEFINE f == [n \in 0..0 |-> Set]
  <2>1. \A n \in 0..0 : Step(f, n) = Set
    OBVIOUS
  <2>2. f = [n \in 0..0 |-> Step(f, n)]
    BY <2>1
  <2> QED
    BY <2>2
<1>2. ASSUME NEW k \in Nat, k \in S PROVE k + 1 \in S
  <2>1. PICK f : f = [n \in 0..k |-> Step(f, n)]
    BY <1>2
  <2> HIDE DEF Do
  <2> DEFINE g == [n \in 0..(k + 1) |-> IF n <= k THEN f[n] ELSE Do(f[k], k + 1)]
  <2>2. ASSUME NEW n \in 0..(k + 1) PROVE g[n] = Step(g, n)
    <3>1. CASE n = 0
      BY <3>1, <2>1
    <3>2. CASE n \in 1..k
      <4>1. g[n] = f[n] /\ g[n - 1] = f[n - 1] /\ n # 0 /\ n \in 0..k
        BY <3>2
      <4>2. f[n] = Step(f, n)
        BY <4>1, <2>1
      <4> QED
        BY <4>1, <4>2
    <3>3. CASE n = k + 1
      <4>1. g[n - 1] = f[k] /\ n # 0 /\ ~(n <= k)
        BY <3>3
      <4> QED
        BY <4>1, <3>3
    <3> QED
      BY <3>1, <3>2, <3>3
  <2> HIDE DEF Step
  <2>3. g = [n \in 0..(k + 1) |-> Step(g, n)]
    BY <2>2
  <2> HIDE DEF g
  <2>4. \E h : h = [n \in 0..(k + 1) |-> Step(h, n)]
    BY <2>3
  <2> QED
    BY <2>4
<1>3. Nat \subseteq S
  <2> HIDE DEF S
  <2> QED
    BY <1>1, <1>2, SetInduction
<1> DEFINE N == Len(pks)
           w == stageValue(pks, col, new)
<1>4. \E f : f = [n \in 0..N |-> Step(f, n)]
  BY <1>3
<1>5. w = CHOOSE f : f = [n \in 0..N |-> Step(f, n)]
  BY DEF stageValue
<1>6. w = [n \in 0..N |-> Step(w, n)]
  <2> HIDE DEF Step, w, N
  <2> QED
    BY <1>4, <1>5
<1> HIDE DEF w
<1>7. \A n \in 0..N : w[n] = Step(w, n)
  <2> HIDE DEF Step
  <2> QED
    BY <1>6
<1>8. w[0] = Set
  BY <1>7
<1>9. \A n \in 1..N : w[n] = stageChange(w[n - 1], EditOf(w[n - 1], pks[n], col, new))
  BY <1>7
<1> QED
  BY <1>8, <1>9 DEF w

(* So does a bulk edit of rows that stay.                                  *)
LEMMA BulkEditFacts ==
  ASSUME TableOK, NEW n, Sound(Set, AllChanges(n)), Standing(Set),
         NEW pks \in Seq(DOMAIN table),
         \A i \in DOMAIN pks : RowDelete(pks[i]) \notin Held(Set),
         NEW col \in Columns, NEW new \in ValuesOf(col)
  PROVE  LET after == stageValue(pks, col, new)[Len(pks)]
         IN Sound(after, AllChanges(n)) /\ Standing(after)
<1> DEFINE w == stageValue(pks, col, new)
           N == Len(pks)
           Good(x) ==
             /\ Sound(x, AllChanges(n))
             /\ Standing(x)
             /\ \A p : RowDelete(p) \in Held(x) => RowDelete(p) \in Held(Set)
           S == {i \in Nat : i <= N => Good(w[i])}
<1>0. N \in Nat /\ DOMAIN pks = 1..N
  OBVIOUS
<1>1. /\ w[0] = Set
      /\ \A i \in 1..N : w[i] = stageChange(w[i - 1], EditOf(w[i - 1], pks[i], col, new))
  BY <1>0, StageValueFacts, Zenon
<1> HIDE DEF w
<1>2. 0 \in S
  BY <1>1
<1>3. ASSUME NEW i \in Nat, i \in S PROVE i + 1 \in S
  <2> SUFFICES ASSUME i + 1 <= N PROVE Good(w[i + 1])
    OBVIOUS
  <2>1. Good(w[i])
    BY <1>0, <1>3
  <2>2. i + 1 \in DOMAIN pks /\ (i + 1) - 1 = i
    BY <1>0
  <2>3. w[i + 1] = stageChange(w[i], EditOf(w[i], pks[i + 1], col, new))
    BY <1>0, <1>1, <2>2
  <2>4. pks[i + 1] \in DOMAIN table /\ RowDelete(pks[i + 1]) \notin Held(w[i])
    BY <2>1, <2>2, ElementOfSeq
  <2> DEFINE x == w[i]
             p == pks[i + 1]
             y == stageChange(x, EditOf(x, p, col, new))
  <2> HIDE DEF x, p
  <2>5. /\ Sound(y, AllChanges(n))
        /\ Standing(y)
        /\ \A q : RowDelete(q) \in Held(y) => RowDelete(q) \in Held(x)
    <3>1. /\ Sound(x, AllChanges(n)) /\ Standing(x)
          /\ p \in DOMAIN table /\ RowDelete(p) \notin Held(x)
      BY <2>1, <2>4 DEF x, p
    <3> QED
      BY <3>1, EditFacts, Zenon
  <2> QED
    BY <2>1, <2>3, <2>5 DEF x, p
<1>4. N \in S
  <2> HIDE DEF S
  <2> QED
    BY <1>0, <1>2, <1>3, SetInduction
<1> QED
  BY <1>0, <1>4 DEF w
-----------------------------------------------------------------------------
(* The invariant.                                                          *)

ChangesetInv ==
  /\ nextID \in Nat /\ steps \in 0..MaxSteps /\ nextID <= steps
  /\ TableOK
  /\ Sound(Set, AllChanges(nextID))
  /\ Standing(Set)

(* The invariant says the index is sound and the edits stand.              *)
LEMMA ChangesetInvFacts ==
  ASSUME ChangesetInv
  PROVE  IndexSound /\ EditsStand
<1>1. Sound(Set, AllChanges(nextID))
  BY DEF ChangesetInv
<1>2. /\ ops \in Seq(AllChanges(nextID))
      /\ DOMAIN index = {key(ops[i]) : i \in DOMAIN ops}
      /\ \A i \in DOMAIN ops : index[key(ops[i])] = i
  BY <1>1 DEF Sound, Set
<1>3. ChangesetTypeOK
  BY <1>2, ChangesetAssumption DEF ChangesetInv, ChangesetTypeOK, TableOK, RowsOK
<1>4. EditsStand
  <2> SUFFICES ASSUME NEW i \in DOMAIN ops, ops[i].kind = "cell"
               PROVE  /\ ~DeleteStaged(Set, ops[i].pk)
                      /\ ops[i].new # ops[i].old
                      /\ ops[i].old = Value(ops[i].pk, ops[i].col)
    BY DEF EditsStand
  <2>1. ops[i] \in Held(Set)
    BY DEF Held, Set
  <2>2. EditStands(ops[i], Set)
    BY <2>1 DEF ChangesetInv, Standing
  <2> QED
    BY <1>1, <2>2, DeleteHeld DEF EditStands
<1> QED
  BY <1>2, <1>3, <1>4 DEF IndexSound

(* A longer list of inserts allows every change a shorter one does.        *)
LEMMA MoreChanges ==
  ASSUME NEW n \in Nat
  PROVE  /\ AllChanges(n) \subseteq AllChanges(n + 1)
         /\ \A cs : Sound(cs, AllChanges(n)) => Sound(cs, AllChanges(n + 1))
<1>1. AllChanges(n) \subseteq AllChanges(n + 1)
  <2>1. 1..n \subseteq 1..(n + 1)
    OBVIOUS
  <2> QED
    <3> SUFFICES ASSUME NEW d \in AllChanges(n) PROVE d \in AllChanges(n + 1)
      OBVIOUS
    <3>1. CASE d \in {RowInsert(id, [id |-> k, v |-> v]) : id \in 1..n, k \in Keys, v \in Vals}
      <4>1. PICK id \in 1..n, k \in Keys, v \in Vals : d = RowInsert(id, [id |-> k, v |-> v])
        BY <3>1
      <4>2. id \in 1..(n + 1)
        OBVIOUS
      <4> QED
        BY <4>1, <4>2 DEF AllChanges
    <3>2. CASE d \notin {RowInsert(id, [id |-> k, v |-> v]) : id \in 1..n, k \in Keys, v \in Vals}
      BY <3>2 DEF AllChanges
    <3> QED
      BY <3>1, <3>2
<1>2. Seq(AllChanges(n)) \subseteq Seq(AllChanges(n + 1))
  BY <1>1
<1> QED
  BY <1>1, <1>2 DEF Sound

(* A list that is sound and stands keeps the invariant.                    *)
LEMMA ListKeepsInv ==
  ASSUME ChangesetInv, Stepped, UNCHANGED table, NEW cs, ListBecomes(cs),
         nextID' \in Nat, nextID' <= nextID + 1,
         Sound(cs, AllChanges(nextID')), Standing(cs)
  PROVE  ChangesetInv'
<1>1. steps' \in 0..MaxSteps /\ nextID' <= steps'
  BY ChangesetAssumption DEF ChangesetInv, Stepped
<1>2. TableOK'
  BY DEF ChangesetInv, TableOK, RowsOK
<1>3. ops' = cs.ops /\ index' = cs.index
  BY DEF ListBecomes
<1>4. Sound(Set, AllChanges(nextID))'
  BY <1>3 DEF Sound, Set
<1>5. Held(Set)' = Held(cs)
  BY <1>3 DEF Held, Set
<1>6. Standing(Set)'
  BY <1>5 DEF Standing, EditStands, Value
<1> QED
  BY <1>1, <1>2, <1>4, <1>6 DEF ChangesetInv

(* Every initial state satisfies the invariant.                            *)
LEMMA ChangesetInitInv ==
  ASSUME ChangesetInit
  PROVE  ChangesetInv
<1>1. Set = [ops |-> <<>>, index |-> <<>>] /\ Held(Set) = {}
  BY DEF ChangesetInit, Set, Held
<1>2. Sound(Set, AllChanges(nextID))
  BY <1>1 DEF Sound
<1>3. Standing(Set)
  BY <1>1 DEF Standing
<1>4. TableOK
  BY ChangesetAssumption DEF ChangesetInit, TableOK, RowsOK
<1> QED
  BY <1>2, <1>3, <1>4, ChangesetAssumption DEF ChangesetInit, ChangesetInv

(* An edit, of one row or of the selected ones, keeps the invariant.       *)
LEMMA EditKeepsInv ==
  ASSUME ChangesetInv, NEW selected \in SUBSET DOMAIN table, NEW cursor \in selected,
         NEW col \in Columns, NEW new \in ValuesOf(col), Edit(cursor, selected, col, new)
  PROVE  ChangesetInv'
<1> DEFINE rest == {pk \in selected \ {cursor} : ~DeleteStaged(Set, pk)}
<1>1. PICK others \in [1..Cardinality(rest) -> rest] :
        ListBecomes(stageValue(<<cursor>> \o others, col, new)[Len(<<cursor>> \o others)])
  BY DEF Edit
<1>2. /\ TableOK /\ Sound(Set, AllChanges(nextID)) /\ Standing(Set) /\ nextID \in Nat
      /\ Stepped /\ UNCHANGED <<nextID, table>> /\ ~DeleteStaged(Set, cursor)
  BY DEF ChangesetInv, Edit
<1>3. Cardinality(rest) \in Nat
  <2>1. IsFiniteSet(DOMAIN table) /\ rest \subseteq DOMAIN table
    BY <1>2 DEF TableOK, RowsOK
  <2>2. IsFiniteSet(rest)
    BY <2>1, FS_Subset
  <2> QED
    BY <2>2, FS_CardinalityType
<1>4. others \in Seq(rest)
  <2> DEFINE m == Cardinality(rest)
  <2>1. m \in Nat /\ others \in [1..m -> rest]
    BY <1>1, <1>3
  <2> HIDE DEF m, rest
  <2> QED
    BY <2>1
<1> DEFINE pks == <<cursor>> \o others
           Stays == {pk \in DOMAIN table : ~DeleteStaged(Set, pk)}
<1>5. pks \in Seq(Stays)
  <2>1. cursor \in Stays /\ rest \subseteq Stays
    BY <1>2
  <2>2. <<cursor>> \in Seq(Stays) /\ others \in Seq(Stays)
    BY <1>4, <2>1
  <2> HIDE DEF Stays
  <2> QED
    BY <2>2, ConcatProperties
<1> HIDE DEF pks
<1>6. pks \in Seq(DOMAIN table)
  BY <1>5
<1>7. \A i \in DOMAIN pks : RowDelete(pks[i]) \notin Held(Set)
  <2>1. \A i \in DOMAIN pks : ~DeleteStaged(Set, pks[i])
    BY <1>5
  <2> QED
    BY <2>1, <1>2, DeleteHeld
<1> DEFINE after == stageValue(pks, col, new)[Len(pks)]
<1>8. Sound(after, AllChanges(nextID)) /\ Standing(after)
  BY <1>2, <1>6, <1>7, BulkEditFacts
<1>9. ListBecomes(after)
  BY <1>1 DEF pks
<1> HIDE DEF after
<1> QED
  BY <1>2, <1>8, <1>9, ListKeepsInv

(* So does staging the delete of a row.                                    *)
LEMMA DeleteRowKeepsInv ==
  ASSUME ChangesetInv, NEW pk \in DOMAIN table, DeleteRow(pk)
  PROVE  ChangesetInv'
<1>1. /\ TableOK /\ Sound(Set, AllChanges(nextID)) /\ Standing(Set) /\ nextID \in Nat
      /\ Stepped /\ UNCHANGED <<nextID, table>> /\ ListBecomes(StageDelete(Set, pk))
  BY DEF ChangesetInv, DeleteRow
<1>2. RowDelete(pk) \in AllChanges(nextID)
  BY <1>1 DEF TableOK, RowsOK, AllChanges
<1> DEFINE after == StageDelete(Set, pk)
<1>3. /\ Sound(after, AllChanges(nextID))
      /\ DeleteStaged(Set, pk) => after = Set
      /\ ~DeleteStaged(Set, pk) =>
           Held(after) = {d \in Held(Set) : ~CellsOf(d, pk)} \cup {RowDelete(pk)}
  BY <1>1, <1>2, StageDeleteFacts
<1> HIDE DEF after
<1>4. Standing(after)
  <2>1. CASE DeleteStaged(Set, pk)
    BY <1>1, <1>3, <2>1
  <2>2. CASE ~DeleteStaged(Set, pk)
    <3>1. \A p : RowDelete(p) \in Held(after) => p \in DOMAIN table /\ (p = pk \/ RowDelete(p) \in Held(Set))
      <4>1. \A p : RowDelete(p) = RowDelete(pk) => p = pk
        BY KindsDiffer
      <4> QED
        BY <1>1, <1>3, <2>2, <4>1 DEF Standing
    <3>2. ASSUME NEW d \in Held(after), d.kind = "cell" PROVE EditStands(d, after)
      <4>1. d \in Held(Set) /\ ~CellsOf(d, pk)
        BY <1>3, <2>2, <3>2, KindsDiffer
      <4>2. EditStands(d, Set) /\ d.pk # pk
        BY <1>1, <3>2, <4>1 DEF Standing, CellsOf
      <4> QED
        BY <3>1, <4>2 DEF EditStands
    <3> QED
      BY <3>1, <3>2 DEF Standing
  <2> QED
    BY <2>1, <2>2
<1> QED
  BY <1>1, <1>3, <1>4, ListKeepsInv DEF after

(* Staging an insert or a schema change adds one that touches no row.      *)
LEMMA OtherStands ==
  ASSUME NEW C, NEW cs, Sound(cs, C), Standing(cs), NEW c \in C, c.kind \in {"ins", "schema"}
  PROVE  Sound(stage(cs, c), C) /\ Standing(stage(cs, c))
<1> DEFINE after == stage(cs, c)
<1>1. Sound(after, C) /\ Held(after) = {d \in Held(cs) : key(d) # key(c)} \cup {c}
  BY StageFacts
<1> HIDE DEF after
<1>2. \A pk : RowDelete(pk) \in Held(after) => RowDelete(pk) \in Held(cs)
  BY <1>1, KindsDiffer
<1>3. \A d \in Held(after) : d.kind = "cell" => d \in Held(cs)
  BY <1>1
<1>4. Standing(after)
  BY <1>2, <1>3 DEF Standing, EditStands
<1> QED
  BY <1>1, <1>4 DEF after

(* Staging an insert keeps the invariant.                                  *)
LEMMA InsertRowKeepsInv ==
  ASSUME ChangesetInv, NEW id \in Keys, NEW v \in Vals, InsertRow([id |-> id, v |-> v])
  PROVE  ChangesetInv'
<1> DEFINE c == RowInsert(nextID + 1, [id |-> id, v |-> v])
<1>1. /\ Sound(Set, AllChanges(nextID)) /\ Standing(Set) /\ nextID \in Nat
      /\ Stepped /\ UNCHANGED table /\ nextID' = nextID + 1 /\ ListBecomes(stage(Set, c))
  BY DEF ChangesetInv, InsertRow
<1>2. c \in AllChanges(nextID + 1)
  <2>1. nextID + 1 \in 1..(nextID + 1)
    BY <1>1
  <2> QED
    BY <2>1 DEF AllChanges
<1>3. c.kind = "ins"
  BY DEF RowInsert
<1>4. Sound(Set, AllChanges(nextID + 1))
  BY <1>1, MoreChanges
<1> HIDE DEF c
<1>5. Sound(stage(Set, c), AllChanges(nextID + 1)) /\ Standing(stage(Set, c))
  BY <1>1, <1>2, <1>3, <1>4, OtherStands
<1> QED
  BY <1>1, <1>5, ListKeepsInv

(* Staging a schema change keeps the invariant.                            *)
LEMMA StageSchemaKeepsInv ==
  ASSUME ChangesetInv, NEW s \in Schemas, StageSchema(s)
  PROVE  ChangesetInv'
<1> DEFINE c == SchemaChange(s)
<1>1. /\ Sound(Set, AllChanges(nextID)) /\ Standing(Set) /\ nextID \in Nat
      /\ Stepped /\ UNCHANGED <<nextID, table>> /\ ListBecomes(stage(Set, c))
  BY DEF ChangesetInv, StageSchema
<1>2. c \in AllChanges(nextID) /\ c.kind = "schema"
  BY DEF AllChanges, SchemaChange
<1> HIDE DEF c
<1>3. Sound(stage(Set, c), AllChanges(nextID)) /\ Standing(stage(Set, c))
  BY <1>1, <1>2, OtherStands
<1> QED
  BY <1>1, <1>3, ListKeepsInv

(* Unstaging by key keeps the invariant, whatever the key.                 *)
LEMMA UnstageKeepsInv ==
  ASSUME ChangesetInv, Stepped, UNCHANGED <<nextID, table>>, NEW k, ListBecomes(removeKey(Set, k))
  PROVE  ChangesetInv'
<1>1. Sound(Set, AllChanges(nextID)) /\ Standing(Set) /\ nextID \in Nat
  BY DEF ChangesetInv
<1> DEFINE after == removeKey(Set, k)
<1>2. Sound(after, AllChanges(nextID)) /\ Held(after) \subseteq Held(Set)
  BY <1>1, RemoveKeyFacts
<1> HIDE DEF after
<1>3. Standing(after)
  BY <1>1, <1>2, FewerStand
<1> QED
  BY <1>1, <1>2, <1>3, ListKeepsInv DEF after
-----------------------------------------------------------------------------
(* The statements of a commit.                                             *)

(* The rows, as a set of records.                                          *)
AsRows(rows) == {[id |-> k, v |-> rows[k]] : k \in DOMAIN rows}

(* A row deleted, and a row added under a key that is free.                *)
LEMMA WithoutRow ==
  ASSUME NEW rows, RowsOK(rows), NEW pk
  PROVE  /\ RowsOK(Without(rows, pk))
         /\ DOMAIN Without(rows, pk) = DOMAIN rows \ {pk}
         /\ \A k \in DOMAIN rows \ {pk} : Without(rows, pk)[k] = rows[k]
         /\ AsRows(Without(rows, pk)) = {r \in AsRows(rows) : r.id # pk}
<1> DEFINE new == Without(rows, pk)
<1>1. DOMAIN new = DOMAIN rows \ {pk} /\ \A k \in DOMAIN rows \ {pk} : new[k] = rows[k]
  BY DEF Without
<1> HIDE DEF new
<1>2. IsFiniteSet(DOMAIN new)
  BY <1>1, FS_Subset DEF RowsOK
<1>3. RowsOK(new)
  BY <1>1, <1>2 DEF RowsOK
<1>4. AsRows(new) = {r \in AsRows(rows) : r.id # pk}
  BY <1>1 DEF AsRows
<1> QED
  BY <1>1, <1>3, <1>4 DEF new

LEMMA WithRow ==
  ASSUME NEW rows, RowsOK(rows), NEW k \in Keys, k \notin DOMAIN rows, NEW v \in Vals
  PROVE  /\ RowsOK(With(rows, k, v))
         /\ AsRows(With(rows, k, v)) = AsRows(rows) \cup {[id |-> k, v |-> v]}
<1> DEFINE new == With(rows, k, v)
<1>1. /\ DOMAIN new = DOMAIN rows \cup {k}
      /\ new[k] = v
      /\ \A x \in DOMAIN rows : x # k => new[x] = rows[x]
  BY DEF With
<1> HIDE DEF new
<1>2. IsFiniteSet(DOMAIN new)
  BY <1>1, FS_AddElement DEF RowsOK
<1>3. RowsOK(new)
  BY <1>1, <1>2 DEF RowsOK
<1>4. AsRows(new) = AsRows(rows) \cup {[id |-> k, v |-> v]}
  BY <1>1 DEF AsRows
<1> QED
  BY <1>3, <1>4 DEF new

(* The database after each statement is a function of how many are done.   *)
LEMMA ExecutedFacts ==
  ASSUME NEW stmts, Len(stmts) \in Nat
  PROVE  /\ Executed(stmts)[0] = [ok |-> TRUE, rows |-> table]
         /\ \A n \in 1..Len(stmts) :
              Executed(stmts)[n] =
                IF stmts[n] = <<>> THEN Executed(stmts)[n - 1]
                ELSE Execute(Executed(stmts)[n - 1], stmts[n][1])
<1> DEFINE Do(x, n) == IF stmts[n] = <<>> THEN x ELSE Execute(x, stmts[n][1])
           Start == [ok |-> TRUE, rows |-> table]
           Step(f, n) == IF n = 0 THEN Start ELSE Do(f[n - 1], n)
           S == {k \in Nat : \E f : f = [n \in 0..k |-> Step(f, n)]}
<1>1. 0 \in S
  <2> DEFINE f == [n \in 0..0 |-> Start]
  <2>1. \A n \in 0..0 : Step(f, n) = Start
    OBVIOUS
  <2>2. f = [n \in 0..0 |-> Step(f, n)]
    BY <2>1
  <2> QED
    BY <2>2
<1>2. ASSUME NEW k \in Nat, k \in S PROVE k + 1 \in S
  <2>1. PICK f : f = [n \in 0..k |-> Step(f, n)]
    BY <1>2
  <2> HIDE DEF Do
  <2> DEFINE g == [n \in 0..(k + 1) |-> IF n <= k THEN f[n] ELSE Do(f[k], k + 1)]
  <2>2. ASSUME NEW n \in 0..(k + 1) PROVE g[n] = Step(g, n)
    <3>1. CASE n = 0
      BY <3>1, <2>1
    <3>2. CASE n \in 1..k
      <4>1. g[n] = f[n] /\ g[n - 1] = f[n - 1] /\ n # 0 /\ n \in 0..k
        BY <3>2
      <4>2. f[n] = Step(f, n)
        BY <4>1, <2>1
      <4> QED
        BY <4>1, <4>2
    <3>3. CASE n = k + 1
      <4>1. g[n - 1] = f[k] /\ n # 0 /\ ~(n <= k)
        BY <3>3
      <4> QED
        BY <4>1, <3>3
    <3> QED
      BY <3>1, <3>2, <3>3
  <2> HIDE DEF Step
  <2>3. g = [n \in 0..(k + 1) |-> Step(g, n)]
    BY <2>2
  <2> HIDE DEF g
  <2>4. \E h : h = [n \in 0..(k + 1) |-> Step(h, n)]
    BY <2>3
  <2> QED
    BY <2>4
<1>3. Nat \subseteq S
  <2> HIDE DEF S
  <2> QED
    BY <1>1, <1>2, SetInduction
<1> DEFINE N == Len(stmts)
           w == Executed(stmts)
<1>4. \E f : f = [n \in 0..N |-> Step(f, n)]
  BY <1>3
<1>5. w = CHOOSE f : f = [n \in 0..N |-> Step(f, n)]
  BY DEF Executed
<1>6. w = [n \in 0..N |-> Step(w, n)]
  <2> HIDE DEF Step, w, N
  <2> QED
    BY <1>4, <1>5
<1> HIDE DEF w
<1>7. \A n \in 0..N : w[n] = Step(w, n)
  <2> HIDE DEF Step
  <2> QED
    BY <1>6
<1>8. w[0] = Start
  <2>1. w[0] = Step(w, 0)
    <3> HIDE DEF Step, Start
    <3> QED
      BY <1>7
  <2> HIDE DEF Start, Do
  <2> QED
    BY <2>1
<1>9. \A n \in 1..N : w[n] = Do(w[n - 1], n)
  BY <1>7
<1> QED
  BY <1>8, <1>9 DEF w

(* The values a merged UPDATE sets are the ones the grid shows.            *)
LEMMA UpdateSetsShown ==
  ASSUME ChangesetInv, NEW pk, NEW col
  PROVE  LET cells == {d \in {ops[j] : j \in DOMAIN ops} : CellsOf(d, pk)}
         IN ColumnOr(MultiUpdate(pk, cells).sets, col, Value(pk, col)) = Shown(pk, col)
<1> DEFINE cells == {d \in {ops[j] : j \in DOMAIN ops} : CellsOf(d, pk)}
           sets == MultiUpdate(pk, cells).sets
           k == <<"cell", pk, col>>
<1>1. /\ Sound(Set, AllChanges(nextID))
      /\ Held(Set) = {ops[j] : j \in DOMAIN ops}
      /\ DOMAIN Set.index = DOMAIN index
  BY DEF ChangesetInv, Held, Set
<1>2. Held(Set) \subseteq AllChanges(nextID)
  BY <1>1, ElementOfSeq DEF Sound, Held
<1>3. sets = [x \in {c.col : c \in cells} |-> (CHOOSE c \in cells : c.col = x).new]
  BY DEF MultiUpdate, Update
<1>4. \A d : d \in cells /\ d.col = col <=> d \in Held(Set) /\ key(d) = k
  BY <1>1, <1>2, KeyTells DEF CellsOf
<1> HIDE DEF cells, sets
<1>5. col \in DOMAIN sets <=> \E d \in Held(Set) : key(d) = k
  <2>1. col \in DOMAIN sets <=> \E d \in cells : d.col = col
    BY <1>3
  <2> QED
    BY <2>1, <1>4
<1>6. k \in DOMAIN index <=> \E d \in Held(Set) : key(d) = k
  BY <1>1, KeysHeld, Zenon
<1>7. CASE k \in DOMAIN index
  <2> DEFINE d == Lookup(Set, pk, col)
  <2>1. d \in Held(Set) /\ key(d) = k
    BY <1>1, <1>7, IndexLeads DEF Lookup
  <2>2. \A e \in Held(Set) : key(e) = k => e = d
    <3> SUFFICES ASSUME NEW e \in Held(Set), key(e) = k PROVE e = d
      OBVIOUS
    <3>1. PICK i \in DOMAIN Set.ops : e = Set.ops[i]
      BY DEF Held
    <3>2. PICK j \in DOMAIN Set.ops : d = Set.ops[j]
      BY <2>1 DEF Held
    <3>3. i = j
      BY <1>1, <2>1, <3>1, <3>2, KeysDiffer
    <3> QED
      BY <3>1, <3>2, <3>3
  <2> HIDE DEF d
  <2>3. d \in cells /\ d.col = col /\ \A e \in cells : e.col = col => e = d
    BY <1>4, <2>1, <2>2
  <2>4. (CHOOSE c \in cells : c.col = col) = d
    BY <2>3
  <2>5. col \in DOMAIN sets /\ sets[col] = d.new
    BY <1>3, <1>5, <1>6, <1>7, <2>4
  <2> QED
    BY <1>7, <2>5 DEF ColumnOr, Shown, d, sets, cells
<1>8. CASE k \notin DOMAIN index
  BY <1>5, <1>6, <1>8 DEF ColumnOr, Shown, sets, cells
<1> QED
  BY <1>7, <1>8

(* A row of the table shows values.                                        *)
LEMMA ShownValues ==
  ASSUME ChangesetInv, NEW pk \in DOMAIN table
  PROVE  /\ Shown(pk, "id") \in Keys
         /\ Shown(pk, "v") \in Vals
<1>1. Sound(Set, AllChanges(nextID)) /\ TableOK
  BY DEF ChangesetInv
<1>2. Held(Set) \subseteq AllChanges(nextID)
  BY <1>1, ElementOfSeq DEF Sound, Held
<1>3. Value(pk, "id") \in Keys /\ Value(pk, "v") \in Vals
  BY <1>1 DEF TableOK, RowsOK, Value
<1>4. ASSUME NEW col, <<"cell", pk, col>> \in DOMAIN index
      PROVE  LET d == Lookup(Set, pk, col)
             IN d \in AllChanges(nextID) /\ d.kind = "cell" /\ d.col = col
  <2> DEFINE d == Lookup(Set, pk, col)
  <2>1. d \in Held(Set) /\ key(d) = <<"cell", pk, col>>
    <3>1. <<"cell", pk, col>> \in DOMAIN Set.index
      BY <1>4 DEF Set
    <3> QED
      BY <1>1, <3>1, IndexLeads DEF Lookup
  <2> HIDE DEF d
  <2>2. d \in AllChanges(nextID) /\ d.kind = "cell" /\ d.col = col
    BY <1>2, <2>1, KeyTells
  <2> QED
    BY <2>2 DEF d
<1>5. \A d \in AllChanges(nextID) :
        /\ d.kind = "cell" /\ d.col = "id" => d.new \in Keys
        /\ d.kind = "cell" /\ d.col = "v" => d.new \in Vals
  BY DEF AllChanges, CellChange, RowDelete, RowInsert, SchemaChange
<1>6. Shown(pk, "id") \in Keys
  BY <1>3, <1>4, <1>5 DEF Shown
<1>7. Shown(pk, "v") \in Vals
  BY <1>3, <1>4, <1>5 DEF Shown
<1> QED
  BY <1>6, <1>7
-----------------------------------------------------------------------------
(* What a commit leaves is what the grid previewed.                        *)

\* One of the first i statements reaches the row.
Done(pk, i) == \E j \in 1..i : CellsOf(ops[j], pk) \/ ops[j] = RowDelete(pk)
ShownRow(pk) == [id |-> Shown(pk, "id"), v |-> Shown(pk, "v")]

\* The rows after the first i changes: those no statement reached yet, those
\* an UPDATE wrote, and those inserted.
Untouched(i) == {[id |-> pk, v |-> table[pk]] : pk \in {p \in DOMAIN table : ~Done(p, i)}}
Updated(i) ==
  {ShownRow(pk) : pk \in {p \in DOMAIN table : Done(p, i) /\ RowDelete(p) \notin Held(Set)}}
Inserted(i) == {ops[j].row : j \in {l \in 1..i : ops[l].kind = "ins"}}

\* No row written or inserted took the key of a row still to be reached.
Ledger(i, rows) ==
  /\ RowsOK(rows)
  /\ AsRows(rows) = Untouched(i) \cup Updated(i) \cup Inserted(i)
  /\ \A p \in DOMAIN table : ~Done(p, i) =>
       \A r \in Updated(i) \cup Inserted(i) : r.id # p

(* What the invariant says of the changes one by one.                      *)
LEMMA EachChange ==
  ASSUME ChangesetInv
  PROVE  /\ ops \in Seq(AllChanges(nextID))
         /\ Held(Set) = {ops[j] : j \in DOMAIN ops}
         /\ \A i, j \in DOMAIN ops : key(ops[i]) = key(ops[j]) => i = j
         /\ \A i \in DOMAIN ops : ops[i].kind = "cell" =>
              ops[i].pk \in DOMAIN table /\ RowDelete(ops[i].pk) \notin Held(Set)
         /\ \A i \in DOMAIN ops : ops[i].kind = "del" =>
              ops[i].pk \in DOMAIN table /\ ops[i] = RowDelete(ops[i].pk)
<1>1. Sound(Set, AllChanges(nextID)) /\ Standing(Set)
  BY DEF ChangesetInv
<1>2. ops \in Seq(AllChanges(nextID)) /\ Held(Set) = {ops[j] : j \in DOMAIN ops}
  BY <1>1 DEF Sound, Held, Set
<1>3. \A i, j \in DOMAIN ops : key(ops[i]) = key(ops[j]) => i = j
  BY <1>1 DEF Sound, Set
<1>4. \A i \in DOMAIN ops : ops[i].kind = "cell" =>
        ops[i].pk \in DOMAIN table /\ RowDelete(ops[i].pk) \notin Held(Set)
  BY <1>1, <1>2 DEF Standing, EditStands
<1>5. ASSUME NEW i \in DOMAIN ops, ops[i].kind = "del"
      PROVE  ops[i].pk \in DOMAIN table /\ ops[i] = RowDelete(ops[i].pk)
  <2>1. ops[i] \in AllChanges(nextID)
    BY <1>2, ElementOfSeq
  <2>2. ops[i] = RowDelete(ops[i].pk)
    BY <1>5, <2>1, KeyTells
  <2>3. ops[i] \in Held(Set)
    BY <1>2
  <2> QED
    BY <1>1, <2>2, <2>3 DEF Standing
<1> QED
  BY <1>2, <1>3, <1>4, <1>5

(* At the start no row is reached.                                         *)
LEMMA LedgerStart ==
  ASSUME ChangesetInv
  PROVE  Ledger(0, table)
<1>1. \A p : ~Done(p, 0)
  BY DEF Done
<1>2. Updated(0) = {} /\ Inserted(0) = {}
  BY <1>1 DEF Updated, Inserted
<1>3. AsRows(table) = Untouched(0)
  BY <1>1 DEF AsRows, Untouched
<1> QED
  BY <1>2, <1>3 DEF Ledger, ChangesetInv, TableOK

(* A change that reaches no new row and inserts none leaves the ledger.    *)
LEMMA LedgerSame ==
  ASSUME NEW i \in Nat, NEW rows, Ledger(i, rows),
         \A p \in DOMAIN table : Done(p, i + 1) <=> Done(p, i),
         ops[i + 1].kind # "ins"
  PROVE  Ledger(i + 1, rows)
<1>1. Untouched(i + 1) = Untouched(i) /\ Updated(i + 1) = Updated(i)
  BY DEF Untouched, Updated
<1>2. \A l \in 1..(i + 1) : l \in 1..i \/ l = i + 1
  OBVIOUS
<1>3. {l \in 1..(i + 1) : ops[l].kind = "ins"} = {l \in 1..i : ops[l].kind = "ins"}
  BY <1>2
<1>4. Inserted(i + 1) = Inserted(i)
  BY <1>3 DEF Inserted
<1> QED
  BY <1>1, <1>4 DEF Ledger

(* Which rows are reached by one more change.                              *)
LEMMA DoneNext ==
  ASSUME NEW i \in Nat, NEW p
  PROVE  Done(p, i + 1) <=> Done(p, i) \/ CellsOf(ops[i + 1], p) \/ ops[i + 1] = RowDelete(p)
<1>1. \A j \in 1..(i + 1) : j \in 1..i \/ j = i + 1
  OBVIOUS
<1>2. 1..i \subseteq 1..(i + 1) /\ i + 1 \in 1..(i + 1)
  OBVIOUS
<1> QED
  BY <1>1, <1>2 DEF Done

(* A row that no statement reached is in the table as it was.              *)
LEMMA UntouchedThere ==
  ASSUME NEW i, NEW rows, Ledger(i, rows), NEW pk \in DOMAIN table, ~Done(pk, i)
  PROVE  pk \in DOMAIN rows /\ rows[pk] = table[pk]
<1>1. [id |-> pk, v |-> table[pk]] \in AsRows(rows)
  BY DEF Ledger, Untouched
<1> QED
  BY <1>1 DEF AsRows

(* The rows without one that is not reached yet.                           *)
LEMMA UntouchedWithout ==
  ASSUME NEW i, NEW rows, Ledger(i, rows), NEW pk \in DOMAIN table, ~Done(pk, i)
  PROVE  /\ RowsOK(Without(rows, pk))
         /\ AsRows(Without(rows, pk)) =
              {[id |-> p, v |-> table[p]] : p \in {q \in DOMAIN table : ~Done(q, i) /\ q # pk}}
                \cup Updated(i) \cup Inserted(i)
<1>1. /\ RowsOK(Without(rows, pk))
      /\ AsRows(Without(rows, pk)) = {r \in AsRows(rows) : r.id # pk}
  <2>1. RowsOK(rows)
    BY DEF Ledger
  <2> QED
    BY <2>1, WithoutRow
<1>2. \A r \in Updated(i) \cup Inserted(i) : r.id # pk
  BY DEF Ledger
<1>3. {r \in Untouched(i) : r.id # pk} =
        {[id |-> p, v |-> table[p]] : p \in {q \in DOMAIN table : ~Done(q, i) /\ q # pk}}
  BY DEF Untouched
<1>4. AsRows(rows) = Untouched(i) \cup Updated(i) \cup Inserted(i)
  BY DEF Ledger
<1> QED
  BY <1>1, <1>2, <1>3, <1>4

(* An UPDATE that succeeds moves its row to the key it shows.              *)
LEMMA UpdateStep ==
  ASSUME ChangesetInv, NEW i \in Nat, i + 1 \in DOMAIN ops, ops[i + 1].kind = "cell",
         ~Done(ops[i + 1].pk, i), NEW rows, Ledger(i, rows)
  PROVE  LET pk == ops[i + 1].pk
             cells == {d \in {ops[j] : j \in DOMAIN ops} : CellsOf(d, pk)}
             after == Execute([ok |-> TRUE, rows |-> rows], MultiUpdate(pk, cells))
         IN after.ok => after = [ok |-> TRUE, rows |-> after.rows] /\ Ledger(i + 1, after.rows)
<1> DEFINE pk == ops[i + 1].pk
           cells == {d \in {ops[j] : j \in DOMAIN ops} : CellsOf(d, pk)}
           st == MultiUpdate(pk, cells)
           after == Execute([ok |-> TRUE, rows |-> rows], st)
           rest == Without(rows, pk)
           id == Shown(pk, "id")
           v == Shown(pk, "v")
<1>1. /\ pk \in DOMAIN table /\ RowDelete(pk) \notin Held(Set)
      /\ pk \in DOMAIN rows /\ rows[pk] = table[pk]
  BY EachChange, UntouchedThere
<1>2. ColumnOr(st.sets, "id", pk) = id /\ ColumnOr(st.sets, "v", rows[pk]) = v
  <2>1. Value(pk, "id") = pk /\ Value(pk, "v") = rows[pk]
    BY <1>1 DEF Value
  <2>2. ColumnOr(st.sets, "id", Value(pk, "id")) = id
    BY UpdateSetsShown
  <2>3. ColumnOr(st.sets, "v", Value(pk, "v")) = v
    BY UpdateSetsShown
  <2> HIDE DEF pk, st, id, v
  <2> QED
    BY <2>1, <2>2, <2>3
<1>3. st.do = "update" /\ st.pk = pk
  BY DEF MultiUpdate, Update
<1>4. id \in Keys /\ v \in Vals
  BY <1>1, ShownValues
<1>5. /\ RowsOK(rest)
      /\ DOMAIN rest = DOMAIN rows \ {pk}
      /\ AsRows(rest) =
           {[id |-> p, v |-> table[p]] : p \in {q \in DOMAIN table : ~Done(q, i) /\ q # pk}}
             \cup Updated(i) \cup Inserted(i)
  <2>1. RowsOK(rows)
    BY DEF Ledger
  <2>2. ~Done(pk, i)
    OBVIOUS
  <2> HIDE DEF pk
  <2>3. /\ RowsOK(Without(rows, pk))
        /\ AsRows(Without(rows, pk)) =
             {[id |-> p, v |-> table[p]] : p \in {q \in DOMAIN table : ~Done(q, i) /\ q # pk}}
               \cup Updated(i) \cup Inserted(i)
    BY <1>1, <2>2, UntouchedWithout, Zenon
  <2>4. DOMAIN Without(rows, pk) = DOMAIN rows \ {pk}
    BY <2>1, WithoutRow
  <2> QED
    BY <2>3, <2>4
<1>6. \A p \in DOMAIN table : Done(p, i + 1) <=> Done(p, i) \/ p = pk
  <2>1. \A p : ~(ops[i + 1] = RowDelete(p))
    BY KindsDiffer
  <2>2. \A p : CellsOf(ops[i + 1], p) <=> p = pk
    BY DEF CellsOf
  <2> QED
    BY <2>1, <2>2, DoneNext
<1>7. Untouched(i + 1) =
        {[id |-> p, v |-> table[p]] : p \in {q \in DOMAIN table : ~Done(q, i) /\ q # pk}}
  <2>1. {q \in DOMAIN table : ~Done(q, i + 1)} = {q \in DOMAIN table : ~Done(q, i) /\ q # pk}
    BY <1>6
  <2> QED
    BY <2>1 DEF Untouched
<1>8. Updated(i + 1) = Updated(i) \cup {ShownRow(pk)}
  BY <1>1, <1>6 DEF Updated
<1>9. Inserted(i + 1) = Inserted(i)
  <2>1. {l \in 1..(i + 1) : ops[l].kind = "ins"} = {l \in 1..i : ops[l].kind = "ins"}
    OBVIOUS
  <2> QED
    BY <2>1 DEF Inserted
<1>10. ShownRow(pk) = [id |-> id, v |-> v] /\ ShownRow(pk).id = id
  BY DEF ShownRow
<1> SUFFICES ASSUME after.ok PROVE after = [ok |-> TRUE, rows |-> after.rows] /\ Ledger(i + 1, after.rows)
  OBVIOUS
<1> DEFINE new == With(rest, id, v)
<1>11. id \notin DOMAIN rest /\ after = [ok |-> TRUE, rows |-> new]
  <2> DEFINE s == st
             got == Execute([ok |-> TRUE, rows |-> rows], s)
  <2>1. s.do = "update" /\ s.pk = pk /\ ColumnOr(s.sets, "id", pk) = id
        /\ ColumnOr(s.sets, "v", rows[pk]) = v
    BY <1>2, <1>3
  <2>2. got.ok
    OBVIOUS
  <2> HIDE DEF s, id, v, pk
  <2>3. got = IF id \in DOMAIN Without(rows, pk) THEN [ok |-> FALSE, rows |-> rows]
              ELSE [ok |-> TRUE, rows |-> With(Without(rows, pk), id, v)]
    BY <1>1, <2>1 DEF Execute
  <2> HIDE DEF got
  <2>4. id \notin DOMAIN Without(rows, pk)
    BY <2>2, <2>3
  <2>5. got = [ok |-> TRUE, rows |-> With(Without(rows, pk), id, v)]
    BY <2>3, <2>4
  <2> QED
    BY <2>4, <2>5 DEF got, s
<1> HIDE DEF after, rest, id, v, pk
<1>12. RowsOK(new) /\ AsRows(new) = AsRows(rest) \cup {[id |-> id, v |-> v]}
  BY <1>4, <1>5, <1>11, WithRow
<1>13. ASSUME NEW p \in DOMAIN table, ~Done(p, i + 1), NEW r \in Updated(i + 1) \cup Inserted(i + 1)
       PROVE  r.id # p
  <2>1. ~Done(p, i) /\ p # pk
    BY <1>6, <1>13
  <2>2. p \in DOMAIN rest
    BY <2>1, <1>5, UntouchedThere
  <2>3. CASE r \in Updated(i) \cup Inserted(i)
    BY <2>1, <2>3 DEF Ledger
  <2>4. CASE r = ShownRow(pk)
    BY <2>2, <2>4, <1>10, <1>11
  <2> QED
    BY <2>3, <2>4, <1>8, <1>9, <1>13
<1>14. AsRows(new) = Untouched(i + 1) \cup Updated(i + 1) \cup Inserted(i + 1)
  BY <1>5, <1>7, <1>8, <1>9, <1>10, <1>12
<1>15. Ledger(i + 1, new)
  BY <1>12, <1>13, <1>14 DEF Ledger
<1> HIDE DEF new
<1> QED
  BY <1>11, <1>15

(* A DELETE removes its row, which nothing changed before.                 *)
LEMMA DeleteStep ==
  ASSUME ChangesetInv, NEW i \in Nat, i + 1 \in DOMAIN ops, ops[i + 1].kind = "del",
         NEW rows, Ledger(i, rows)
  PROVE  LET after == Execute([ok |-> TRUE, rows |-> rows], Delete(ops[i + 1].pk))
         IN after = [ok |-> TRUE, rows |-> after.rows] /\ Ledger(i + 1, after.rows)
<1> DEFINE pk == ops[i + 1].pk
           rest == Without(rows, pk)
<1>1. /\ pk \in DOMAIN table /\ ops[i + 1] = RowDelete(pk)
      /\ RowDelete(pk) \in Held(Set)
  BY EachChange
<1>2. Execute([ok |-> TRUE, rows |-> rows], Delete(pk)) = [ok |-> TRUE, rows |-> rest]
  BY DEF Execute, Delete
<1>3. ~Done(pk, i)
  <2> SUFFICES ASSUME NEW j \in 1..i, CellsOf(ops[j], pk) \/ ops[j] = RowDelete(pk)
               PROVE  FALSE
    BY DEF Done
  <2>1. j \in DOMAIN ops /\ j # i + 1
    BY EachChange
  <2>2. CASE CellsOf(ops[j], pk)
    BY <1>1, <2>1, <2>2, EachChange DEF CellsOf
  <2>3. CASE ops[j] = RowDelete(pk)
    BY <1>1, <2>1, <2>3, EachChange
  <2> QED
    BY <2>2, <2>3
<1>4. /\ RowsOK(rest)
      /\ AsRows(rest) =
           {[id |-> p, v |-> table[p]] : p \in {q \in DOMAIN table : ~Done(q, i) /\ q # pk}}
             \cup Updated(i) \cup Inserted(i)
  BY <1>1, <1>3, UntouchedWithout
<1>5. \A p \in DOMAIN table : Done(p, i + 1) <=> Done(p, i) \/ p = pk
  <2>1. \A p : ~CellsOf(ops[i + 1], p)
    BY DEF CellsOf
  <2>2. \A p : ops[i + 1] = RowDelete(p) <=> p = pk
    BY <1>1, KindsDiffer
  <2> QED
    BY <2>1, <2>2, DoneNext
<1> HIDE DEF pk, rest
<1>6. Untouched(i + 1) =
        {[id |-> p, v |-> table[p]] : p \in {q \in DOMAIN table : ~Done(q, i) /\ q # pk}}
  <2>1. {q \in DOMAIN table : ~Done(q, i + 1)} = {q \in DOMAIN table : ~Done(q, i) /\ q # pk}
    BY <1>5
  <2> QED
    BY <2>1 DEF Untouched
<1>7. Updated(i + 1) = Updated(i)
  <2>1. {p \in DOMAIN table : Done(p, i + 1) /\ RowDelete(p) \notin Held(Set)} =
        {p \in DOMAIN table : Done(p, i) /\ RowDelete(p) \notin Held(Set)}
    BY <1>1, <1>5
  <2> QED
    BY <2>1 DEF Updated
<1>8. Inserted(i + 1) = Inserted(i)
  <2>1. {l \in 1..(i + 1) : ops[l].kind = "ins"} = {l \in 1..i : ops[l].kind = "ins"}
    OBVIOUS
  <2> QED
    BY <2>1 DEF Inserted
<1>9. \A p \in DOMAIN table : ~Done(p, i + 1) =>
        \A r \in Updated(i + 1) \cup Inserted(i + 1) : r.id # p
  BY <1>5, <1>7, <1>8 DEF Ledger
<1>10. Ledger(i + 1, rest)
  BY <1>4, <1>6, <1>7, <1>8, <1>9 DEF Ledger
<1> DEFINE after == Execute([ok |-> TRUE, rows |-> rows], Delete(pk))
<1>11. after = [ok |-> TRUE, rows |-> after.rows] /\ Ledger(i + 1, after.rows)
  <2>1. after = [ok |-> TRUE, rows |-> rest]
    BY <1>2
  <2> HIDE DEF after
  <2>2. after.rows = rest
    BY <2>1
  <2> QED
    BY <2>1, <2>2, <1>10
<1> QED
  BY <1>11, Zenon DEF pk

(* An INSERT that succeeds takes a key that is free.                       *)
LEMMA InsertStep ==
  ASSUME ChangesetInv, NEW i \in Nat, i + 1 \in DOMAIN ops, ops[i + 1].kind = "ins",
         NEW rows, Ledger(i, rows)
  PROVE  LET after == Execute([ok |-> TRUE, rows |-> rows], Insert(ops[i + 1].row))
         IN after.ok => after = [ok |-> TRUE, rows |-> after.rows] /\ Ledger(i + 1, after.rows)
<1> DEFINE row == ops[i + 1].row
           after == Execute([ok |-> TRUE, rows |-> rows], Insert(row))
           new == With(rows, row.id, row.v)
<1>1. row \in [id : Keys, v : Vals]
  <2>1. ops[i + 1] \in AllChanges(nextID)
    BY EachChange, ElementOfSeq
  <2> QED
    BY <2>1, ChangeKinds
<1>2. after = IF row.id \in DOMAIN rows THEN [ok |-> FALSE, rows |-> rows]
              ELSE [ok |-> TRUE, rows |-> new]
  <2> HIDE DEF row
  <2> QED
    BY DEF Execute, Insert
<1>3. \A p \in DOMAIN table : Done(p, i + 1) <=> Done(p, i)
  <2>1. \A p : ~CellsOf(ops[i + 1], p) /\ ops[i + 1] # RowDelete(p)
    BY KindsDiffer DEF CellsOf
  <2> QED
    BY <2>1, DoneNext
<1>4. Untouched(i + 1) = Untouched(i) /\ Updated(i + 1) = Updated(i)
  BY <1>3 DEF Untouched, Updated
<1>5. Inserted(i + 1) = Inserted(i) \cup {row}
  <2>1. {l \in 1..(i + 1) : ops[l].kind = "ins"} = {l \in 1..i : ops[l].kind = "ins"} \cup {i + 1}
    OBVIOUS
  <2> QED
    BY <2>1 DEF Inserted
<1>6. RowsOK(rows) /\ AsRows(rows) = Untouched(i) \cup Updated(i) \cup Inserted(i)
  BY DEF Ledger
<1> HIDE DEF row, after
<1> SUFFICES ASSUME after.ok PROVE after = [ok |-> TRUE, rows |-> after.rows] /\ Ledger(i + 1, after.rows)
  BY DEF after, row
<1>7. row.id \notin DOMAIN rows /\ after = [ok |-> TRUE, rows |-> new]
  <2> HIDE DEF new
  <2>1. row.id \notin DOMAIN rows
    BY <1>2
  <2> QED
    BY <1>2, <2>1
<1>8. RowsOK(new) /\ AsRows(new) = AsRows(rows) \cup {[id |-> row.id, v |-> row.v]}
  BY <1>1, <1>6, <1>7, WithRow
<1>9. row = [id |-> row.id, v |-> row.v]
  BY <1>1
<1>10. AsRows(new) = Untouched(i + 1) \cup Updated(i + 1) \cup Inserted(i + 1)
  <2>1. AsRows(new) = AsRows(rows) \cup {row}
    BY <1>8, <1>9
  <2> QED
    BY <2>1, <1>4, <1>5, <1>6
<1>11. ASSUME NEW p \in DOMAIN table, ~Done(p, i + 1), NEW r \in Updated(i + 1) \cup Inserted(i + 1)
       PROVE  r.id # p
  <2>1. ~Done(p, i)
    BY <1>3, <1>11
  <2>2. p \in DOMAIN rows
    BY <2>1, UntouchedThere
  <2>3. CASE r \in Updated(i) \cup Inserted(i)
    BY <2>1, <2>3 DEF Ledger
  <2>4. CASE r = row
    BY <2>2, <2>4, <1>7
  <2> QED
    BY <2>3, <2>4, <1>4, <1>5, <1>11
<1>12. Ledger(i + 1, new)
  BY <1>8, <1>10, <1>11 DEF Ledger
<1> HIDE DEF new
<1> QED
  BY <1>7, <1>12

(* What the change at a position renders to.                               *)
LEMMA StatementOf ==
  ASSUME ChangesetInv, NEW i \in DOMAIN ops
  PROVE  LET c == ops[i]
             cells == {d \in {ops[j] : j \in DOMAIN ops} : CellsOf(d, c.pk)}
             first == \A j \in 1..(i - 1) : ~CellsOf(ops[j], c.pk)
         IN /\ c.kind = "cell" /\ first => StatementsAt(i) = <<MultiUpdate(c.pk, cells)>>
            /\ c.kind = "cell" /\ ~first => StatementsAt(i) = <<>>
            /\ c.kind = "del" => StatementsAt(i) = <<Delete(c.pk)>>
            /\ c.kind = "ins" => StatementsAt(i) = <<Insert(c.row)>>
            /\ c.kind = "schema" => StatementsAt(i) = <<DDL(c.change)>>
<1>1. ops[i].kind = "cell" => ~(\E j \in DOMAIN ops : ops[j] = RowDelete(ops[i].pk))
  BY EachChange
<1> QED
  BY <1>1 DEF StatementsAt

(* One more change keeps the ledger, unless a statement failed.            *)
LEMMA LedgerStep ==
  ASSUME ChangesetInv, NEW i \in Nat, i + 1 \in DOMAIN ops, NEW rows, Ledger(i, rows)
  PROVE  LET db == [ok |-> TRUE, rows |-> rows]
             st == StatementsAt(i + 1)
             after == IF st = <<>> THEN db ELSE Execute(db, st[1])
         IN after.ok => after = [ok |-> TRUE, rows |-> after.rows] /\ Ledger(i + 1, after.rows)
<1> DEFINE c == ops[i + 1]
           db == [ok |-> TRUE, rows |-> rows]
           st == StatementsAt(i + 1)
           after == IF st = <<>> THEN db ELSE Execute(db, st[1])
           cells == {d \in {ops[j] : j \in DOMAIN ops} : CellsOf(d, c.pk)}
           Kept == after.ok => after = [ok |-> TRUE, rows |-> after.rows] /\ Ledger(i + 1, after.rows)
<1>1. c \in AllChanges(nextID)
  BY EachChange, ElementOfSeq
<1>2. ASSUME after = db, Ledger(i + 1, rows) PROVE Kept
  <2> HIDE DEF after
  <2> QED
    BY <1>2
<1>3. ASSUME NEW s, st = <<s>> PROVE after = Execute(db, s)
  <2>1. st # <<>> /\ st[1] = s
    BY <1>3
  <2> HIDE DEF st
  <2> QED
    BY <2>1
<1>4. CASE c.kind = "cell"
  <2>1. Done(c.pk, i) <=> \E j \in 1..i : CellsOf(ops[j], c.pk)
    <3>1. \A j \in 1..i : j \in DOMAIN ops
      BY EachChange
    <3>2. RowDelete(c.pk) \notin Held(Set)
      BY <1>4, EachChange
    <3>3. \A j \in 1..i : ops[j] # RowDelete(c.pk)
      BY <3>1, <3>2, EachChange
    <3> QED
      BY <3>3 DEF Done
  <2>2. (i + 1) - 1 = i
    OBVIOUS
  <2>3. CASE ~Done(c.pk, i)
    <3>1. st = <<MultiUpdate(c.pk, cells)>>
      BY <1>4, <2>1, <2>2, <2>3, StatementOf
    <3> DEFINE s == MultiUpdate(c.pk, cells)
               did == Execute(db, s)
    <3>2. after = did
      BY <1>3, <3>1
    <3>3. did.ok => did = [ok |-> TRUE, rows |-> did.rows] /\ Ledger(i + 1, did.rows)
      BY <1>4, <2>3, UpdateStep, Zenon
    <3> HIDE DEF did, after
    <3> QED
      BY <3>2, <3>3 DEF after
  <2>4. CASE Done(c.pk, i)
    <3>1. st = <<>>
      BY <1>4, <2>1, <2>2, <2>4, StatementOf
    <3>2. \A p \in DOMAIN table : Done(p, i + 1) <=> Done(p, i)
      <4>1. \A p : c # RowDelete(p)
        BY <1>4, KindsDiffer
      <4>2. \A p : CellsOf(c, p) => p = c.pk
        BY DEF CellsOf
      <4> QED
        BY <2>4, <4>1, <4>2, DoneNext
    <3>3. Ledger(i + 1, rows)
      BY <1>4, <3>2, LedgerSame
    <3> QED
      BY <1>2, <3>1, <3>3
  <2> QED
    BY <2>3, <2>4
<1>5. CASE c.kind = "del"
  <2> DEFINE did == Execute(db, Delete(c.pk))
  <2>1. st = <<Delete(c.pk)>>
    BY <1>5, StatementOf
  <2>2. after = did
    BY <1>3, <2>1
  <2>3. did = [ok |-> TRUE, rows |-> did.rows] /\ Ledger(i + 1, did.rows)
    BY <1>5, DeleteStep, Zenon
  <2> HIDE DEF did, after
  <2> QED
    BY <2>2, <2>3 DEF after
<1>6. CASE c.kind = "ins"
  <2> DEFINE did == Execute(db, Insert(c.row))
  <2>1. st = <<Insert(c.row)>>
    BY <1>6, StatementOf
  <2>2. after = did
    BY <1>3, <2>1
  <2>3. did.ok => did = [ok |-> TRUE, rows |-> did.rows] /\ Ledger(i + 1, did.rows)
    BY <1>6, InsertStep, Zenon
  <2> HIDE DEF did, after
  <2> QED
    BY <2>2, <2>3 DEF after
<1>7. CASE c.kind = "schema"
  <2>1. st = <<DDL(c.change)>>
    BY <1>7, StatementOf
  <2>2. Execute(db, DDL(c.change)) = db
    BY DEF Execute, DDL
  <2>3. after = db
    BY <1>3, <2>1, <2>2
  <2>4. \A p : ~CellsOf(c, p) /\ c # RowDelete(p)
    BY <1>7, KindsDiffer DEF CellsOf
  <2>5. \A p \in DOMAIN table : Done(p, i + 1) <=> Done(p, i)
    BY <2>4, DoneNext
  <2>6. Ledger(i + 1, rows)
    BY <1>7, <2>5, LedgerSame
  <2> QED
    BY <1>2, <2>3, <2>6
<1>8. Kept
  BY <1>1, <1>4, <1>5, <1>6, <1>7, ChangeKinds
<1> QED
  BY <1>8, Zenon

(* A commit whose statements all succeed ends with the whole ledger.       *)
LEMMA CommitLedger ==
  ASSUME ChangesetInv, ExecTx(Statements).ok
  PROVE  Ledger(Len(ops), ExecTx(Statements).rows)
<1> DEFINE N == Len(ops)
           w == Executed(Statements)
           Good(i) == w[i].ok => w[i] = [ok |-> TRUE, rows |-> w[i].rows] /\ Ledger(i, w[i].rows)
           S == {i \in Nat : i <= N => Good(i)}
<1>0. N \in Nat /\ DOMAIN ops = 1..N
  BY EachChange
<1>1. Len(Statements) = N /\ \A i \in 1..N : Statements[i] = StatementsAt(i)
  <2>1. Statements \in [1..N -> {StatementsAt(i) : i \in 1..N}]
    BY <1>0 DEF Statements
  <2>2. Statements \in Seq({StatementsAt(i) : i \in 1..N}) /\ DOMAIN Statements = 1..N
    BY <1>0, <2>1
  <2>3. Len(Statements) = N
    BY <1>0, <2>2
  <2> QED
    BY <1>0, <2>3 DEF Statements
<1>2. /\ w[0] = [ok |-> TRUE, rows |-> table]
      /\ \A i \in 1..N : w[i] = IF StatementsAt(i) = <<>> THEN w[i - 1]
                                 ELSE Execute(w[i - 1], StatementsAt(i)[1])
  <2>1. Len(Statements) \in Nat
    BY <1>0, <1>1
  <2>2. /\ w[0] = [ok |-> TRUE, rows |-> table]
        /\ \A i \in 1..N : w[i] = IF Statements[i] = <<>> THEN w[i - 1]
                                   ELSE Execute(w[i - 1], Statements[i][1])
    BY <1>1, <2>1, ExecutedFacts
  <2> HIDE DEF w
  <2> QED
    BY <1>1, <2>2
<1> HIDE DEF w
<1>3. 0 \in S
  <2>1. w[0].rows = table
    BY <1>2
  <2>2. Good(0)
    BY <1>2, <2>1, LedgerStart
  <2> QED
    BY <2>2
<1>4. ASSUME NEW i \in Nat, i \in S PROVE i + 1 \in S
  <2> SUFFICES ASSUME i + 1 <= N PROVE Good(i + 1)
    OBVIOUS
  <2> SUFFICES ASSUME w[i + 1].ok
               PROVE  w[i + 1] = [ok |-> TRUE, rows |-> w[i + 1].rows] /\ Ledger(i + 1, w[i + 1].rows)
    OBVIOUS
  <2>1. i + 1 \in 1..N /\ (i + 1) - 1 = i /\ i <= N
    BY <1>0
  <2> DEFINE st == StatementsAt(i + 1)
             db == w[i]
  <2>2. w[i + 1] = IF st = <<>> THEN db ELSE Execute(db, st[1])
    BY <1>2, <2>1
  <2>3. w[i].ok
    <3> SUFFICES ASSUME ~w[i].ok PROVE FALSE
      OBVIOUS
    <3> DEFINE s == st[1]
    <3>1. Execute(db, s) = db
      <4> HIDE DEF s, db
      <4>1. ~db.ok
        BY DEF db
      <4> QED
        BY <4>1 DEF Execute
    <3>2. w[i + 1] = w[i]
      BY <2>2, <3>1
    <3> QED
      BY <3>2
  <2>4. Good(i)
    BY <1>4, <2>1
  <2>5. db = [ok |-> TRUE, rows |-> w[i].rows] /\ Ledger(i, w[i].rows)
    BY <2>3, <2>4
  <2> DEFINE rows == w[i].rows
             from == [ok |-> TRUE, rows |-> rows]
             after == IF st = <<>> THEN from ELSE Execute(from, st[1])
  <2>6. w[i + 1] = after
    <3> HIDE DEF st
    <3>1. db = from
      BY <2>5
    <3> QED
      BY <2>2, <3>1
  <2>7. Ledger(i, rows) /\ i + 1 \in DOMAIN ops
    BY <1>0, <2>1, <2>5
  <2> HIDE DEF rows, db
  <2>8. after.ok => after = [ok |-> TRUE, rows |-> after.rows] /\ Ledger(i + 1, after.rows)
    BY <2>7, LedgerStep, Zenon
  <2> HIDE DEF after
  <2> QED
    BY <2>6, <2>8
<1>5. N \in S
  <2> HIDE DEF S
  <2> QED
    BY <1>0, <1>3, <1>4, SetInduction
<1>6. ExecTx(Statements) = w[N]
  BY <1>1 DEF ExecTx, w
<1> QED
  BY <1>0, <1>5, <1>6

(* The invariant says a commit leaves what the grid previewed.             *)
LEMMA PreviewCommitted ==
  ASSUME ChangesetInv
  PROVE  CommitMatchesPreview
<1> DEFINE N == Len(ops)
           rows == ExecTx(Statements).rows
<1> SUFFICES ASSUME ExecTx(Statements).ok PROVE PreviewRows = AsRows(rows)
  BY DEF CommitMatchesPreview, AsRows
<1>1. AsRows(rows) = Untouched(N) \cup Updated(N) \cup Inserted(N)
  BY CommitLedger DEF Ledger
<1>2. /\ Sound(Set, AllChanges(nextID)) /\ DOMAIN Set.index = DOMAIN index
      /\ Held(Set) = {ops[j] : j \in DOMAIN ops} /\ DOMAIN ops = 1..N
  BY EachChange DEF ChangesetInv, Set
<1>3. \A p : DeleteStaged(Set, p) <=> RowDelete(p) \in Held(Set)
  BY <1>2, DeleteHeld
<1>4. Held(Set) \subseteq AllChanges(nextID)
  BY <1>2, ElementOfSeq DEF Sound, Held
<1>5. ASSUME NEW p \in DOMAIN table, ~Done(p, N)
      PROVE  RowDelete(p) \notin Held(Set) /\ ShownRow(p) = [id |-> p, v |-> table[p]]
  <2>1. \A d \in Held(Set) : ~CellsOf(d, p) /\ d # RowDelete(p)
    BY <1>2, <1>5 DEF Done
  <2>2. ASSUME NEW col PROVE <<"cell", p, col>> \notin DOMAIN index
    <3>1. \A d \in Held(Set) : key(d) # <<"cell", p, col>>
      BY <1>4, <2>1, KeyTells DEF CellsOf
    <3> QED
      BY <1>2, <3>1, KeysHeld, Zenon
  <2>3. Shown(p, "id") = p /\ Shown(p, "v") = table[p]
    BY <2>2 DEF Shown, Value
  <2> QED
    BY <2>1, <2>3 DEF ShownRow
<1>6. {ShownRow(p) : p \in {q \in DOMAIN table : ~DeleteStaged(Set, q)}} =
        Untouched(N) \cup Updated(N)
  <2> DEFINE Live == {q \in DOMAIN table : ~DeleteStaged(Set, q)}
  <2>1. Untouched(N) = {ShownRow(p) : p \in {q \in DOMAIN table : ~Done(q, N)}}
    BY <1>5 DEF Untouched
  <2>2. Live = {q \in DOMAIN table : ~Done(q, N)}
                 \cup {q \in DOMAIN table : Done(q, N) /\ RowDelete(q) \notin Held(Set)}
    BY <1>3, <1>5
  <2> HIDE DEF Live
  <2>3. {ShownRow(p) : p \in Live} = Untouched(N) \cup Updated(N)
    BY <2>1, <2>2 DEF Updated
  <2> QED
    BY <2>3 DEF Live
<1>7. {ops[i].row : i \in {j \in DOMAIN ops : ops[j].kind = "ins"}} = Inserted(N)
  BY <1>2 DEF Inserted
<1>8. PreviewRows = {ShownRow(p) : p \in {q \in DOMAIN table : ~DeleteStaged(Set, q)}}
                      \cup {ops[i].row : i \in {j \in DOMAIN ops : ops[j].kind = "ins"}}
  BY DEF PreviewRows, ShownRow
<1> QED
  BY <1>1, <1>6, <1>7, <1>8

(* Emptying the list keeps the invariant, whatever rows it leaves.         *)
LEMMA EmptyKeepsInv ==
  ASSUME ChangesetInv, Stepped, nextID' = nextID, ops' = <<>>, index' = <<>>, TableOK'
  PROVE  ChangesetInv'
<1>1. steps' \in 0..MaxSteps /\ nextID' <= steps' /\ nextID' \in Nat
  BY ChangesetAssumption DEF ChangesetInv, Stepped
<1>2. Held(Set)' = {}
  BY DEF Held, Set
<1>3. Sound(Set, AllChanges(nextID))'
  BY DEF Sound, Set
<1>4. Standing(Set)'
  BY <1>2 DEF Standing
<1> QED
  BY <1>1, <1>3, <1>4 DEF ChangesetInv

(* A commit keeps the invariant: the rows it leaves are rows.              *)
LEMMA CommitKeepsInv ==
  ASSUME ChangesetInv, Commit
  PROVE  ChangesetInv'
<1> DEFINE db == ExecTx(Statements)
<1>1. Stepped /\ nextID' = nextID
  BY DEF Commit
<1>2. CASE db.ok
  <2>1. table' = db.rows /\ ops' = <<>> /\ index' = <<>>
    BY <1>2 DEF Commit
  <2>2. RowsOK(db.rows)
    BY <1>2, CommitLedger DEF Ledger
  <2>3. TableOK'
    BY <2>1, <2>2 DEF TableOK, RowsOK
  <2> QED
    BY <1>1, <2>1, <2>3, EmptyKeepsInv
<1>3. CASE ~db.ok
  <2>1. UNCHANGED <<table, ops, index>>
    BY <1>3 DEF Commit
  <2>2. steps' \in 0..MaxSteps /\ nextID' <= steps'
    BY <1>1, ChangesetAssumption DEF ChangesetInv, Stepped
  <2>3. Sound(Set, AllChanges(nextID))' /\ Standing(Set)' /\ TableOK'
    BY <1>1, <2>1 DEF Sound, Standing, EditStands, Value, Held, Set, TableOK, RowsOK, ChangesetInv
  <2> QED
    BY <1>1, <2>2, <2>3 DEF ChangesetInv
<1> QED
  BY <1>2, <1>3

(* Every step keeps the invariant.                                         *)
LEMMA ChangesetStep ==
  ASSUME ChangesetInv, [ChangesetNext]_changesetVars
  PROVE  ChangesetInv'
<1>1. CASE EditAny
  <2>1. PICK selected \in SUBSET DOMAIN table :
          \E cursor \in selected, col \in Columns :
            \E new \in ValuesOf(col) : Edit(cursor, selected, col, new)
    BY <1>1 DEF EditAny
  <2>2. PICK cursor \in selected, col \in Columns :
          \E new \in ValuesOf(col) : Edit(cursor, selected, col, new)
    BY <2>1
  <2> QED
    BY <2>2, EditKeepsInv
<1>2. CASE \E pk \in DOMAIN table : DeleteRow(pk)
  BY <1>2, DeleteRowKeepsInv
<1>3. CASE \E id \in Keys, v \in Vals : InsertRow([id |-> id, v |-> v])
  BY <1>3, InsertRowKeepsInv
<1>4. CASE \E id \in 1..nextID : UnstageInsert(id)
  BY <1>4, UnstageKeepsInv DEF UnstageInsert
<1>5. CASE \E pk \in DOMAIN table, col \in Columns : UnstageAtCursor(pk, col)
  <2>1. PICK pk \in DOMAIN table, col \in Columns : UnstageAtCursor(pk, col)
    BY <1>5
  <2>2. CASE DeleteStaged(Set, pk)
    BY <2>1, <2>2, UnstageKeepsInv DEF UnstageAtCursor
  <2>3. CASE ~DeleteStaged(Set, pk)
    BY <2>1, <2>3, UnstageKeepsInv DEF UnstageAtCursor
  <2> QED
    BY <2>2, <2>3
<1>6. CASE \E s \in Schemas : StageSchema(s) \/ UnstageSchema(s)
  <2>1. PICK s \in Schemas : StageSchema(s) \/ UnstageSchema(s)
    BY <1>6
  <2>2. CASE StageSchema(s)
    BY <2>2, StageSchemaKeepsInv
  <2>3. CASE UnstageSchema(s)
    BY <2>3, UnstageKeepsInv DEF UnstageSchema
  <2> QED
    BY <2>1, <2>2, <2>3
<1>7. CASE Clear
  <2>1. TableOK'
    BY <1>7 DEF Clear, TableOK, RowsOK, ChangesetInv
  <2> QED
    BY <1>7, <2>1, EmptyKeepsInv DEF Clear
<1>8. CASE Commit
  BY <1>8, CommitKeepsInv
<1>9. CASE UNCHANGED changesetVars
  BY <1>9 DEF changesetVars, ChangesetInv, Sound, Standing, EditStands, Value, Held, Set,
              TableOK, RowsOK
<1> QED
  BY <1>1, <1>2, <1>3, <1>4, <1>5, <1>6, <1>7, <1>8, <1>9 DEF ChangesetNext

(* The invariant holds in every reachable state.                           *)
THEOREM ChangesetInvariant == ChangesetSpec => []ChangesetInv
<1>1. ChangesetInit => ChangesetInv
  BY ChangesetInitInv
<1>2. ChangesetInv /\ [ChangesetNext]_changesetVars => ChangesetInv'
  BY ChangesetStep
<1> QED
  BY <1>1, <1>2, PTL DEF ChangesetSpec

(* Through any sequence of staging, replacing, unstaging and committing    *)
(* the index finds every staged change and nothing else (changeset.go      *)
(* stage, removeAt).                                                       *)
THEOREM IndexIsSound == ChangesetSpec => []IndexSound
<1>1. ChangesetInv => IndexSound
  BY ChangesetInvFacts
<1> QED
  BY <1>1, ChangesetInvariant, PTL

(* No row is both edited and staged for deletion, and no staged edit       *)
(* leaves its cell as the database has it (changeset.go StageDelete,       *)
(* Stage; edit.go stageChange, stageValue).                                *)
THEOREM EditsAlwaysStand == ChangesetSpec => []EditsStand
<1>1. ChangesetInv => EditsStand
  BY ChangesetInvFacts
<1> QED
  BY <1>1, ChangesetInvariant, PTL

(* The statements of a commit, run in order, either fail or leave exactly  *)
(* the rows the grid previewed, for any number of rows, keys and changes   *)
(* (changeset.go Statements).                                              *)
THEOREM CommitAsPreviewed == ChangesetSpec => []CommitMatchesPreview
<1>1. ChangesetInv => CommitMatchesPreview
  BY PreviewCommitted
<1> QED
  BY <1>1, ChangesetInvariant, PTL

-----------------------------------------------------------------------------
(* StagedCommit.                                                           *)

-----------------------------------------------------------------------------
(* The inductive invariant. The properties speak of what was applied; what *)
(* makes them true is what is still under way: the modal that captured     *)
(* changes, the commits executing and the replies not reduced yet.         *)

Unapplied(cs) == \A c \in cs, s \in Sessions : applied[c][s] = 0

\* The confirmation of a dial was asked for below the bound.
DialInv ==
  /\ dials <= dialed /\ dialed <= MaxDials
  /\ modal.kind = "connect" => dialed < MaxDials

\* Whatever is staged, captured, executing or applied was staged for a driver.
StagingInv ==
  /\ modal.kind = "edit" => modal.over # None
  /\ modal.kind = "commit" => live # None /\ tx = "none"
  /\ modal.kind # "commit" => modal.changes = {}
  /\ \A c \in staged \cup modal.changes : home[c] # None
  /\ \A x \in flights \cup replies : x.driver # None /\ \A c \in x.changes : home[c] # None
  /\ \A c \in Changes, s \in Sessions : applied[c][s] > 0 => home[c] # None
  /\ \A r \in replies : r.ok => \A c \in r.changes : applied[c][r.driver] > 0

\* Who awaits his dials has no modal open while one is in flight, so what a
\* modal captured belongs to the live driver.
HomeInv ==
  "dial" \notin risks =>
    /\ dials <= 1
    /\ modal.kind # "none" => dials = 0
    /\ modal.kind \in {"edit", "commit"} => modal.over = live
    /\ \A c \in staged \cup modal.changes : home[c] = live
    /\ \A f \in flights : \A c \in f.changes : home[c] = f.driver
    /\ \A c \in Changes, s \in Sessions : applied[c][s] > 0 => home[c] = s

\* Who awaits his commits has one under way at most, nothing is staged
\* beside what it carries, and the editor has no transaction.
AwaitInv ==
  "commit" \notin risks =>
    /\ flights \cup replies # {} => modal.kind \in {"none", "info"}
    /\ \A x, y \in flights : x = y
    /\ \A x, y \in replies : x = y
    /\ flights = {} \/ replies = {}
    /\ \A x \in flights \cup replies : staged \subseteq x.changes
    /\ modal.kind = "commit" => staged \subseteq modal.changes
    /\ flights # {} => tx = "none"
    /\ \A c \in Changes : gone[c] = "committed" => \E s \in Sessions : applied[c][s] > 0

\* Then nothing that is still to be committed was applied before.
OnceInv ==
  risks \cap {"commit", "lost"} = {} =>
    /\ Unapplied(modal.changes)
    /\ \A f \in flights : Unapplied(f.changes)
    /\ \A r \in replies : ~r.ok => Unapplied(r.changes)
    /\ replies = {} => Unapplied(staged)
    /\ ~told.ok /\ flights \cup replies = {} => Unapplied(told.changes)
    /\ \A c \in Changes, s \in Sessions : applied[c][s] <= 1
    /\ \A c \in Changes, s, t \in Sessions : applied[c][s] > 0 /\ applied[c][t] > 0 => s = t

StagedInv ==
  StagedTypeOK /\ DialInv /\ StagingInv /\ HomeInv /\ AwaitInv /\ OnceInv
-----------------------------------------------------------------------------
(* What a key and an execution do.                                         *)

\* A key reaches the grid under no modal, and remembers what is in flight.
LEMMA KeyAwaits ==
  ASSUME StagedTypeOK, Key
  PROVE  /\ modal = NoModal
         /\ risks' \subseteq {"dial", "commit", "lost"}
         /\ ("lost" \in risks') <=> ("lost" \in risks)
         /\ "dial" \notin risks' => "dial" \notin risks /\ dials = 0
         /\ "commit" \notin risks' => "commit" \notin risks /\ flights = {} /\ replies = {}
<1>1. /\ Unawaited \subseteq {"dial", "commit"}
      /\ dials > 0 => "dial" \in Unawaited
      /\ flights \cup replies # {} => "commit" \in Unawaited
  BY DEF Unawaited
<1>2. dials \in Nat
  BY StagedAssumption DEF StagedTypeOK
<1> QED
  BY <1>1, <1>2 DEF StagedTypeOK, Key

\* An execution applies all of its changes or none, and says so unless its
\* answer is lost.
LEMMA ExecOutcome ==
  ASSUME StagedInv, NEW f \in flights, ExecOn(f)
  PROVE  \E done, ok \in BOOLEAN :
           /\ ok => done
           /\ risks' = IF done /\ ~ok THEN risks \cup {"lost"} ELSE risks
           /\ replies' = replies \cup {Reply(f, ok)}
           /\ applied' \in [Changes -> [Sessions -> Nat]]
           /\ \A c \in Changes, s \in Sessions :
                applied'[c][s] = IF done /\ c \in f.changes /\ s = f.driver THEN applied[c][s] + 1
                                 ELSE applied[c][s]
<1> USE DEF StagedInv, StagedTypeOK
<1>1. applied \in [Changes -> [Sessions -> Nat]] /\ f.driver \in Sessions
  BY DEF StagingInv, Flights
<1>2. CASE /\ Apply(f.changes, f.driver)
           /\ \/ replies' = replies \cup {Reply(f, TRUE)} /\ risks' = risks
              \/ replies' = replies \cup {Reply(f, FALSE)} /\ risks' = risks \cup {"lost"}
  <2>1. /\ applied' \in [Changes -> [Sessions -> Nat]]
        /\ \A c \in Changes, s \in Sessions :
             applied'[c][s] = IF c \in f.changes /\ s = f.driver THEN applied[c][s] + 1 ELSE applied[c][s]
    BY <1>1, <1>2 DEF Apply
  <2> QED
    BY <1>2, <2>1
<1>3. CASE Apply({}, f.driver) /\ replies' = replies \cup {Reply(f, FALSE)} /\ risks' = risks
  <2>1. applied' = applied
    BY <1>1, <1>3 DEF Apply
  <2> QED
    BY <1>1, <1>3, <2>1
<1> QED
  BY <1>2, <1>3 DEF ExecOn, LeavesApplied

-----------------------------------------------------------------------------
(* Every step keeps every part of the invariant.                           *)

\* A step keeps the dials counted.
LEMMA DialKept ==
  ASSUME StagedInv, [StagedNext]_stagedVars
  PROVE  DialInv'
<1> USE StagedAssumption DEF StagedInv, StagedTypeOK, DialInv
<1>1. ASSUME NEW c \in Changes, StageNow(c) PROVE DialInv'
  BY <1>1, KeyAwaits DEF StageNow, Editable, NoModal, stageOn, New, conns, commit
<1>2. ASSUME NEW c \in Changes, ConfirmEdit(c) PROVE DialInv'
  BY <1>2 DEF ConfirmEdit, stageOn, New, NoModal, conns, commit
<1>3. ASSUME NEW c \in Changes, Unstage(c) PROVE DialInv'
  BY <1>3, KeyAwaits DEF Unstage, NoModal, Leaves, conns, commit
<1>4. CASE OpenEdit
  BY <1>4, KeyAwaits DEF OpenEdit, Editable, NoModal, Modal, conns, changes, commit
<1>5. CASE confirmDiscard
  BY <1>5, KeyAwaits DEF confirmDiscard, NoModal, Modal, conns, changes, commit
<1>6. CASE ConfirmDiscard
  BY <1>6 DEF ConfirmDiscard, Leaves, NoModal, conns, commit
<1>7. CASE openCommitModal
  BY <1>7, KeyAwaits DEF openCommitModal, NoModal, Modal, refuseWithTx, conns, changes, commit
<1>8. CASE ConfirmCommit
  BY <1>8 DEF ConfirmCommit, NoModal, conns, changes
<1>9. ASSUME NEW f \in flights, ExecOn(f) PROVE DialInv'
  BY <1>9 DEF ExecOn, Reply, Apply, LeavesApplied, MayExec, conns, changes
<1>10. ASSUME NEW r \in replies, changesCommitted(r) PROVE DialInv'
  BY <1>10 DEF changesCommitted, Succeeded, Failed, Leaves, conns, changes
<1>11. CASE Dial
  BY <1>11, KeyAwaits DEF Dial, NoModal, Modal, changes, commit
<1>12. CASE ConfirmConnect
  BY <1>12 DEF ConfirmConnect, NoModal, changes, commit
<1>13. CASE ConnectFailed
  BY <1>13 DEF ConnectFailed, Modal, changes, commit
<1>14. CASE Disconnect
  BY <1>14, KeyAwaits DEF Disconnect, NoModal, Modal, resetBrowse, Leaves, changes, commit
<1>15. CASE ConfirmDisconnect
  BY <1>15 DEF ConfirmDisconnect, NoModal, resetBrowse, Leaves, commit
<1>16. ASSUME NEW s \in Sessions, Connected(s) PROVE DialInv'
  BY <1>16 DEF Connected, resetBrowse, Leaves, commit
<1>17. CASE beginTx
  BY <1>17, KeyAwaits DEF beginTx, NoModal, conns, changes, commit
<1>18. CASE applyTxBegun
  BY <1>18 DEF applyTxBegun, conns, changes, commit
<1>19. CASE TxEnds
  BY <1>19 DEF TxEnds, conns, changes, commit
<1>20. CASE Dismiss
  BY <1>20 DEF Dismiss, NoModal, conns, changes, commit
<1>21. CASE UNCHANGED stagedVars
  BY <1>21 DEF stagedVars
<1> QED
  BY <1>1, <1>2, <1>3, <1>4, <1>5, <1>6, <1>7, <1>8, <1>9, <1>10, <1>11, <1>12, <1>13, <1>14, <1>15,
     <1>16, <1>17, <1>18, <1>19, <1>20, <1>21 DEF StagedNext

\* A step keeps what is under way staged for a driver.
LEMMA StagingKept ==
  ASSUME StagedInv, [StagedNext]_stagedVars
  PROVE  StagingInv'
<1> USE StagedAssumption DEF StagedInv, StagedTypeOK, StagingInv
<1>1. ASSUME NEW c \in Changes, StageNow(c) PROVE StagingInv'
  BY <1>1, KeyAwaits DEF StageNow, Editable, NoModal, stageOn, New, conns, commit
<1>2. ASSUME NEW c \in Changes, ConfirmEdit(c) PROVE StagingInv'
  BY <1>2 DEF ConfirmEdit, stageOn, New, NoModal, conns, commit
<1>3. ASSUME NEW c \in Changes, Unstage(c) PROVE StagingInv'
  BY <1>3, KeyAwaits DEF Unstage, NoModal, Leaves, conns, commit
<1>4. CASE OpenEdit
  BY <1>4, KeyAwaits DEF OpenEdit, Editable, NoModal, Modal, conns, changes, commit
<1>5. CASE confirmDiscard
  BY <1>5, KeyAwaits DEF confirmDiscard, NoModal, Modal, conns, changes, commit
<1>6. CASE ConfirmDiscard
  BY <1>6 DEF ConfirmDiscard, Leaves, NoModal, conns, commit
<1>7. CASE openCommitModal
  BY <1>7, KeyAwaits DEF openCommitModal, NoModal, Modal, refuseWithTx, conns, changes, commit
<1>8. CASE ConfirmCommit
  BY <1>8 DEF ConfirmCommit, NoModal, conns, changes
<1>9. ASSUME NEW f \in flights, ExecOn(f)
      PROVE  StagingInv'
  <2>1. PICK done, ok \in BOOLEAN :
          /\ ok => done
          /\ risks' = IF done /\ ~ok THEN risks \cup {"lost"} ELSE risks
          /\ replies' = replies \cup {Reply(f, ok)}
          /\ applied' \in [Changes -> [Sessions -> Nat]]
          /\ \A c \in Changes, s \in Sessions :
               applied'[c][s] = IF done /\ c \in f.changes /\ s = f.driver THEN applied[c][s] + 1
                                ELSE applied[c][s]
    BY <1>9, ExecOutcome
  <2>2. /\ UNCHANGED <<modal, live, tx, staged, home>> /\ flights' = flights \ {f}
        /\ f.driver \in Sessions /\ f.changes \subseteq Changes
    BY <1>9 DEF ExecOn, conns, changes, StagingInv, Flights
  <2>3. \A x \in flights' \cup replies' : x.driver # None /\ \A c \in x.changes : home'[c] # None
    BY <2>1, <2>2 DEF Reply
  <2>4. \A c \in Changes, s \in Sessions : applied'[c][s] > 0 => home'[c] # None
    BY <2>1, <2>2
  <2>5. ASSUME NEW r \in replies', r.ok, NEW c \in r.changes
        PROVE  applied'[c][r.driver] > 0
    <3>1. CASE r \in replies
      <4>1. c \in Changes /\ r.driver \in Sessions /\ applied[c][r.driver] > 0
        BY <2>5, <3>1 DEF CommitReplies
      <4> QED
        BY <2>1, <4>1
    <3>2. CASE r = Reply(f, ok)
      BY <2>1, <2>2, <2>5, <3>2 DEF Reply
    <3> QED
      BY <2>1, <2>5, <3>1, <3>2
  <2> QED
    BY <2>2, <2>3, <2>4, <2>5
<1>10. ASSUME NEW r \in replies, changesCommitted(r) PROVE StagingInv'
  BY <1>10 DEF changesCommitted, Succeeded, Failed, Leaves, conns, changes
<1>11. CASE Dial
  BY <1>11, KeyAwaits DEF Dial, NoModal, Modal, changes, commit
<1>12. CASE ConfirmConnect
  BY <1>12 DEF ConfirmConnect, NoModal, changes, commit
<1>13. CASE ConnectFailed
  BY <1>13 DEF ConnectFailed, Modal, changes, commit
<1>14. CASE Disconnect
  BY <1>14, KeyAwaits DEF Disconnect, NoModal, Modal, resetBrowse, Leaves, changes, commit
<1>15. CASE ConfirmDisconnect
  BY <1>15 DEF ConfirmDisconnect, NoModal, resetBrowse, Leaves, commit
<1>16. ASSUME NEW s \in Sessions, Connected(s) PROVE StagingInv'
  BY <1>16 DEF Connected, resetBrowse, Leaves, commit
<1>17. CASE beginTx
  BY <1>17, KeyAwaits DEF beginTx, NoModal, conns, changes, commit
<1>18. CASE applyTxBegun
  BY <1>18 DEF applyTxBegun, conns, changes, commit
<1>19. CASE TxEnds
  BY <1>19 DEF TxEnds, conns, changes, commit
<1>20. CASE Dismiss
  BY <1>20 DEF Dismiss, NoModal, conns, changes, commit
<1>21. CASE UNCHANGED stagedVars
  BY <1>21 DEF stagedVars
<1> QED
  BY <1>1, <1>2, <1>3, <1>4, <1>5, <1>6, <1>7, <1>8, <1>9, <1>10, <1>11, <1>12, <1>13, <1>14, <1>15,
     <1>16, <1>17, <1>18, <1>19, <1>20, <1>21 DEF StagedNext

\* A step keeps what is under way on the driver it was staged for.
LEMMA HomeKept ==
  ASSUME StagedInv, [StagedNext]_stagedVars
  PROVE  HomeInv'
<1> USE StagedAssumption DEF StagedInv, StagedTypeOK, HomeInv, StagingInv
<1>1. ASSUME NEW c \in Changes, StageNow(c) PROVE HomeInv'
  BY <1>1, KeyAwaits DEF StageNow, Editable, NoModal, stageOn, New, conns, commit
<1>2. ASSUME NEW c \in Changes, ConfirmEdit(c) PROVE HomeInv'
  BY <1>2 DEF ConfirmEdit, stageOn, New, NoModal, conns, commit
<1>3. ASSUME NEW c \in Changes, Unstage(c) PROVE HomeInv'
  BY <1>3, KeyAwaits DEF Unstage, NoModal, Leaves, conns, commit
<1>4. CASE OpenEdit
  BY <1>4, KeyAwaits DEF OpenEdit, Editable, NoModal, Modal, conns, changes, commit
<1>5. CASE confirmDiscard
  BY <1>5, KeyAwaits DEF confirmDiscard, NoModal, Modal, conns, changes, commit
<1>6. CASE ConfirmDiscard
  BY <1>6 DEF ConfirmDiscard, Leaves, NoModal, conns, commit
<1>7. CASE openCommitModal
  BY <1>7, KeyAwaits DEF openCommitModal, NoModal, Modal, refuseWithTx, conns, changes, commit
<1>8. CASE ConfirmCommit
  BY <1>8 DEF ConfirmCommit, NoModal, conns, changes
<1>9. ASSUME NEW f \in flights, ExecOn(f)
      PROVE  HomeInv'
  <2>1. PICK done, ok \in BOOLEAN :
          /\ ok => done
          /\ risks' = IF done /\ ~ok THEN risks \cup {"lost"} ELSE risks
          /\ replies' = replies \cup {Reply(f, ok)}
          /\ applied' \in [Changes -> [Sessions -> Nat]]
          /\ \A c \in Changes, s \in Sessions :
               applied'[c][s] = IF done /\ c \in f.changes /\ s = f.driver THEN applied[c][s] + 1
                                ELSE applied[c][s]
    BY <1>9, ExecOutcome
  <2> QED
    BY <1>9, <2>1 DEF ExecOn, Reply, conns, changes
<1>10. ASSUME NEW r \in replies, changesCommitted(r) PROVE HomeInv'
  BY <1>10 DEF changesCommitted, Succeeded, Failed, Leaves, conns, changes
<1>11. CASE Dial
  BY <1>11, KeyAwaits DEF Dial, NoModal, Modal, changes, commit
<1>12. CASE ConfirmConnect
  BY <1>12 DEF ConfirmConnect, NoModal, changes, commit
<1>13. CASE ConnectFailed
  BY <1>13 DEF ConnectFailed, Modal, changes, commit
<1>14. CASE Disconnect
  BY <1>14, KeyAwaits DEF Disconnect, NoModal, Modal, resetBrowse, Leaves, changes, commit
<1>15. CASE ConfirmDisconnect
  BY <1>15 DEF ConfirmDisconnect, NoModal, resetBrowse, Leaves, commit
<1>16. ASSUME NEW s \in Sessions, Connected(s) PROVE HomeInv'
  BY <1>16 DEF Connected, resetBrowse, Leaves, commit
<1>17. CASE beginTx
  BY <1>17, KeyAwaits DEF beginTx, NoModal, conns, changes, commit
<1>18. CASE applyTxBegun
  BY <1>18 DEF applyTxBegun, conns, changes, commit
<1>19. CASE TxEnds
  BY <1>19 DEF TxEnds, conns, changes, commit
<1>20. CASE Dismiss
  BY <1>20 DEF Dismiss, NoModal, conns, changes, commit
<1>21. CASE UNCHANGED stagedVars
  BY <1>21 DEF stagedVars
<1> QED
  BY <1>1, <1>2, <1>3, <1>4, <1>5, <1>6, <1>7, <1>8, <1>9, <1>10, <1>11, <1>12, <1>13, <1>14, <1>15,
     <1>16, <1>17, <1>18, <1>19, <1>20, <1>21 DEF StagedNext

\* A step keeps a commit alone.
LEMMA AwaitKept ==
  ASSUME StagedInv, [StagedNext]_stagedVars
  PROVE  AwaitInv'
<1> USE StagedAssumption DEF StagedInv, StagedTypeOK, AwaitInv, StagingInv
<1>1. ASSUME NEW c \in Changes, StageNow(c) PROVE AwaitInv'
  BY <1>1, KeyAwaits DEF StageNow, Editable, NoModal, stageOn, New, conns, commit
<1>2. ASSUME NEW c \in Changes, ConfirmEdit(c) PROVE AwaitInv'
  BY <1>2 DEF ConfirmEdit, stageOn, New, NoModal, conns, commit
<1>3. ASSUME NEW c \in Changes, Unstage(c) PROVE AwaitInv'
  BY <1>3, KeyAwaits DEF Unstage, NoModal, Leaves, conns, commit
<1>4. CASE OpenEdit
  BY <1>4, KeyAwaits DEF OpenEdit, Editable, NoModal, Modal, conns, changes, commit
<1>5. CASE confirmDiscard
  BY <1>5, KeyAwaits DEF confirmDiscard, NoModal, Modal, conns, changes, commit
<1>6. CASE ConfirmDiscard
  BY <1>6 DEF ConfirmDiscard, Leaves, NoModal, conns, commit
<1>7. CASE openCommitModal
  BY <1>7, KeyAwaits DEF openCommitModal, NoModal, Modal, refuseWithTx, conns, changes, commit
<1>8. CASE ConfirmCommit
  BY <1>8 DEF ConfirmCommit, NoModal, conns, changes
<1>9. ASSUME NEW f \in flights, ExecOn(f)
      PROVE  AwaitInv'
  <2>1. PICK done, ok \in BOOLEAN :
          /\ ok => done
          /\ risks' = IF done /\ ~ok THEN risks \cup {"lost"} ELSE risks
          /\ replies' = replies \cup {Reply(f, ok)}
          /\ applied' \in [Changes -> [Sessions -> Nat]]
          /\ \A c \in Changes, s \in Sessions :
               applied'[c][s] = IF done /\ c \in f.changes /\ s = f.driver THEN applied[c][s] + 1
                                ELSE applied[c][s]
    BY <1>9, ExecOutcome
  <2>2. /\ UNCHANGED <<modal, tx, staged, gone>> /\ flights' = flights \ {f}
        /\ "commit" \notin risks' => "commit" \notin risks
        /\ f.driver \in Sessions
    BY <1>9, <2>1 DEF ExecOn, conns, changes, StagingInv, Flights
  <2>3. SUFFICES ASSUME "commit" \notin risks'
                 PROVE  AwaitInv'
    BY DEF AwaitInv
  <2>4. flights = {f} /\ replies = {} /\ flights' = {} /\ replies' = {Reply(f, ok)}
    BY <2>1, <2>2, <2>3
  <2>5. ASSUME NEW c \in Changes, gone'[c] = "committed"
        PROVE  \E s \in Sessions : applied'[c][s] > 0
    <3>1. PICK s \in Sessions : applied[c][s] > 0
      BY <2>2, <2>3, <2>5
    <3> QED
      BY <2>1, <3>1
  <2> QED
    BY <2>2, <2>3, <2>4, <2>5 DEF Reply
<1>10. ASSUME NEW r \in replies, changesCommitted(r)
      PROVE  AwaitInv'
  <2>1. /\ UNCHANGED <<modal, tx, flights, applied, risks>> /\ replies' = replies \ {r}
        /\ staged' \subseteq staged
    BY <1>10 DEF changesCommitted, Succeeded, Failed, Leaves, conns, changes
  <2>2. SUFFICES ASSUME "commit" \notin risks
                 PROVE  AwaitInv'
    BY <2>1 DEF AwaitInv
  <2>3. ASSUME NEW c \in Changes, gone'[c] = "committed"
        PROVE  \E s \in Sessions : applied[c][s] > 0
    <3>1. CASE gone[c] = "committed"
      BY <2>2, <3>1
    <3>2. CASE gone[c] # "committed"
      <4>1. r.ok /\ c \in staged
        BY <1>10, <2>3, <3>2 DEF changesCommitted, Succeeded, Failed, Leaves, changes
      <4>2. c \in r.changes /\ r.driver \in Sessions
        BY <1>10, <2>2, <4>1 DEF changesCommitted, CommitReplies
      <4> QED
        BY <1>10, <4>1, <4>2 DEF changesCommitted
    <3> QED
      BY <3>1, <3>2
  <2> QED
    BY <2>1, <2>2, <2>3
<1>11. CASE Dial
  BY <1>11, KeyAwaits DEF Dial, NoModal, Modal, changes, commit
<1>12. CASE ConfirmConnect
  BY <1>12 DEF ConfirmConnect, NoModal, changes, commit
<1>13. CASE ConnectFailed
  BY <1>13 DEF ConnectFailed, Modal, changes, commit
<1>14. CASE Disconnect
  BY <1>14, KeyAwaits DEF Disconnect, NoModal, Modal, resetBrowse, Leaves, changes, commit
<1>15. CASE ConfirmDisconnect
  BY <1>15 DEF ConfirmDisconnect, NoModal, resetBrowse, Leaves, commit
<1>16. ASSUME NEW s \in Sessions, Connected(s) PROVE AwaitInv'
  BY <1>16 DEF Connected, resetBrowse, Leaves, commit
<1>17. CASE beginTx
  BY <1>17, KeyAwaits DEF beginTx, NoModal, conns, changes, commit
<1>18. CASE applyTxBegun
  BY <1>18 DEF applyTxBegun, conns, changes, commit
<1>19. CASE TxEnds
  BY <1>19 DEF TxEnds, conns, changes, commit
<1>20. CASE Dismiss
  BY <1>20 DEF Dismiss, NoModal, conns, changes, commit
<1>21. CASE UNCHANGED stagedVars
  BY <1>21 DEF stagedVars
<1> QED
  BY <1>1, <1>2, <1>3, <1>4, <1>5, <1>6, <1>7, <1>8, <1>9, <1>10, <1>11, <1>12, <1>13, <1>14, <1>15,
     <1>16, <1>17, <1>18, <1>19, <1>20, <1>21 DEF StagedNext

\* A step applies nothing twice.
LEMMA OnceKept ==
  ASSUME StagedInv, [StagedNext]_stagedVars
  PROVE  OnceInv'
<1> USE StagedAssumption DEF StagedInv, StagedTypeOK, OnceInv, AwaitInv, StagingInv, Unapplied, Silence
<1>1. ASSUME NEW c \in Changes, StageNow(c) PROVE OnceInv'
  BY <1>1, KeyAwaits DEF StageNow, Editable, NoModal, stageOn, New, conns, commit
<1>2. ASSUME NEW c \in Changes, ConfirmEdit(c) PROVE OnceInv'
  BY <1>2 DEF ConfirmEdit, stageOn, New, NoModal, conns, commit
<1>3. ASSUME NEW c \in Changes, Unstage(c) PROVE OnceInv'
  BY <1>3, KeyAwaits DEF Unstage, NoModal, Leaves, conns, commit
<1>4. CASE OpenEdit
  BY <1>4, KeyAwaits DEF OpenEdit, Editable, NoModal, Modal, conns, changes, commit
<1>5. CASE confirmDiscard
  BY <1>5, KeyAwaits DEF confirmDiscard, NoModal, Modal, conns, changes, commit
<1>6. CASE ConfirmDiscard
  BY <1>6 DEF ConfirmDiscard, Leaves, NoModal, conns, commit
<1>7. CASE openCommitModal
  BY <1>7, KeyAwaits DEF openCommitModal, NoModal, Modal, refuseWithTx, conns, changes, commit
<1>8. CASE ConfirmCommit
  BY <1>8 DEF ConfirmCommit, NoModal, conns, changes
<1>9. ASSUME NEW f \in flights, ExecOn(f)
      PROVE  OnceInv'
  <2>1. PICK done, ok \in BOOLEAN :
          /\ ok => done
          /\ risks' = IF done /\ ~ok THEN risks \cup {"lost"} ELSE risks
          /\ replies' = replies \cup {Reply(f, ok)}
          /\ applied' \in [Changes -> [Sessions -> Nat]]
          /\ \A c \in Changes, s \in Sessions :
               applied'[c][s] = IF done /\ c \in f.changes /\ s = f.driver THEN applied[c][s] + 1
                                ELSE applied[c][s]
    BY <1>9, ExecOutcome
  <2>2. /\ UNCHANGED <<modal, staged, told>> /\ flights' = flights \ {f}
        /\ f.driver \in Sessions /\ f.changes \subseteq Changes
    BY <1>9 DEF ExecOn, conns, changes, StagingInv, Flights
  <2>3. SUFFICES ASSUME risks' \cap {"commit", "lost"} = {}
                 PROVE  OnceInv'
    BY DEF OnceInv
  <2>4. risks = risks' /\ done = ok /\ risks \cap {"commit", "lost"} = {}
    BY <2>1, <2>3
  <2>5. /\ flights = {f} /\ replies = {} /\ flights' = {} /\ replies' = {Reply(f, ok)}
        /\ modal.changes = {} /\ staged \subseteq f.changes
    BY <2>1, <2>2, <2>4
  <2>6. Unapplied(f.changes)
    BY <2>4
  <2>7. ~ok => applied' = applied
    BY <2>1, <2>4
  <2>8. \A c \in Changes, s \in Sessions : applied'[c][s] <= 1
    BY <2>1, <2>4, <2>6
  <2>9. \A c \in Changes, s, t \in Sessions : applied'[c][s] > 0 /\ applied'[c][t] > 0 => s = t
    <3> SUFFICES ASSUME NEW c \in Changes, NEW s \in Sessions, NEW t \in Sessions,
                        applied'[c][s] > 0, applied'[c][t] > 0
                 PROVE  s = t
      OBVIOUS
    <3>1. CASE c \in f.changes
      <4>1. applied[c][s] = 0 /\ applied[c][t] = 0
        BY <2>6, <3>1
      <4> QED
        BY <2>1, <4>1
    <3>2. CASE c \notin f.changes
      BY <2>1, <2>4, <3>2
    <3> QED
      BY <3>1, <3>2
  <2>10. Unapplied(modal.changes)' /\ (\A g \in flights' : Unapplied(g.changes)')
    BY <2>2, <2>5
  <2>11. \A r \in replies' : ~r.ok => Unapplied(r.changes)'
    BY <2>5, <2>6, <2>7 DEF Reply
  <2>12. replies' # {}
    BY <2>5
  <2> QED
    BY <2>8, <2>9, <2>10, <2>11, <2>12
<1>10. ASSUME NEW r \in replies, changesCommitted(r) PROVE OnceInv'
  BY <1>10 DEF changesCommitted, Succeeded, Failed, Leaves, conns, changes
<1>11. CASE Dial
  BY <1>11, KeyAwaits DEF Dial, NoModal, Modal, changes, commit
<1>12. CASE ConfirmConnect
  BY <1>12 DEF ConfirmConnect, NoModal, changes, commit
<1>13. CASE ConnectFailed
  BY <1>13 DEF ConnectFailed, Modal, changes, commit
<1>14. CASE Disconnect
  BY <1>14, KeyAwaits DEF Disconnect, NoModal, Modal, resetBrowse, Leaves, changes, commit
<1>15. CASE ConfirmDisconnect
  BY <1>15 DEF ConfirmDisconnect, NoModal, resetBrowse, Leaves, commit
<1>16. ASSUME NEW s \in Sessions, Connected(s) PROVE OnceInv'
  BY <1>16 DEF Connected, resetBrowse, Leaves, commit
<1>17. CASE beginTx
  BY <1>17, KeyAwaits DEF beginTx, NoModal, conns, changes, commit
<1>18. CASE applyTxBegun
  BY <1>18 DEF applyTxBegun, conns, changes, commit
<1>19. CASE TxEnds
  BY <1>19 DEF TxEnds, conns, changes, commit
<1>20. CASE Dismiss
  BY <1>20 DEF Dismiss, NoModal, conns, changes, commit
<1>21. CASE UNCHANGED stagedVars
  BY <1>21 DEF stagedVars
<1> QED
  BY <1>1, <1>2, <1>3, <1>4, <1>5, <1>6, <1>7, <1>8, <1>9, <1>10, <1>11, <1>12, <1>13, <1>14, <1>15,
     <1>16, <1>17, <1>18, <1>19, <1>20, <1>21 DEF StagedNext

\* A step keeps the types.
LEMMA TypeKept ==
  ASSUME StagedInv, [StagedNext]_stagedVars
  PROVE  StagedTypeOK'
<1> USE StagedAssumption DEF StagedInv, StagedTypeOK, DialInv, Flights, CommitReplies
<1>1. ASSUME NEW c \in Changes, StageNow(c) PROVE StagedTypeOK'
  BY <1>1, KeyAwaits DEF StageNow, Editable, NoModal, stageOn, New, conns, commit
<1>2. ASSUME NEW c \in Changes, ConfirmEdit(c) PROVE StagedTypeOK'
  BY <1>2 DEF ConfirmEdit, stageOn, New, NoModal, conns, commit
<1>3. ASSUME NEW c \in Changes, Unstage(c) PROVE StagedTypeOK'
  BY <1>3, KeyAwaits DEF Unstage, NoModal, Leaves, conns, commit
<1>4. CASE OpenEdit
  BY <1>4, KeyAwaits DEF OpenEdit, Editable, NoModal, Modal, conns, changes, commit
<1>5. CASE confirmDiscard
  BY <1>5, KeyAwaits DEF confirmDiscard, NoModal, Modal, conns, changes, commit
<1>6. CASE ConfirmDiscard
  BY <1>6 DEF ConfirmDiscard, Leaves, NoModal, conns, commit
<1>7. CASE openCommitModal
  BY <1>7, KeyAwaits DEF openCommitModal, NoModal, Modal, refuseWithTx, conns, changes, commit
<1>8. CASE ConfirmCommit
  BY <1>8 DEF ConfirmCommit, NoModal, conns, changes
<1>9. ASSUME NEW f \in flights, ExecOn(f)
      PROVE  StagedTypeOK'
  <2>1. PICK done, ok \in BOOLEAN :
          /\ ok => done
          /\ risks' = IF done /\ ~ok THEN risks \cup {"lost"} ELSE risks
          /\ replies' = replies \cup {Reply(f, ok)}
          /\ applied' \in [Changes -> [Sessions -> Nat]]
          /\ \A c \in Changes, s \in Sessions :
               applied'[c][s] = IF done /\ c \in f.changes /\ s = f.driver THEN applied[c][s] + 1
                                ELSE applied[c][s]
    BY <1>9, ExecOutcome
  <2> QED
    BY <1>9, <2>1 DEF ExecOn, Reply, conns, changes
<1>10. ASSUME NEW r \in replies, changesCommitted(r) PROVE StagedTypeOK'
  BY <1>10 DEF changesCommitted, Succeeded, Failed, Leaves, conns, changes
<1>11. CASE Dial
  BY <1>11, KeyAwaits DEF Dial, NoModal, Modal, changes, commit
<1>12. CASE ConfirmConnect
  BY <1>12 DEF ConfirmConnect, NoModal, changes, commit
<1>13. CASE ConnectFailed
  BY <1>13 DEF ConnectFailed, Modal, changes, commit
<1>14. CASE Disconnect
  BY <1>14, KeyAwaits DEF Disconnect, NoModal, Modal, resetBrowse, Leaves, changes, commit
<1>15. CASE ConfirmDisconnect
  BY <1>15 DEF ConfirmDisconnect, NoModal, resetBrowse, Leaves, commit
<1>16. ASSUME NEW s \in Sessions, Connected(s) PROVE StagedTypeOK'
  BY <1>16 DEF Connected, resetBrowse, Leaves, commit
<1>17. CASE beginTx
  BY <1>17, KeyAwaits DEF beginTx, NoModal, conns, changes, commit
<1>18. CASE applyTxBegun
  BY <1>18 DEF applyTxBegun, conns, changes, commit
<1>19. CASE TxEnds
  BY <1>19 DEF TxEnds, conns, changes, commit
<1>20. CASE Dismiss
  BY <1>20 DEF Dismiss, NoModal, conns, changes, commit
<1>21. CASE UNCHANGED stagedVars
  BY <1>21 DEF stagedVars
<1> QED
  BY <1>1, <1>2, <1>3, <1>4, <1>5, <1>6, <1>7, <1>8, <1>9, <1>10, <1>11, <1>12, <1>13, <1>14, <1>15,
     <1>16, <1>17, <1>18, <1>19, <1>20, <1>21 DEF StagedNext

-----------------------------------------------------------------------------
\* Nothing is staged, dialed or under way at first.
LEMMA StagedInitInv == StagedInit => StagedInv
<1> SUFFICES ASSUME StagedInit PROVE StagedInv
  OBVIOUS
<1>1. StagedTypeOK
  BY StagedAssumption DEF StagedInit, StagedTypeOK, NoModal, Silence
<1> QED
  BY <1>1, StagedAssumption DEF StagedInit, NoModal, Silence, StagedInv, DialInv, StagingInv, HomeInv,
     AwaitInv, OnceInv, Unapplied

\* Every step keeps the invariant.
LEMMA StagedStep == StagedInv /\ [StagedNext]_stagedVars => StagedInv'
  BY TypeKept, DialKept, StagingKept, HomeKept, AwaitKept, OnceKept DEF StagedInv

\* What was applied, is under way or was told of stays as the invariant says.
THEOREM StagedInvariant == StagedSpec => []StagedInv
  BY StagedInitInv, StagedStep, PTL DEF StagedSpec

\* A change is applied on the connection it was staged for, and once.
THEOREM AppliesAsStaged == StagedSpec => []AppliedAsStaged
<1>1. StagedInv => AppliedAsStaged
  <2> SUFFICES ASSUME StagedInv PROVE AppliedAsStaged
    OBVIOUS
  <2>1. AppliedWhereStaged
    BY DEF StagedInv, HomeInv, AppliedWhereStaged
  <2>2. AppliedOnce
    <3> SUFFICES ASSUME risks \cap {"commit", "lost"} = {}, NEW c \in Changes
                 PROVE  /\ Cardinality({s \in Sessions : applied[c][s] > 0}) <= 1
                        /\ \A s \in Sessions : applied[c][s] <= 1
      BY DEF AppliedOnce
    <3>1. /\ \A s \in Sessions : applied[c][s] <= 1
          /\ \A s, t \in Sessions : applied[c][s] > 0 /\ applied[c][t] > 0 => s = t
      BY DEF StagedInv, OnceInv
    <3> DEFINE On == {s \in Sessions : applied[c][s] > 0}
    <3>2. CASE On = {}
      BY <3>1, <3>2, FS_EmptySet
    <3>3. CASE On # {}
      <4>1. PICK s \in Sessions : applied[c][s] > 0
        BY <3>3
      <4>2. On = {s}
        BY <3>1, <4>1
      <4>3. Cardinality({s}) = 1
        BY FS_Singleton
      <4> QED
        BY <3>1, <4>2, <4>3
    <3> QED
      BY <3>2, <3>3
  <2> QED
    BY <2>1, <2>2 DEF StagedInv, AppliedAsStaged
<1> QED
  BY <1>1, StagedInvariant, PTL

\* What the changeset and the reply say of a commit is what the drivers applied.
THEOREM OutcomesAreTrue == StagedSpec => []OutcomeIsTrue
<1>1. StagedInv => OutcomeIsTrue
  BY DEF StagedInv, AwaitInv, OnceInv, OutcomeIsTrue, Unapplied
<1> QED
  BY <1>1, StagedInvariant, PTL

\* The changeset's commit is not interleaved with the editor's transaction.
THEOREM NeverInterleaves == StagedSpec => []NeverInterleaved
<1>1. StagedInv => NeverInterleaved
  BY DEF StagedInv, AwaitInv, NeverInterleaved
<1> QED
  BY <1>1, StagedInvariant, PTL

-----------------------------------------------------------------------------
(* The import of a CSV file.                                               *)

Classes == {Class[t] : t \in DOMAIN Class}
Cells == Fields \cup {Null} \cup (Classes \X Fields)
TableRows == UNION {[C -> Cells] : C \in SUBSET Fields}
Delims == {",", ";"}
Forms == [open : {TRUE}, of : {f \in Files : f.recs # <<>>}, cut : Seq(Fields), cols : Tables, delim : Delims,
          header : BOOLEAN, entries : Seq(Fields), marker : Fields]
Plans == [delim : Delims, header : BOOLEAN, marker : Fields, mapping : Seq(Nat), cols : Tables]
Imports == [at : {"none", "open", "insert", "commit", "done"}, said : {"nothing", "committed", "rolled back"},
            p : Plans, of : Files, seen : Forms, read : Nat, rows : Seq(TableRows), before : Seq(TableRows),
            kept : BOOLEAN, cancelled : BOOLEAN, lost : BOOLEAN]

ImportTypeOK ==
  /\ file \in Files
  /\ target \in [cols : Tables, rows : Seq(TableRows)]
  /\ settings \in {Closed} \cup Forms
  /\ import \in {NoImport} \cup Imports

\* A mapping imports something, and no column twice.
MapsOnce(p) ==
  /\ Mapped(p.mapping) # {}
  /\ \A i \in Mapped(p.mapping) : p.mapping[i] \in DOMAIN p.cols
  /\ \A i, j \in Mapped(p.mapping) : p.mapping[i] = p.mapping[j] => i = j

\* The rows from x on are what the first n data records of recs became.
Become(p, recs, n, rows, x) ==
  \A i \in 1 .. n : Landed(p, recs[HeaderRows(p) + i], rows[x + i])

\* What holds of an import j, whose file reads as recs, and of the rows of the table.
Running(j, recs, rows) ==
  /\ j.at \in {"open", "insert", "commit"} => rows = j.before /\ ~j.kept /\ ~j.lost
  /\ j.at # "none" => j.said = "nothing"
  /\ j.at = "open" => j.rows = <<>>
  /\ j.at \in {"insert", "commit"} =>
       /\ j.read \in HeaderRows(j.p) .. Len(recs)
       /\ Len(j.rows) = j.read - HeaderRows(j.p)
       /\ Become(j.p, recs, Len(j.rows), j.rows, 0)
  /\ j.at = "commit" => j.read = Len(recs)

Ended(j, recs, rows) ==
  /\ j.said = "committed" => j.kept
  /\ j.said = "rolled back" => ~j.kept
  /\ ~j.kept /\ ~j.lost => rows = j.before
  /\ Len(j.before) <= Len(rows) /\ \A i \in DOMAIN j.before : rows[i] = j.before[i]
  /\ j.kept =>
       /\ HeaderRows(j.p) <= Len(recs)
       /\ Len(rows) = Len(j.before) + Len(recs) - HeaderRows(j.p)
       /\ Become(j.p, recs, Len(recs) - HeaderRows(j.p), rows, Len(j.before))

Holds(j, rows) ==
  LET recs == newReader(j.of, j.p.delim)
  IN MapsOnce(j.p) /\ Running(j, recs, rows) /\ Ended(j, recs, rows)

ImportInv == ImportTypeOK /\ (import \in Imports => Holds(import, target.rows))

(* The first of a set of numbers.                                          *)
LEMMA FirstOfIs ==
  ASSUME NEW S \in SUBSET Nat, S # {}
  PROVE  FirstOf(S) \in S /\ \A j \in S : FirstOf(S) <= j
<1>1. PICK n : n \in S
  OBVIOUS
<1>2. PICK m \in S : \A k \in S : m <= k
  BY <1>1, LeastNumber
<1> QED
  BY <1>2 DEF FirstOf

(* A function on 1..n is a sequence.                                       *)
LEMMA SequenceIs ==
  ASSUME NEW S, NEW n \in Nat, NEW g, g = [i \in 1 .. n |-> g[i]], \A i \in 1 .. n : g[i] \in S
  PROVE  g \in Seq(S) /\ Len(g) = n /\ DOMAIN g = 1 .. n
<1>1. g \in [1 .. n -> S]
  OBVIOUS
<1> QED
  BY <1>1, SeqDef

(* So is what one element makes.                                           *)
LEMMA OneIs ==
  ASSUME NEW S, NEW x \in S
  PROVE  <<x>> \in Seq(S)
OBVIOUS

(* A sequence after another.                                               *)
LEMMA JoinedIs ==
  ASSUME NEW S, NEW a \in Seq(S), NEW b \in Seq(S)
  PROVE  /\ a \o b \in Seq(S) /\ Len(a \o b) = Len(a) + Len(b)
         /\ \A n \in 1 .. Len(a) : (a \o b)[n] = a[n]
         /\ \A n \in 1 .. Len(b) : (a \o b)[Len(a) + n] = b[n]
         /\ Len(a) \in Nat /\ Len(b) \in Nat /\ DOMAIN a = 1 .. Len(a)
OBVIOUS

(* A part of a sequence.                                                   *)
LEMMA PartIs ==
  ASSUME NEW S, NEW s \in Seq(S), NEW x \in Nat, x <= Len(s)
  PROVE  LET t == SubSeq(s, x + 1, Len(s))
         IN Len(t) = Len(s) - x /\ DOMAIN t = 1 .. Len(s) - x /\ \A i \in 1 .. Len(s) - x : t[i] = s[x + i]
OBVIOUS

(* What the assumption says, one by one.                                   *)
LEMMA FilesAre ==
  ASSUME NEW f \in Files
  PROVE  f.recs \in Seq(Seq(Fields))
BY ImportAssumption

(* Of a table: its columns have distinct names, and a type each.           *)
LEMMA TablesAre ==
  ASSUME NEW t \in Tables
  PROVE  /\ t \in Seq([name : Fields, type : DOMAIN Class])
         /\ \A i, j \in DOMAIN t : t[i].name = t[j].name => i = j
         /\ DOMAIN t = 1 .. Len(t) /\ Len(t) \in Nat
         /\ \A i \in DOMAIN t : t[i].name \in Fields /\ t[i].type \in DOMAIN Class
<1>1. t \in Seq([name : Fields, type : DOMAIN Class]) /\ \A i, j \in DOMAIN t : t[i].name = t[j].name => i = j
  BY ImportAssumption
<1> DEFINE Column == [name : Fields, type : DOMAIN Class]
<1>2. \A c \in Column : c.name \in Fields /\ c.type \in DOMAIN Class
  OBVIOUS
<1>3. t \in Seq(Column)
  BY <1>1
<1> HIDE DEF Column
<1>4. DOMAIN t = 1 .. Len(t) /\ Len(t) \in Nat /\ \A i \in DOMAIN t : t[i] \in Column
  BY <1>3
<1> QED
  BY <1>1, <1>2, <1>4

(* The three sizes are naturals.                                           *)
LEMMA SizesAre == SampleSize \in Nat \ {0} /\ Sniffed \in Nat /\ Previewed \in Nat
BY ImportAssumption

(* What the code compares with is text, and so is what is trimmed.         *)
LEMMA TextsAre == "" \in Fields /\ "-" \in Fields /\ "joined" \in Fields /\ \A x \in Fields : Trim[x] \in Fields
<1>1. {"", "-", "joined"} \subseteq Fields /\ Trim \in [Fields -> Fields]
  BY ImportAssumption
<1> QED
  BY <1>1

(* Read under any delimiter, a file has as many records.                   *)
LEMMA ReaderIs ==
  ASSUME NEW f, f.recs \in Seq(Seq(Fields)), NEW d
  PROVE  /\ newReader(f, d) \in Seq(Seq(Fields))
         /\ Len(newReader(f, d)) = Len(f.recs)
<1>1. <<"joined">> \in Seq(Fields)
  BY TextsAre, OneIs
<1>2. \A i \in 1 .. Len(f.recs) : newReader(f, d)[i] \in Seq(Fields)
  BY <1>1 DEF newReader
<1>3. newReader(f, d) = [i \in 1 .. Len(f.recs) |-> newReader(f, d)[i]] /\ Len(f.recs) \in Nat
  BY DEF newReader
<1> QED
  BY <1>2, <1>3, SequenceIs

(* A name leads to a column of the table or to none.                       *)
LEMMA ColumnIs ==
  ASSUME NEW t \in Tables, NEW n
  PROVE  columnIndex(t, n) \in Nat /\ (columnIndex(t, n) # Skip => columnIndex(t, n) \in DOMAIN t)
<1> DEFINE same == {i \in DOMAIN t : t[i].name = Trim[n]}
           alike == {i \in DOMAIN t : Fold[t[i].name] = Fold[Trim[n]]}
<1>1. DOMAIN t = 1 .. Len(t) /\ Len(t) \in Nat
  BY TablesAre
<1>2. same \in SUBSET Nat /\ alike \in SUBSET Nat
  BY <1>1
<1>3. /\ same # {} => FirstOf(same) \in same
      /\ alike # {} => FirstOf(alike) \in alike
  BY <1>2, FirstOfIs
<1>4. columnIndex(t, n) = IF same # {} THEN FirstOf(same) ELSE IF alike # {} THEN FirstOf(alike) ELSE Skip
  BY DEF columnIndex
<1> QED
  BY <1>1, <1>2, <1>3, <1>4 DEF Skip

(* The sample is the file up to the record it is cut in.                   *)
LEMMA SampleIs ==
  ASSUME NEW s, s.of \in Files, s.cut \in Seq(Fields)
  PROVE  /\ Sample(s).recs \in Seq(Seq(Fields)) /\ Sample(s).sep = s.of.sep
         /\ Len(Sample(s).recs) <= Len(s.of.recs)
         /\ s.of.recs # <<>> => Len(Sample(s).recs) >= 1
         /\ \A i \in DOMAIN Sample(s).recs :
              (Truncated(s) /\ i = SampleSize) \/ Sample(s).recs[i] = s.of.recs[i]
<1> DEFINE all == s.of.recs
           head == SubSeq(all, 1, SampleSize - 1)
<1>1. all \in Seq(Seq(Fields)) /\ Len(all) \in Nat /\ SampleSize \in Nat \ {0}
  BY FilesAre, SizesAre
<1>2. Sample(s).sep = s.of.sep /\ Sample(s).recs = IF Truncated(s) THEN Append(head, s.cut) ELSE all
  BY DEF Sample
<1>3. CASE Truncated(s)
  <2>1. Len(all) > SampleSize
    BY <1>3 DEF Truncated
  <2>2. head \in Seq(Seq(Fields)) /\ Len(head) = SampleSize - 1 /\ \A i \in 1 .. SampleSize - 1 : head[i] = all[i]
    BY <1>1, <2>1
  <2>3. /\ Append(head, s.cut) \in Seq(Seq(Fields)) /\ Len(Append(head, s.cut)) = SampleSize
        /\ \A i \in 1 .. SampleSize - 1 : Append(head, s.cut)[i] = head[i]
    BY <1>1, <2>2
  <2> HIDE DEF head, all
  <2>4. DOMAIN Append(head, s.cut) = 1 .. SampleSize
    BY <2>3
  <2> QED
    <3>1. Sample(s).recs = Append(head, s.cut)
      BY <1>2, <1>3
    <3>2. Len(Sample(s).recs) = SampleSize /\ Len(Sample(s).recs) <= Len(all) /\ Len(Sample(s).recs) >= 1
      BY <1>1, <2>1, <2>3, <3>1
    <3>3. \A i \in DOMAIN Sample(s).recs : i = SampleSize \/ Sample(s).recs[i] = all[i]
      BY <1>1, <2>2, <2>3, <2>4, <3>1
    <3> QED
      BY <1>2, <1>3, <2>3, <3>1, <3>2, <3>3 DEF all
<1>4. CASE ~Truncated(s)
  BY <1>1, <1>2, <1>4
<1> QED
  BY <1>3, <1>4

(* The whole records come before the first broken one.                     *)
LEMMA WholeIs ==
  ASSUME NEW recs \in Seq(Seq(Fields))
  PROVE  Whole(recs) \in 0 .. Len(recs)
<1> DEFINE broken == {i \in DOMAIN recs : recs[i] = Broken}
<1>1. broken \in SUBSET Nat /\ broken \subseteq 1 .. Len(recs)
  OBVIOUS
<1>2. broken # {} => FirstOf(broken) \in broken
  BY <1>1, FirstOfIs
<1>3. Whole(recs) = IF broken = {} THEN Len(recs) ELSE FirstOf(broken) - 1
  BY DEF Whole
<1> HIDE DEF broken
<1>4. Len(recs) \in Nat
  OBVIOUS
<1>5. broken # {} => FirstOf(broken) \in 1 .. Len(recs)
  BY <1>1, <1>2
<1>6. CASE broken = {}
  BY <1>3, <1>4, <1>6
<1>7. CASE broken # {}
  <2>1. Whole(recs) = FirstOf(broken) - 1
    BY <1>3, <1>7
  <2> QED
    BY <1>4, <1>5, <1>7, <2>1
<1> QED
  BY <1>6, <1>7

(* What is sampled are records.                                            *)
LEMMA SampledIs ==
  ASSUME NEW recs \in Seq(Seq(Fields)), NEW max \in Nat, NEW cut
  PROVE  sampleRecords(recs, max, cut).recs \in Seq(Seq(Fields))
<1> DEFINE n == Whole(recs)
           most == IF n < max THEN n ELSE max
<1>1. n \in 0 .. Len(recs)
  BY WholeIs
<1>2. most \in Nat /\ most <= Len(recs)
  BY <1>1
<1>3. SubSeq(recs, 1, most) \in Seq(Seq(Fields))
  BY <1>2
<1> QED
  BY <1>3 DEF sampleRecords

(* What is guessed of a file is one of the delimiters and a yes or a no.   *)
LEMMA SniffIs ==
  ASSUME NEW f, f.recs \in Seq(Seq(Fields)), NEW cut, NEW t
  PROVE  Sniff(f, cut, t).delim \in Delims /\ Sniff(f, cut, t).header \in BOOLEAN
<1> DEFINE read(d) == sampleRecords(newReader(f, d), Sniffed, cut)
           width(d) == IF read(d).err \/ read(d).recs = <<>> THEN 0
                       ELSE IF Len(read(d).recs[1]) > 1 /\ \A i \in DOMAIN read(d).recs : Len(read(d).recs[i]) = Len(read(d).recs[1])
                            THEN Len(read(d).recs[1]) ELSE 0
           most == {i \in DOMAIN Delimiters : \A j \in DOMAIN Delimiters : width(Delimiters[j]) <= width(Delimiters[i])}
           d == Delimiters[FirstOf(most)]
<1>1. \A c : width(c) \in Nat
  <2> TAKE c
  <2>1. read(c).recs \in Seq(Seq(Fields))
    BY ReaderIs, SampledIs, SizesAre
  <2>2. read(c).recs # <<>> => Len(read(c).recs[1]) \in Nat
    BY <2>1
  <2> QED
    BY <2>2
<1>2. DOMAIN Delimiters = {1, 2} /\ Delimiters[1] = "," /\ Delimiters[2] = ";"
  BY DEF Delimiters
<1>3. most # {}
  <2> DEFINE a == width(",")
             b == width(";")
  <2>1. a \in Nat /\ b \in Nat
    BY <1>1
  <2>2. \A i \in {1, 2} : (\A j \in {1, 2} : width(Delimiters[j]) <= width(Delimiters[i])) => i \in most
    BY <1>2
  <2>3. width(Delimiters[1]) = a /\ width(Delimiters[2]) = b
    BY <1>2
  <2> HIDE DEF width, most, a, b
  <2>4. b <= a => 1 \in most
    BY <2>1, <2>2, <2>3
  <2>5. a <= b => 2 \in most
    BY <2>1, <2>2, <2>3
  <2> QED
    BY <2>1, <2>4, <2>5
<1>4. most \subseteq {1, 2}
  <2>1. \A i \in most : i \in DOMAIN Delimiters
    OBVIOUS
  <2> QED
    BY <1>2, <2>1
<1> HIDE DEF most
<1>5. FirstOf(most) \in {1, 2}
  <2>1. most \in SUBSET Nat
    BY <1>4
  <2> QED
    BY <1>3, <1>4, <2>1, FirstOfIs
<1> USE DEF most
<1>6. d \in Delims
  BY <1>2, <1>5 DEF Delims
<1>7. Sniff(f, cut, t) = [delim |-> d, header |-> looksLikeHeader(sampleRecords(newReader(f, d), 2, cut).recs, t)]
  BY DEF Sniff
<1>8. looksLikeHeader(sampleRecords(newReader(f, d), 2, cut).recs, t) \in BOOLEAN
  BY DEF looksLikeHeader
<1> HIDE DEF d
<1> QED
  BY <1>6, <1>7, <1>8

(* The first record under a delimiter is a record.                         *)
LEMMA FirstRecordIs ==
  ASSUME NEW s, s.of \in Files, s.of.recs # <<>>, s.cut \in Seq(Fields), NEW d
  PROVE  FirstRecord(s, d) \in Seq(Fields)
<1>1. Sample(s).recs \in Seq(Seq(Fields)) /\ Len(Sample(s).recs) >= 1
  BY SampleIs
<1>2. newReader(Sample(s), d) \in Seq(Seq(Fields)) /\ Len(newReader(Sample(s), d)) = Len(Sample(s).recs)
  BY <1>1, ReaderIs
<1> DEFINE recs == newReader(Sample(s), d)
           Record == Seq(Fields)
<1>3. recs \in Seq(Record) /\ Len(recs) >= 1
  BY <1>1, <1>2
<1> HIDE DEF recs, Record
<1>4. recs[1] \in Record
  BY <1>3
<1> QED
  BY <1>4 DEF FirstRecord, recs, Record

(* What is typed for a mapping leads to columns, and when it is not refused *)
(* to at least one and to none twice.                                       *)
LEMMA MappingIs ==
  ASSUME NEW entries, NEW width \in Nat, NEW t \in Tables
  PROVE  /\ ParseMapping(entries, width, t) \in Seq(Nat)
         /\ \A p : /\ p.mapping = ParseMapping(entries, width, t) /\ p.cols = t
                   /\ ~MappingFails(entries, p.mapping, width, t)
                   => MapsOnce(p)
<1> DEFINE m == ParseMapping(entries, width, t)
<1>1. m = [i \in 1 .. width |-> m[i]] /\ DOMAIN m = 1 .. width
  BY DEF ParseMapping
<1>2. \A i \in 1 .. width : m[i] \in Nat /\ (m[i] # Skip => m[i] \in DOMAIN t)
  BY ColumnIs DEF ParseMapping, Skip
<1> HIDE DEF m
<1>3. m \in Seq(Nat)
  BY <1>1, <1>2, SequenceIs
<1>4. ASSUME NEW p, p.mapping = m, p.cols = t, ~MappingFails(entries, p.mapping, width, t)
      PROVE  MapsOnce(p)
  <2>1. \A i \in Mapped(m) : m[i] \in DOMAIN t
    BY <1>1, <1>2 DEF Mapped
  <2>2. Mapped(m) # {} /\ \A i, j \in Mapped(m) : m[i] = m[j] => i = j
    BY <1>4 DEF MappingFails
  <2> QED
    BY <1>4, <2>1, <2>2 DEF MapsOnce
<1> QED
  BY <1>3, <1>4 DEF m

(* What a field becomes is a cell.                                         *)
LEMMA CellIs ==
  ASSUME NEW class \in Classes, NEW f \in Fields
  PROVE  ConvertText(class, f) \in Cells
BY TextsAre DEF ConvertText, Cells

(* The row of a record that fits is a row of the table: each of its fields *)
(* is in the one column it is mapped to.                                   *)
LEMMA RowIs ==
  ASSUME NEW p \in Plans, MapsOnce(p), NEW rec \in Seq(Fields), ~RowFails(p, rec)
  PROVE  Row(p, rec) \in TableRows /\ Landed(p, rec, Row(p, rec))
<1> DEFINE M == Mapped(p.mapping)
           name(i) == p.cols[p.mapping[i]].name
           cell(i) == IF rec[i] = p.marker THEN Null ELSE ConvertText(ClassOf(p, i), rec[i])
<1>1. p.mapping \in Seq(Nat) /\ p.cols \in Tables /\ p.marker \in Fields
  BY DEF Plans
<1>2. DOMAIN p.mapping = 1 .. Len(p.mapping) /\ DOMAIN rec = 1 .. Len(rec) /\ \A i \in DOMAIN rec : rec[i] \in Fields
  BY <1>1
<1>3. Len(rec) = Len(p.mapping) /\ \A i \in M : rec[i] = p.marker \/ Accepts(ClassOf(p, i), rec[i])
  BY DEF RowFails
<1>4. \A i \in M : i \in DOMAIN rec /\ rec[i] \in Fields
  BY <1>2, <1>3 DEF Mapped
<1>5. \A i \in M : p.mapping[i] \in DOMAIN p.cols
  BY DEF MapsOnce
<1>6. \A i \in M : name(i) \in Fields /\ ClassOf(p, i) \in Classes
  BY <1>1, <1>5, TablesAre DEF ClassOf, Classes
<1>7. \A i, j \in M : name(i) = name(j) => i = j
  <2> TAKE i, j \in M
  <2> HAVE name(i) = name(j)
  <2>1. p.mapping[i] = p.mapping[j]
    BY <1>1, <1>5, TablesAre
  <2> QED
    BY <2>1 DEF MapsOnce
<1>8. \A i \in M : cell(i) \in Cells
  <2> TAKE i \in M
  <2>1. ConvertText(ClassOf(p, i), rec[i]) \in Cells
    BY <1>4, <1>6, CellIs
  <2> QED
    BY <2>1 DEF Cells
<1>9. Targets(p) = {name(i) : i \in M} /\ Targets(p) # {}
  BY DEF Targets, MapsOnce
<1>10. Row(p, rec) = [c \in Targets(p) |-> cell(CHOOSE i \in M : name(i) = c)]
  BY DEF Row
<1> HIDE DEF name, cell, M
<1>11. \A i \in M : (CHOOSE k \in M : name(k) = name(i)) = i
  BY <1>7
<1>12. \A i \in M : name(i) \in Targets(p) /\ Row(p, rec)[name(i)] = cell(i)
  <2> TAKE i \in M
  <2>1. name(i) \in Targets(p)
    BY <1>9
  <2>2. Row(p, rec)[name(i)] = cell(CHOOSE k \in M : name(k) = name(i))
    BY <1>10, <2>1
  <2> QED
    BY <1>11, <2>1, <2>2
<1>13. \A c \in Targets(p) : Row(p, rec)[c] \in Cells
  BY <1>8, <1>9, <1>12
<1>14. Targets(p) \in SUBSET Fields
  BY <1>6, <1>9
<1>15. Row(p, rec) \in [Targets(p) -> Cells]
  BY <1>10, <1>13
<1>16. Row(p, rec) \in TableRows
  BY <1>14, <1>15 DEF TableRows
<1>17. DOMAIN Row(p, rec) = Targets(p)
  BY <1>10
<1> QED
  BY <1>3, <1>9, <1>12, <1>16, <1>17 DEF Landed, M, name, cell

(* At first there is no import and no form.                                *)
LEMMA ImportStart == ImportInit => ImportInv
<1> SUFFICES ASSUME ImportInit  PROVE ImportInv
  OBVIOUS
<1>1. PICK t \in Tables : target = [cols |-> t, rows |-> <<>>]
  BY DEF ImportInit
<1>2. <<>> \in Seq(TableRows)
  OBVIOUS
<1>3. target \in [cols : Tables, rows : Seq(TableRows)]
  BY <1>1, <1>2
<1>4. import = NoImport /\ settings = Closed /\ file \in Files
  BY DEF ImportInit
<1>5. NoImport \notin Imports
  <2>1. DOMAIN NoImport = {"at", "said"}
    BY DEF NoImport
  <2>2. \A j \in Imports : "p" \in DOMAIN j
    BY DEF Imports
  <2> QED
    BY <2>1, <2>2
<1> QED
  BY <1>3, <1>4, <1>5 DEF ImportInv, ImportTypeOK

(* A form that is open, and a worker.                                      *)
LEMMA FormIs ==
  ASSUME ImportTypeOK, settings.open
  PROVE  settings \in Forms
BY DEF ImportTypeOK, Closed

(* Of a worker that is not idle, the invariant says this.                  *)
LEMMA WorkerIs ==
  ASSUME ImportInv, import.at # "none"
  PROVE  import \in Imports /\ Holds(import, target.rows)
BY DEF ImportInv, ImportTypeOK, NoImport

(* A form that opens, or is edited, is a form.                             *)
LEMMA OpensForm ==
  ASSUME ImportTypeOK, openImportSettings
  PROVE  settings' \in {Closed} \cup Forms
<1>1. PICK cut \in Cuts(file) :
        LET s == [of |-> file, cut |-> cut, cols |-> target.cols]
            guess == Sniff(Sample(s), Truncated(s), target.cols)
            first == FirstRecord(s, guess.delim)
        IN IF first = Broken THEN UNCHANGED settings
           ELSE settings' = [open |-> TRUE, of |-> file, cut |-> cut, cols |-> target.cols,
                             delim |-> guess.delim, header |-> guess.header,
                             entries |-> FormatMapping(DefaultMapping(first, guess.header, target.cols), target.cols),
                             marker |-> ""]
  BY DEF openImportSettings
<1> DEFINE s == [of |-> file, cut |-> cut, cols |-> target.cols]
           guess == Sniff(Sample(s), Truncated(s), target.cols)
           first == FirstRecord(s, guess.delim)
           mapping == DefaultMapping(first, guess.header, target.cols)
           entries == FormatMapping(mapping, target.cols)
<1>2. file \in Files /\ file.recs # <<>> /\ target.cols \in Tables
  BY DEF ImportTypeOK, openImportSettings
<1>3. cut \in Seq(Fields)
  <2>1. file.recs \in Seq(Seq(Fields))
    BY <1>2, FilesAre
  <2>2. CASE cut = Broken
    BY <2>2 DEF Broken
  <2>3. CASE cut # Broken
    <3> DEFINE Record == Seq(Fields)
               rec == file.recs[SampleSize]
    <3>1. Len(file.recs) > SampleSize
      BY <2>1, <2>3, SizesAre DEF Cuts
    <3>2. cut = IF Len(rec) < 2 THEN rec ELSE SubSeq(rec, 1, Len(rec) - 1)
      BY <2>3, <3>1, <2>1, SizesAre DEF Cuts
    <3>3. file.recs \in Seq(Record)
      BY <2>1
    <3> HIDE DEF Record
    <3>4. rec \in Record
      BY <3>1, <3>3, SizesAre
    <3> USE DEF Record
    <3> HIDE DEF rec
    <3>5. rec \in Seq(Fields) /\ Len(rec) \in Nat
      BY <3>4
    <3>6. SubSeq(rec, 1, Len(rec) - 1) \in Seq(Fields)
      BY <3>5
    <3> QED
      BY <3>2, <3>5, <3>6
  <2> QED
    BY <2>2, <2>3
<1>4. s.of \in Files /\ s.of.recs # <<>> /\ s.cut \in Seq(Fields)
  BY <1>2, <1>3
<1>5. first \in Seq(Fields)
  BY <1>4, FirstRecordIs
<1>6. guess.delim \in Delims /\ guess.header \in BOOLEAN
  <2>1. Sample(s).recs \in Seq(Seq(Fields))
    BY <1>4, SampleIs
  <2> QED
    BY <2>1, SniffIs
<1> HIDE DEF first, guess, s
<1>7. entries \in Seq(Fields)
  <2>1. DOMAIN first = 1 .. Len(first) /\ Len(first) \in Nat
    BY <1>5
  <2>2. entries = [i \in 1 .. Len(first) |-> entries[i]]
    BY <2>1 DEF FormatMapping, DefaultMapping
  <2>3. \A i \in 1 .. Len(first) : mapping[i] # Skip => mapping[i] \in DOMAIN target.cols
    BY <1>2, <2>1, ColumnIs DEF DefaultMapping
  <2>4. \A i \in 1 .. Len(first) : entries[i] = IF mapping[i] = Skip THEN "-" ELSE target.cols[mapping[i]].name
    BY <2>1 DEF FormatMapping, DefaultMapping
  <2>5. \A i \in 1 .. Len(first) : entries[i] \in Fields
    <3> HIDE DEF entries, mapping
    <3> TAKE i \in 1 .. Len(first)
    <3>1. mapping[i] # Skip => target.cols[mapping[i]].name \in Fields
      BY <1>2, <2>3, TablesAre
    <3> QED
      BY <2>4, <3>1, TextsAre
  <2> HIDE DEF entries
  <2> QED
    BY <2>1, <2>2, <2>5, SequenceIs
<1> HIDE DEF entries, mapping
<1>8. CASE first = Broken
  BY <1>1, <1>8 DEF ImportTypeOK, first, guess, s
<1>9. CASE first # Broken
  <2>1. settings' = [open |-> TRUE, of |-> file, cut |-> cut, cols |-> target.cols, delim |-> guess.delim,
                     header |-> guess.header, entries |-> entries, marker |-> ""]
    BY <1>1, <1>9 DEF first, guess, s, entries, mapping
  <2> QED
    BY <1>2, <1>3, <1>6, <1>7, <2>1, TextsAre DEF Forms
<1> QED
  BY <1>8, <1>9

(* An edit of the form leaves a form.                                      *)
LEMMA EditsForm ==
  ASSUME ImportTypeOK, editSettings
  PROVE  settings' \in Forms
<1>1. settings \in Forms
  BY FormIs DEF editSettings
<1>2. \A d \in {Delimiters[i] : i \in DOMAIN Delimiters} : d \in Delims
  <2>1. DOMAIN Delimiters = {1, 2} /\ Delimiters[1] = "," /\ Delimiters[2] = ";"
    BY DEF Delimiters
  <2> QED
    BY <2>1 DEF Delims
<1>3. CASE \E d \in {Delimiters[i] : i \in DOMAIN Delimiters} : settings' = [settings EXCEPT !.delim = d]
  BY <1>1, <1>2, <1>3 DEF Forms
<1>4. CASE settings' = [settings EXCEPT !.header = ~@]
  BY <1>1, <1>4 DEF Forms
<1>5. CASE \E e \in Entries : settings' = [settings EXCEPT !.entries = e]
  <2>1. \A e \in Entries : e \in Seq(Fields)
    BY ImportAssumption
  <2> QED
    BY <1>1, <1>5, <2>1 DEF Forms
<1>6. CASE \E f \in Markers : settings' = [settings EXCEPT !.marker = f]
  <2>1. Markers \subseteq Fields
    BY ImportAssumption
  <2> QED
    BY <1>1, <1>6, <2>1 DEF Forms
<1> QED
  BY <1>3, <1>4, <1>5, <1>6 DEF editSettings

(* What does not concern the worker leaves it as it is.                    *)
LEMMA ElsewhereKeeps ==
  ASSUME ImportInv, UNCHANGED import, target.rows' = target.rows, target' \in [cols : Tables, rows : Seq(TableRows)],
         file' \in Files, settings' \in {Closed} \cup Forms
  PROVE  ImportInv'
BY DEF ImportInv, ImportTypeOK

(* The steps of the form touch neither worker nor table.                   *)
LEMMA FormStepsKeep ==
  ASSUME ImportInv, openImportSettings \/ editSettings \/ Esc
  PROVE  ImportInv'
<1>1. ImportTypeOK
  BY DEF ImportInv
<1>2. settings' \in {Closed} \cup Forms
  BY <1>1, OpensForm, EditsForm DEF Esc
<1>3. UNCHANGED <<file, target, import>>
  BY DEF openImportSettings, editSettings, Esc
<1> QED
  BY <1>1, <1>2, <1>3, ElsewhereKeeps DEF ImportTypeOK

(* A file or table that others replace is one of those there may be.       *)
LEMMA OthersKeep ==
  ASSUME ImportInv, Rewrite \/ Alter
  PROVE  ImportInv'
<1>1. ImportTypeOK
  BY DEF ImportInv
<1>2. UNCHANGED <<settings, import>>
  BY DEF Rewrite, Alter, Meanwhile
<1>3. CASE Rewrite
  BY <1>1, <1>2, <1>3, ElsewhereKeeps DEF ImportTypeOK, Rewrite
<1>4. CASE Alter
  <2>1. PICK t \in Tables : target' = [target EXCEPT !.cols = t]
    BY <1>4 DEF Alter
  <2>2. target' \in [cols : Tables, rows : Seq(TableRows)] /\ target.rows' = target.rows
    BY <1>1, <2>1 DEF ImportTypeOK
  <2>3. file' \in Files
    BY <1>1, <1>4 DEF ImportTypeOK, Alter
  <2> QED
    BY <1>1, <1>2, <2>2, <2>3, ElsewhereKeeps DEF ImportTypeOK
<1> QED
  BY <1>3, <1>4

(* A worker that starts has a plan that maps each column once.             *)
LEMMA RunKeeps ==
  ASSUME ImportInv, runImport
  PROVE  ImportInv'
<1> DEFINE first == FirstRecord(settings, settings.delim)
           mapping == ParseMapping(settings.entries, Len(first), settings.cols)
           p == [delim |-> settings.delim, header |-> settings.header, marker |-> settings.marker,
                 mapping |-> mapping, cols |-> settings.cols]
           started == [at |-> "open", said |-> "nothing", p |-> p, of |-> file, seen |-> settings, read |-> 0,
                       rows |-> <<>>, before |-> target.rows, kept |-> FALSE, cancelled |-> FALSE, lost |-> FALSE]
<1>1. ImportTypeOK /\ settings \in Forms
  BY FormIs DEF ImportInv, runImport
<1>2. settings' = Closed /\ UNCHANGED <<file, target>>
  BY DEF runImport
<1>3. CASE UNCHANGED import
  BY <1>1, <1>2, <1>3, ElsewhereKeeps DEF ImportTypeOK
<1>4. CASE import' = started
  <2>1. /\ settings.of \in Files /\ settings.of.recs # <<>> /\ settings.cut \in Seq(Fields) /\ settings.cols \in Tables
        /\ settings.delim \in Delims /\ settings.header \in BOOLEAN /\ settings.marker \in Fields
    BY <1>1 DEF Forms
  <2>2. Len(first) \in Nat
    <3>1. first \in Seq(Fields)
      BY <2>1, FirstRecordIs
    <3> QED
      BY <3>1
  <2>3. mapping \in Seq(Nat)
    BY <2>1, <2>2, MappingIs
  <2>4. ~MappingFails(settings.entries, mapping, Len(first), settings.cols)
    BY DEF runImport
  <2>5. p.mapping = mapping /\ p.cols = settings.cols
    OBVIOUS
  <2> HIDE DEF first, mapping
  <2>6. p \in Plans
    BY <2>1, <2>3 DEF Plans
  <2> HIDE DEF p
  <2>7. MapsOnce(p)
    BY <2>1, <2>2, <2>4, <2>5, MappingIs DEF mapping
  <2>8. target.rows \in Seq(TableRows) /\ file \in Files /\ <<>> \in Seq(TableRows)
    BY <1>1 DEF ImportTypeOK
  <2>9. started \in Imports
    BY <1>1, <2>6, <2>8 DEF Imports
  <2>10. Holds(started, target.rows)
    BY <2>7, <2>8 DEF Holds, Running, Ended
  <2> HIDE DEF started
  <2> QED
    BY <1>1, <1>2, <1>4, <2>9, <2>10 DEF ImportInv, ImportTypeOK
<1> QED
  BY <1>3, <1>4 DEF runImport

(* A step of the worker that leaves the table as it is: it is enough that  *)
(* what holds of the worker holds of it after the step.                    *)
LEMMA WorkerKeeps ==
  ASSUME ImportInv, import' \in Imports, Holds(import', target.rows), UNCHANGED <<file, target, settings>>
  PROVE  ImportInv'
BY DEF ImportInv, ImportTypeOK

(* An error at any point rolls back.                                       *)
LEMMA FailsKeep ==
  ASSUME ImportInv, import.at \in {"open", "insert", "commit"}, Fails, UNCHANGED <<file, settings>>
  PROVE  ImportInv'
<1>1. import \in Imports /\ Holds(import, target.rows)
  BY WorkerIs
<1> DEFINE k == [import EXCEPT !.at = "done"]
<1>2. /\ k \in Imports /\ k.at = "done" /\ k.of = import.of /\ k.p = import.p /\ k.before = import.before
      /\ k.kept = import.kept /\ k.lost = import.lost /\ k.said = import.said
  BY <1>1 DEF Imports
<1> HIDE DEF k
<1>3. Holds(k, target.rows)
  BY <1>1, <1>2 DEF Holds, Running, Ended
<1>4. import' = k /\ UNCHANGED target
  BY DEF Fails, k
<1> QED
  BY <1>2, <1>3, <1>4, WorkerKeeps

(* A cancel is only noted: cancelImport.                                   *)
LEMMA CancelKeeps ==
  ASSUME ImportInv, cancelImport
  PROVE  ImportInv'
<1>1. import \in Imports /\ Holds(import, target.rows)
  BY WorkerIs DEF cancelImport
<1> DEFINE k == [import EXCEPT !.cancelled = TRUE]
<1>2. /\ k \in Imports /\ k.at = import.at /\ k.of = import.of /\ k.p = import.p /\ k.before = import.before
      /\ k.kept = import.kept /\ k.lost = import.lost /\ k.said = import.said /\ k.read = import.read /\ k.rows = import.rows
  BY <1>1 DEF Imports
<1> HIDE DEF k
<1>3. Holds(k, target.rows)
  BY <1>1, <1>2 DEF Holds, Running, Ended
<1>4. import' = k /\ UNCHANGED <<file, target, settings>>
  BY DEF cancelImport, k
<1> QED
  BY <1>2, <1>3, <1>4, WorkerKeeps

(* The final message says what was kept: finishImport.                     *)
LEMMA FinishKeeps ==
  ASSUME ImportInv, finishImport
  PROVE  ImportInv'
<1>1. import \in Imports /\ Holds(import, target.rows) /\ import.at = "done"
  BY WorkerIs DEF finishImport
<1> DEFINE said == IF import.kept THEN "committed" ELSE "rolled back"
           k == [import EXCEPT !.at = "none", !.said = said, !.read = 0, !.rows = <<>>, !.cancelled = FALSE]
<1>0. said \in {"committed", "rolled back"} /\ <<>> \in Seq(TableRows)
  OBVIOUS
<1> HIDE DEF said
<1>2. /\ k \in Imports /\ k.at = "none" /\ k.of = import.of /\ k.p = import.p /\ k.before = import.before
      /\ k.kept = import.kept /\ k.lost = import.lost
      /\ k.said = said
  BY <1>0, <1>1 DEF Imports
<1>3. import.kept \in BOOLEAN
  BY <1>1 DEF Imports
<1> HIDE DEF k
<1>4. Holds(k, target.rows)
  BY <1>1, <1>2, <1>3 DEF Holds, Running, Ended, said
<1>5. import' = k /\ UNCHANGED <<file, target, settings>>
  BY DEF finishImport, Steps, k, said
<1> QED
  BY <1>2, <1>4, <1>5, WorkerKeeps

(* The file that a worker reads has as many records under any delimiter.   *)
LEMMA RecordsAre ==
  ASSUME NEW j \in Imports
  PROVE  /\ newReader(j.of, j.p.delim) \in Seq(Seq(Fields)) /\ Len(newReader(j.of, j.p.delim)) \in Nat
         /\ HeaderRows(j.p) \in {0, 1} /\ j.p \in Plans
<1>1. j.of \in Files /\ j.p \in Plans
  BY DEF Imports
<1>2. newReader(j.of, j.p.delim) \in Seq(Seq(Fields))
  BY <1>1, FilesAre, ReaderIs
<1>3. \A S, s : s \in Seq(S) => Len(s) \in Nat
  OBVIOUS
<1> QED
  BY <1>1, <1>2, <1>3 DEF HeaderRows

(* The head of the file as it is now has the width of the mapping: importRows. *)
LEMMA BeginKeeps ==
  ASSUME ImportInv, BeginImport
  PROVE  ImportInv'
<1>1. import \in Imports /\ Holds(import, target.rows) /\ import.at = "open"
  BY WorkerIs DEF BeginImport
<1>2. UNCHANGED <<file, settings>>
  BY DEF BeginImport, Steps
<1>3. CASE Fails
  BY <1>1, <1>2, <1>3, FailsKeep
<1>4. CASE ~Fails
  <2> DEFINE k == [import EXCEPT !.at = "insert", !.read = HeaderRows(import.p)]
  <2>1. Records # <<>> /\ import' = k /\ UNCHANGED target
    BY <1>4 DEF BeginImport
  <2>2. Records \in Seq(Seq(Fields)) /\ HeaderRows(import.p) \in {0, 1}
    BY <1>1, RecordsAre DEF Records
  <2>3. Len(Records) \in Nat /\ Len(Records) >= 1
    <3> DEFINE Record == Seq(Fields)
    <3> HIDE DEF Record
    <3>1. Records \in Seq(Record)
      BY <2>2 DEF Record
    <3> QED
      BY <2>1, <3>1
  <2>4. import.rows = <<>> /\ Len(import.rows) = 0 /\ HeaderRows(import.p) \in Nat
    BY <1>1, <2>2 DEF Holds, Running
  <2>5. /\ k \in Imports /\ k.at = "insert" /\ k.of = import.of /\ k.p = import.p /\ k.before = import.before
        /\ k.kept = import.kept /\ k.lost = import.lost /\ k.said = import.said /\ k.rows = import.rows
        /\ k.read = HeaderRows(import.p)
    BY <1>1, <2>4 DEF Imports
  <2> HIDE DEF k
  <2>6. HeaderRows(import.p) \in HeaderRows(import.p) .. Len(Records) /\ HeaderRows(import.p) - HeaderRows(import.p) = 0
    BY <2>2, <2>3
  <2>7. Become(k.p, Records, Len(k.rows), k.rows, 0)
    BY <2>4, <2>5 DEF Become
  <2>8. Records = newReader(k.of, k.p.delim)
    BY <2>5 DEF Records
  <2>9. Holds(k, target.rows)
    BY <1>1, <2>4, <2>5, <2>6, <2>7, <2>8 DEF Holds, Running, Ended
  <2> QED
    BY <1>2, <2>1, <2>5, <2>9, WorkerKeeps DEF k
<1> QED
  BY <1>3, <1>4

(* One turn of the loop adds the row of the record it read: ImportRows.    *)
LEMMA RowKeeps ==
  ASSUME ImportInv, NextRow
  PROVE  ImportInv'
<1>1. import \in Imports /\ Holds(import, target.rows) /\ import.at = "insert"
  BY WorkerIs DEF NextRow
<1>2. UNCHANGED <<file, settings>>
  BY DEF NextRow, Steps
<1> DEFINE i == import.read + 1
           H == HeaderRows(import.p)
<1>3. /\ Records \in Seq(Seq(Fields)) /\ H \in {0, 1} /\ import.p \in Plans
      /\ MapsOnce(import.p)
  BY <1>1, RecordsAre DEF Records, Holds
<1>4. /\ import.read \in H .. Len(Records) /\ Len(import.rows) = import.read - H
      /\ Become(import.p, Records, Len(import.rows), import.rows, 0)
  BY <1>1 DEF Holds, Running, Records
<1>5. import.read \in Nat /\ import.rows \in Seq(TableRows) /\ Len(Records) \in Nat
  BY <1>1, RecordsAre DEF Imports, Records
<1>6. CASE Fails
  BY <1>1, <1>2, <1>6, FailsKeep
<1>7. CASE i > Len(Records) /\ import' = [import EXCEPT !.at = "commit"] /\ UNCHANGED target
  <2> DEFINE k == [import EXCEPT !.at = "commit"]
  <2>1. /\ k \in Imports /\ k.at = "commit" /\ k.of = import.of /\ k.p = import.p /\ k.before = import.before
        /\ k.kept = import.kept /\ k.lost = import.lost /\ k.said = import.said /\ k.rows = import.rows
        /\ k.read = import.read
    BY <1>1 DEF Imports
  <2> HIDE DEF k
  <2>2. import.read = Len(Records)
    BY <1>3, <1>4, <1>5, <1>7
  <2>3. Holds(k, target.rows)
    BY <1>1, <2>1, <2>2 DEF Holds, Running, Ended, Records
  <2> QED
    BY <1>2, <1>7, <2>1, <2>3, WorkerKeeps DEF k
<1>8. CASE /\ i <= Len(Records) /\ ~RowFails(import.p, Records[i]) /\ UNCHANGED target
           /\ import' = [import EXCEPT !.read = i, !.rows = Append(@, Row(import.p, Records[i]))]
  <2> DEFINE row == Row(import.p, Records[i])
             rows == Append(import.rows, row)
             k == [import EXCEPT !.read = i, !.rows = rows]
  <2>1. Records[i] \in Seq(Fields)
    <3> DEFINE Record == Seq(Fields)
    <3>1. Records \in Seq(Record)
      BY <1>3
    <3> HIDE DEF Record
    <3>2. Records[i] \in Record
      BY <1>5, <1>8, <3>1
    <3> QED
      BY <3>2 DEF Record
  <2>2. row \in TableRows /\ Landed(import.p, Records[i], row)
    BY <1>3, <1>8, <2>1, RowIs
  <2> HIDE DEF row
  <2>3. /\ rows \in Seq(TableRows) /\ Len(rows) = Len(import.rows) + 1 /\ Len(import.rows) \in Nat
        /\ rows[Len(import.rows) + 1] = row
        /\ \A n \in 1 .. Len(import.rows) : rows[n] = import.rows[n]
    BY <1>5, <2>2
  <2> HIDE DEF rows
  <2>4. i \in Nat
    BY <1>5
  <2>5. /\ k \in Imports /\ k.at = "insert" /\ k.of = import.of /\ k.p = import.p /\ k.before = import.before
        /\ k.kept = import.kept /\ k.lost = import.lost /\ k.said = import.said /\ k.rows = rows /\ k.read = i
    BY <1>1, <2>3, <2>4 DEF Imports
  <2> HIDE DEF k
  <2>6. i \in H .. Len(Records) /\ Len(rows) = i - H /\ H + Len(rows) = i
    <3>1. H \in Nat
      BY <1>3
    <3> HIDE DEF H
    <3> QED
      BY <1>4, <1>5, <1>8, <2>3, <3>1
  <2>7. Become(import.p, Records, Len(rows), rows, 0)
    <3> SUFFICES ASSUME NEW n \in 1 .. Len(rows)  PROVE Landed(import.p, Records[H + n], rows[0 + n])
      BY DEF Become
    <3>1. 0 + n = n /\ n \in Nat
      BY <2>3
    <3>2. CASE n = Len(rows)
      BY <2>2, <2>3, <2>6, <3>1, <3>2
    <3>3. CASE n # Len(rows)
      <4>1. n \in 1 .. Len(import.rows)
        BY <2>3, <3>3
      <4>2. Landed(import.p, Records[H + n], import.rows[0 + n])
        BY <1>4, <4>1 DEF Become
      <4> QED
        BY <2>3, <3>1, <4>1, <4>2
    <3> QED
      BY <3>2, <3>3
  <2>8. Records = newReader(k.of, k.p.delim)
    BY <2>5 DEF Records
  <2>9. Holds(k, target.rows)
    BY <1>1, <2>5, <2>6, <2>7, <2>8 DEF Holds, Running, Ended
  <2>10. import' = k /\ UNCHANGED target
    BY <1>8 DEF k, rows, row
  <2> QED
    BY <1>2, <2>5, <2>9, <2>10, WorkerKeeps
<1> QED
  BY <1>6, <1>7, <1>8 DEF NextRow

(* With COMMIT the rows that were inserted follow those there were.        *)
LEMMA CommitKeeps ==
  ASSUME ImportInv, CommitRows
  PROVE  ImportInv'
<1>1. import \in Imports /\ Holds(import, target.rows) /\ import.at = "commit"
  BY WorkerIs DEF CommitRows
<1>2. UNCHANGED <<file, settings>>
  BY DEF CommitRows, Steps
<1>3. CASE Fails
  BY <1>1, <1>2, <1>3, FailsKeep
<1>4. CASE ~Fails
  <2>1. PICK lost \in BOOLEAN : /\ import' = [import EXCEPT !.at = "done", !.kept = ~lost, !.lost = lost]
                                /\ target' = [target EXCEPT !.rows = @ \o import.rows]
    BY <1>4 DEF CommitRows
  <2> DEFINE k == [import EXCEPT !.at = "done", !.kept = ~lost, !.lost = lost]
             rows == target.rows \o import.rows
             H == HeaderRows(import.p)
  <2>2. /\ k \in Imports /\ k.at = "done" /\ k.of = import.of /\ k.p = import.p /\ k.before = import.before
        /\ k.kept = ~lost /\ k.lost = lost /\ k.said = import.said
    BY <1>1 DEF Imports
  <2> HIDE DEF k
  <2>3. /\ H \in {0, 1} /\ Len(Records) \in Nat
    BY <1>1, RecordsAre DEF Records
  <2>4. /\ H <= Len(Records) /\ Len(import.rows) = Len(Records) - H
        /\ Become(import.p, Records, Len(import.rows), import.rows, 0)
        /\ target.rows = import.before /\ import.said = "nothing" /\ MapsOnce(import.p)
    BY <1>1, <2>3 DEF Holds, Running, Records
  <2>5. target \in [cols : Tables, rows : Seq(TableRows)] /\ import.rows \in Seq(TableRows)
        /\ import.before \in Seq(TableRows)
    BY <1>1 DEF ImportInv, ImportTypeOK, Imports
  <2>0. target.rows \in Seq(TableRows) /\ target.rows = import.before
    BY <2>4, <2>5
  <2>6. /\ rows \in Seq(TableRows) /\ Len(rows) = Len(import.before) + Len(import.rows)
        /\ \A n \in 1 .. Len(import.before) : rows[n] = import.before[n]
        /\ \A n \in 1 .. Len(import.rows) : rows[Len(import.before) + n] = import.rows[n]
        /\ Len(import.before) \in Nat /\ Len(import.rows) \in Nat /\ DOMAIN import.before = 1 .. Len(import.before)
    <3> DEFINE a == import.before
               b == import.rows
    <3>1. a \in Seq(TableRows) /\ b \in Seq(TableRows) /\ rows = a \o b
      BY <2>0, <2>5
    <3> HIDE DEF a, b, rows
    <3>2. /\ a \o b \in Seq(TableRows) /\ Len(a \o b) = Len(a) + Len(b)
          /\ \A n \in 1 .. Len(a) : (a \o b)[n] = a[n]
          /\ \A n \in 1 .. Len(b) : (a \o b)[Len(a) + n] = b[n]
          /\ Len(a) \in Nat /\ Len(b) \in Nat /\ DOMAIN a = 1 .. Len(a)
      BY <3>1, JoinedIs, Zenon
    <3> QED
      BY <3>1, <3>2 DEF a, b
  <2> HIDE DEF rows, H
  <2>7. Become(import.p, Records, Len(Records) - H, rows, Len(import.before))
    <3> SUFFICES ASSUME NEW n \in 1 .. Len(import.rows)
                 PROVE Landed(import.p, Records[H + n], rows[Len(import.before) + n])
      BY <2>4 DEF Become, H
    <3>1. Landed(import.p, Records[H + n], import.rows[0 + n]) /\ 0 + n = n
      BY <2>4 DEF Become, H
    <3> QED
      BY <2>6, <3>1
  <2>8. Len(rows) = Len(import.before) + Len(Records) - H /\ Len(import.before) <= Len(rows)
    BY <2>3, <2>4, <2>6
  <2>9. Records = newReader(k.of, k.p.delim)
    BY <2>2 DEF Records
  <2>10. Holds(k, rows)
    BY <2>1, <2>2, <2>4, <2>6, <2>7, <2>8, <2>9 DEF Holds, Running, Ended, H
  <2>11. target' \in [cols : Tables, rows : Seq(TableRows)] /\ target.rows' = rows
    BY <2>1, <2>5, <2>6 DEF rows
  <2>12. import' = k
    BY <2>1 DEF k
  <2> QED
    BY <1>2, <2>2, <2>10, <2>11, <2>12 DEF ImportInv, ImportTypeOK
<1> QED
  BY <1>3, <1>4

(* The inductive invariant of the import.                                  *)
THEOREM ImportInvariant == ImportSpec => []ImportInv
<1>1. ImportInit => ImportInv
  BY ImportStart
<1>2. ImportInv /\ [ImportNext]_importVars => ImportInv'
  <2> SUFFICES ASSUME ImportInv, [ImportNext]_importVars  PROVE ImportInv'
    OBVIOUS
  <2>1. CASE UNCHANGED importVars
    BY <2>1 DEF importVars, ImportInv, ImportTypeOK
  <2>2. CASE openImportSettings \/ editSettings \/ Esc
    BY <2>2, FormStepsKeep
  <2>3. CASE runImport
    BY <2>3, RunKeeps
  <2>4. CASE BeginImport
    BY <2>4, BeginKeeps
  <2>5. CASE NextRow
    BY <2>5, RowKeeps
  <2>6. CASE CommitRows
    BY <2>6, CommitKeeps
  <2>7. CASE finishImport
    BY <2>7, FinishKeeps
  <2>8. CASE cancelImport
    BY <2>8, CancelKeeps
  <2>9. CASE Rewrite \/ Alter
    BY <2>9, OthersKeep
  <2> QED
    BY <2>1, <2>2, <2>3, <2>4, <2>5, <2>6, <2>7, <2>8, <2>9 DEF ImportNext
<1> QED
  BY <1>1, <1>2, PTL DEF ImportSpec

(* An import is all or nothing, says which, and every data record is a row *)
(* of the table; what was previewed of the file is what was imported.      *)
LEMMA ImportsTrue == ImportInv => ImportTruth
<1> SUFFICES ASSUME ImportInv, import.said # "nothing"  PROVE
      /\ \A i \in DOMAIN import.before : i \in DOMAIN target.rows /\ target.rows[i] = import.before[i]
      /\ import.said = "rolled back" /\ ~import.lost => target.rows = import.before
      /\ import.said = "committed" =>
         LET data == Data(Records, import.p)
             m == Preview(import.seen, import.p)
         IN /\ Len(Added) = Len(data) /\ \A i \in DOMAIN data : Landed(import.p, data[i], Added[i])
            /\ import.seen.of = import.of =>
                 \A i \in 1 .. m :
                   \/ Truncated(import.seen) /\ i + HeaderRows(import.p) = SampleSize
                   \/ i \in DOMAIN data /\ data[i] = newReader(Sample(import.seen), import.p.delim)[i + HeaderRows(import.p)]
  BY DEF ImportTruth
<1> DEFINE H == HeaderRows(import.p)
           rows == target.rows
           before == import.before
           data == Data(Records, import.p)
<1>1. import \in Imports /\ Holds(import, rows)
  BY DEF ImportInv, ImportTypeOK, NoImport
<1>2. rows \in Seq(TableRows) /\ before \in Seq(TableRows)
  BY <1>1 DEF ImportInv, ImportTypeOK, Imports
<1>3. Len(Records) \in Nat /\ Records \in Seq(Seq(Fields)) /\ H \in Nat
  BY <1>1, RecordsAre DEF Records
<1>4. Len(before) \in Nat /\ Len(rows) \in Nat /\ DOMAIN before = 1 .. Len(before) /\ DOMAIN rows = 1 .. Len(rows)
  BY <1>2
<1>5. /\ Len(before) <= Len(rows) /\ \A i \in DOMAIN before : rows[i] = before[i]
      /\ import.said = "committed" => import.kept
      /\ import.said = "rolled back" => ~import.kept
      /\ ~import.kept /\ ~import.lost => rows = before
      /\ import.kept => /\ H <= Len(Records) /\ Len(rows) = Len(before) + Len(Records) - H
                        /\ Become(import.p, Records, Len(Records) - H, rows, Len(before))
  BY <1>1 DEF Holds, Ended, Records
<1> DEFINE Record == Seq(Fields)
<1>8. Records \in Seq(Record) /\ H \in Nat /\ Len(Records) \in Nat
  BY <1>3
<1> HIDE DEF Record, H, rows, before
<1>6. \A i \in DOMAIN before : i \in DOMAIN rows /\ rows[i] = before[i]
  <2>1. Len(before) <= Len(rows) /\ \A i \in 1 .. Len(before) : rows[i] = before[i]
    BY <1>4, <1>5
  <2>2. \A i \in 1 .. Len(before) : i \in 1 .. Len(rows)
    BY <1>4, <2>1
  <2> QED
    BY <1>4, <2>1, <2>2
<1>7. ASSUME import.said = "committed"
      PROVE  /\ H <= Len(Records) /\ Len(rows) = Len(before) + Len(Records) - H
             /\ Become(import.p, Records, Len(Records) - H, rows, Len(before))
  BY <1>5, <1>7
<1>9. ASSUME import.said = "committed"
      PROVE  /\ Len(data) = Len(Records) - H /\ DOMAIN data = 1 .. Len(Records) - H
             /\ \A i \in 1 .. Len(Records) - H : data[i] = Records[H + i]
  <2>1. data = SubSeq(Records, H + 1, Len(Records))
    BY DEF Data, H
  <2>2. H <= Len(Records)
    BY <1>7, <1>9
  <2> QED
    BY <1>8, <2>1, <2>2, PartIs
<1>10. ASSUME import.said = "committed"
       PROVE  Len(Added) = Len(Records) - H /\ \A i \in 1 .. Len(Records) - H : Added[i] = rows[Len(before) + i]
  <2>1. Added = SubSeq(rows, Len(before) + 1, Len(rows))
    BY DEF Added, rows, before
  <2>2. rows \in Seq(TableRows) /\ Len(before) <= Len(rows) /\ Len(rows) - Len(before) = Len(Records) - H
    BY <1>2, <1>4, <1>5, <1>7, <1>8, <1>10
  <2>3. /\ Len(Added) = Len(rows) - Len(before)
        /\ \A i \in 1 .. Len(rows) - Len(before) : Added[i] = rows[Len(before) + i]
    BY <1>4, <2>1, <2>2, PartIs
  <2> QED
    BY <2>2, <2>3
<1>11. ASSUME import.said = "committed", NEW i \in DOMAIN data
       PROVE  Landed(import.p, data[i], Added[i])
  <2>2. i \in 1 .. Len(Records) - H
    BY <1>9, <1>11
  <2>3. Landed(import.p, Records[H + i], rows[Len(before) + i])
    BY <1>7, <1>11, <2>2 DEF Become, H
  <2> QED
    BY <1>9, <1>10, <1>11, <2>2, <2>3
<1>12. ASSUME import.said = "committed", import.seen.of = import.of, NEW i \in 1 .. Preview(import.seen, import.p)
       PROVE  \/ Truncated(import.seen) /\ i + H = SampleSize
              \/ i \in DOMAIN data /\ data[i] = newReader(Sample(import.seen), import.p.delim)[i + H]
  <2> DEFINE s == import.seen
             f == Sample(s)
             recs == newReader(f, import.p.delim)
             n == Whole(recs)
  <2>1. s.of \in Files /\ s.cut \in Seq(Fields)
    BY <1>1 DEF Imports, Forms
  <2>2. /\ f.recs \in Seq(Seq(Fields)) /\ f.sep = s.of.sep /\ Len(f.recs) <= Len(s.of.recs)
        /\ \A k \in DOMAIN f.recs : (Truncated(s) /\ k = SampleSize) \/ f.recs[k] = s.of.recs[k]
    BY <2>1, SampleIs
  <2>3. recs \in Seq(Seq(Fields)) /\ Len(recs) = Len(f.recs)
    BY <2>2, ReaderIs
  <2>4. n \in 0 .. Len(f.recs)
    BY <2>3, WholeIs
  <2>5. s.of.recs \in Seq(Seq(Fields)) /\ Len(Records) = Len(s.of.recs)
    BY <1>12, <2>1, FilesAre, ReaderIs DEF Records
  <2>6. \A S, q : q \in Seq(S) => Len(q) \in Nat /\ DOMAIN q = 1 .. Len(q)
    OBVIOUS
  <2>7. Len(f.recs) \in Nat /\ DOMAIN f.recs = 1 .. Len(f.recs) /\ DOMAIN s.of.recs = 1 .. Len(s.of.recs)
    BY <2>2, <2>5, <2>6
  <2>8. i \in 1 .. n - H
    <3> HIDE DEF n
    <3>1. Preview(s, import.p) = IF (IF n <= H THEN 0 ELSE n - H) < Previewed THEN (IF n <= H THEN 0 ELSE n - H) ELSE Previewed
      BY DEF Preview, n, H
    <3> QED
      BY <1>3, <1>12, <2>4, <2>7, <3>1, SizesAre
  <2> HIDE DEF n, recs, f, s
  <2> DEFINE x == i + H
  <2>9. i \in 1 .. Len(Records) - H /\ x = H + i /\ x \in 1 .. Len(f.recs) /\ x \in 1 .. Len(s.of.recs)
    <3> DEFINE a == Len(f.recs)
               b == Len(s.of.recs)
    <3>1. a \in Nat /\ a <= b /\ b = Len(Records) /\ n \in 0 .. a /\ H \in Nat /\ b \in Nat
      BY <1>8, <2>2, <2>4, <2>5, <2>7
    <3> HIDE DEF a, b
    <3>2. i \in 1 .. b - H /\ x = H + i /\ x \in 1 .. a /\ x \in 1 .. b
      BY <2>8, <3>1
    <3> QED
      BY <3>1, <3>2 DEF a, b
  <2> HIDE DEF x
  <2>11. i \in DOMAIN data /\ data[i] = Records[x]
    BY <1>9, <1>12, <2>9
  <2>12. CASE f.recs[x] = s.of.recs[x]
    <3>1. recs[x] = newReader(s.of, import.p.delim)[x]
      <4>1. /\ f.recs \in Seq(Seq(Fields)) /\ s.of.recs \in Seq(Seq(Fields)) /\ f.sep = s.of.sep
            /\ x \in DOMAIN f.recs /\ x \in DOMAIN s.of.recs
        BY <2>2, <2>5, <2>7, <2>9
      <4>2. \A d : newReader(f, d)[x] = newReader(s.of, d)[x]
        BY <2>12, <4>1 DEF newReader
      <4> QED
        BY <4>2 DEF recs
    <3>2. Records[x] = recs[x]
      BY <1>12, <3>1 DEF Records, s
    <3> QED
      BY <2>11, <3>2 DEF recs, f, s, x
  <2>13. CASE Truncated(s) /\ x = SampleSize
    BY <2>13 DEF s, x
  <2> QED
    BY <2>2, <2>7, <2>9, <2>12, <2>13
<1> HIDE DEF data
<1> QED
  BY <1>5, <1>6, <1>9, <1>10, <1>11, <1>12 DEF data, rows, before, H

(* Nothing of an import remains that is said to be rolled back, and all of *)
(* the file is in the table of one that is said to be committed.           *)
THEOREM ImportIsTrue == ImportSpec => []ImportTruth
BY ImportInvariant, ImportsTrue, PTL
=============================================================================
