---------------------------- MODULE ClusterUpProofs ----------------------------
(***************************************************************************)
(* Theorems about ClusterUp, for any machines, node types and balancing.   *)
(*                                                                         *)
(* The assignment is a recursion over the workers of the file.  What it    *)
(* yields is shown by the least number of workers for which it would not.  *)
(***************************************************************************)
EXTENDS ClusterUp, FiniteSetTheorems, SequenceTheorems, TLAPS

LEMMA LeastNumber ==
  ASSUME NEW S \in SUBSET Nat, S # {}
  PROVE  \E n \in S : \A m \in S : n <= m
<1>1. PICK n \in S : \A m \in S : <<m, n>> \notin OpToRel(<, Nat)
  BY WFMin, NatLessThanWellFounded
<1>2. \A m \in S : ~(m < n)
  BY <1>1 DEF OpToRel
<1> QED BY <1>2

\* A set that holds 0 and with every number the next one, up to N.
LEMMA CountsUp ==
  ASSUME NEW N \in Nat, NEW G, 0 \in G, \A n \in 1 .. N : n - 1 \in G => n \in G
  PROVE  0 .. N \subseteq G
<1> SUFFICES ASSUME (0 .. N) \ G # {} PROVE FALSE
  OBVIOUS
<1> DEFINE B == (0 .. N) \ G
<1>1. PICK b \in B : \A m \in B : b <= m
  <2>1. B \in SUBSET Nat /\ B # {}
    OBVIOUS
  <2> HIDE DEF B
  <2> QED BY <2>1, LeastNumber
<1>2. b \in 1 .. N /\ b - 1 \in 0 .. N /\ b - 1 \in G
  BY <1>1
<1> QED BY <1>1, <1>2

\* f is defined by recursion.
Recursive(f, S, base, N, next) ==
  f \in [0 .. N -> S] /\ f[0] = base /\ \A k \in 1 .. N : f[k] = next[<<f[k - 1], k>>]

\* There is such a function.
LEMMA RecursionExists ==
  ASSUME NEW S, NEW base \in S, NEW N \in Nat, NEW next \in [S \X (1 .. N) -> S]
  PROVE  \E f : Recursive(f, S, base, N, next)
<1> DEFINE Sound(f, n) == f[0] = base /\ \A k \in 1 .. n : f[k] = next[<<f[k - 1], k>>]
           G == {n \in 0 .. N : \E f \in [0 .. n -> S] : Sound(f, n)}
<1>1. 0 \in G
  <2> DEFINE f == [k \in 0 .. 0 |-> base]
  <2>1. f \in [0 .. 0 -> S] /\ f[0] = base
    OBVIOUS
  <2>2. Sound(f, 0)
    BY <2>1
  <2> HIDE DEF f
  <2> QED BY <2>1, <2>2
<1>2. ASSUME NEW n \in 1 .. N, n - 1 \in G PROVE n \in G
  <2>1. PICK f \in [0 .. n - 1 -> S] : Sound(f, n - 1)
    BY <1>2
  <2> DEFINE g == [k \in 0 .. n |-> IF k = n THEN next[<<f[n - 1], n>>] ELSE f[k]]
  <2>2. f[n - 1] \in S /\ next[<<f[n - 1], n>>] \in S
    OBVIOUS
  <2>3. g \in [0 .. n -> S]
    BY <2>2
  <2>4. g[0] = base
    BY <2>1
  <2>5. ASSUME NEW k \in 1 .. n PROVE g[k] = next[<<g[k - 1], k>>]
    <3>1. CASE k = n
      BY <3>1
    <3>2. CASE k # n
      <4>1. k \in 1 .. n - 1 /\ g[k] = f[k] /\ g[k - 1] = f[k - 1]
        BY <3>2
      <4> QED BY <2>1, <4>1
    <3> QED BY <3>1, <3>2
  <2> HIDE DEF g
  <2>6. Sound(g, n)
    BY <2>4, <2>5
  <2> QED BY <2>3, <2>6
<1> HIDE DEF G
<1>3. N \in G
  BY <1>1, <1>2, CountsUp
<1> QED BY <1>3 DEF G, Recursive

-----------------------------------------------------------------------------
(* The workers of the file                                                   *)

Counts == [TypeSet -> 0 .. MaxWorkers]
Entry  == [type : TypeSet, idx : Nat]
Part(n, k) == [i \in 1 .. n[Types[k]] |-> [type |-> Types[k], idx |-> i - 1]]

LEMMA TypesOfFile ==
  /\ Len(Types) \in Nat /\ DOMAIN Types = 1 .. Len(Types)
  /\ \A k \in 1 .. Len(Types) : Types[k] \in TypeSet
  /\ \A j, k \in 1 .. Len(Types) : Types[j] = Types[k] => j = k
BY TypesAssumption DEF IsInjective

LEMMA PartProperties ==
  ASSUME NEW n \in Counts, NEW k \in 1 .. Len(Types)
  PROVE  /\ Part(n, k) \in Seq(Entry) /\ Len(Part(n, k)) = n[Types[k]]
         /\ \A i \in 1 .. Len(Part(n, k)) : Part(n, k)[i] = [type |-> Types[k], idx |-> i - 1]
<1>1. n[Types[k]] \in Nat /\ Types[k] \in TypeSet
  BY TypesOfFile, BoundAssumption DEF Counts
<1>2. \A i \in 1 .. n[Types[k]] : [type |-> Types[k], idx |-> i - 1] \in Entry
  BY <1>1 DEF Entry
<1> QED BY <1>1, <1>2 DEF Part

\* Each worker of the file is listed once.
Once(s) == \A i, j \in 1 .. Len(s) : s[i] = s[j] => i = j

LEMMA ListedProperties ==
  ASSUME NEW n \in Counts
  PROVE  Listed(n) \in Seq(Entry) /\ Once(Listed(n))
<1> DEFINE N    == Len(Types)
           F(f) == [k \in 0 .. N |-> IF k = 0 THEN <<>> ELSE f[k - 1] \o Part(n, k)]
           first == CHOOSE f : f = F(f)
<1>1. N \in Nat
  BY TypesOfFile
<1>2. first = F(first)
  <2> DEFINE next == [p \in Seq(Entry) \X (1 .. N) |-> p[1] \o Part(n, p[2])]
  <2>1. next \in [Seq(Entry) \X (1 .. N) -> Seq(Entry)]
    BY PartProperties, ConcatProperties
  <2>2. <<>> \in Seq(Entry)
    OBVIOUS
  <2>3. PICK f : Recursive(f, Seq(Entry), <<>>, N, next)
    <3> HIDE DEF next, N
    <3> QED BY <1>1, <2>1, <2>2, RecursionExists
  <2>4. ASSUME NEW k \in 1 .. N PROVE f[k] = f[k - 1] \o Part(n, k)
    <3>1. f[k - 1] \in Seq(Entry)
      BY <1>1, <2>3 DEF Recursive
    <3> QED BY <2>3, <3>1 DEF Recursive
  <2>5. f = F(f)
    BY <1>1, <2>3, <2>4 DEF Recursive
  <2> QED BY <2>5
<1>3. Listed(n) = first[N]
  BY DEF Listed, Part
<1> HIDE DEF first
<1>4. first[0] = <<>> /\ \A k \in 1 .. N : first[k] = first[k - 1] \o Part(n, k)
  <2> HIDE DEF N
  <2>1. \A k \in 0 .. N : first[k] = IF k = 0 THEN <<>> ELSE first[k - 1] \o Part(n, k)
    BY <1>2
  <2>2. 0 \in 0 .. N /\ \A k \in 1 .. N : k \in 0 .. N /\ k # 0
    BY <1>1
  <2> QED BY <2>1, <2>2
<1> DEFINE G == {k \in 0 .. N :
                  /\ first[k] \in Seq(Entry) /\ Once(first[k])
                  /\ \A i \in 1 .. Len(first[k]) : \E j \in 1 .. k : first[k][i].type = Types[j]}
<1>5. 0 \in G
  <2> HIDE DEF N
  <2>1. first[0] \in Seq(Entry) /\ Len(first[0]) = 0
    BY <1>4
  <2>2. Once(first[0])
    BY <2>1 DEF Once
  <2> QED BY <1>1, <2>1, <2>2
<1>6. ASSUME NEW k \in 1 .. N, k - 1 \in G PROVE k \in G
  <2> DEFINE s == first[k - 1]
             t == Part(n, k)
  <2>1. /\ s \in Seq(Entry) /\ Once(s)
        /\ \A i \in 1 .. Len(s) : \E j \in 1 .. k - 1 : s[i].type = Types[j]
    BY <1>6
  <2>2. /\ t \in Seq(Entry) /\ \A i \in 1 .. Len(t) : t[i] = [type |-> Types[k], idx |-> i - 1]
    BY PartProperties
  <2>3. first[k] = s \o t
    BY <1>4
  <2> HIDE DEF s, t, first
  <2>4. /\ s \o t \in Seq(Entry) /\ Len(s \o t) = Len(s) + Len(t)
        /\ \A i \in 1 .. Len(s) + Len(t) : (s \o t)[i] = IF i <= Len(s) THEN s[i] ELSE t[i - Len(s)]
    BY <2>1, <2>2, ConcatProperties
  <2>5. Len(s) \in Nat /\ Len(t) \in Nat
    BY <2>1, <2>2
  <2>6. ASSUME NEW i \in 1 .. Len(s \o t)
        PROVE  \/ i \in 1 .. Len(s) /\ (s \o t)[i] = s[i]
               \/ (s \o t)[i].type = Types[k] /\ (s \o t)[i].idx = i - Len(s) - 1
    <3>1. CASE i <= Len(s)
      BY <2>4, <2>5, <3>1
    <3>2. CASE i > Len(s)
      <4>1. i - Len(s) \in 1 .. Len(t) /\ (s \o t)[i] = t[i - Len(s)]
        BY <2>4, <2>5, <3>2
      <4>2. t[i - Len(s)] = [type |-> Types[k], idx |-> i - Len(s) - 1]
        BY <2>2, <4>1
      <4> QED BY <4>1, <4>2
    <3> QED BY <2>4, <2>5, <3>1, <3>2
  <2>7. \A i \in 1 .. Len(s \o t) : \E j \in 1 .. k : (s \o t)[i].type = Types[j]
    <3> SUFFICES ASSUME NEW i \in 1 .. Len(s \o t) PROVE \E j \in 1 .. k : (s \o t)[i].type = Types[j]
      OBVIOUS
    <3>1. CASE i \in 1 .. Len(s) /\ (s \o t)[i] = s[i]
      <4>1. PICK j \in 1 .. k - 1 : s[i].type = Types[j]
        BY <2>1, <3>1
      <4>2. j \in 1 .. k
        OBVIOUS
      <4> QED BY <3>1, <4>1, <4>2
    <3>2. CASE (s \o t)[i].type = Types[k]
      BY <3>2
    <3> QED BY <2>6, <3>1, <3>2
  <2>8. \A i \in 1 .. Len(s) : s[i].type # Types[k]
    BY <2>1, TypesOfFile
  <2>9. Once(s \o t)
    <3> SUFFICES ASSUME NEW i \in 1 .. Len(s \o t), NEW j \in 1 .. Len(s \o t),
                        (s \o t)[i] = (s \o t)[j]
                 PROVE  i = j
      BY DEF Once
    <3>1. CASE i \in 1 .. Len(s) /\ (s \o t)[i] = s[i]
      <4>1. CASE j \in 1 .. Len(s) /\ (s \o t)[j] = s[j]
        BY <2>1, <3>1, <4>1 DEF Once
      <4>2. CASE (s \o t)[j].type = Types[k]
        <5>1. s[i].type # Types[k] /\ (s \o t)[j].type = Types[k]
          BY <2>8, <3>1, <4>2
        <5> QED BY <3>1, <5>1
      <4> QED BY <2>6, <4>1, <4>2
    <3>2. CASE (s \o t)[i].type = Types[k] /\ (s \o t)[i].idx = i - Len(s) - 1
      <4>1. CASE j \in 1 .. Len(s) /\ (s \o t)[j] = s[j]
        <5>1. s[j].type # Types[k] /\ (s \o t)[i].type = Types[k]
          BY <2>8, <3>2, <4>1
        <5> QED BY <4>1, <5>1
      <4>2. CASE (s \o t)[j].idx = j - Len(s) - 1
        <5>1. i - Len(s) - 1 = j - Len(s) - 1
          BY <3>2, <4>2
        <5> QED BY <2>4, <2>5, <5>1
      <4> QED BY <2>6, <4>1, <4>2
    <3> QED BY <2>6, <3>1, <3>2
  <2>10. k \in 0 .. N
    BY <1>1
  <2> QED BY <2>3, <2>4, <2>7, <2>9, <2>10
<1> HIDE DEF G, N
<1>7. N \in G
  BY <1>1, <1>5, <1>6, CountsUp
<1> QED BY <1>3, <1>7 DEF G

-----------------------------------------------------------------------------
(* The machines they are assigned to                                         *)

Placed == [ip : Machines, type : TypeSet, idx : Nat]

\* The workers that count against machine m when one of type t is placed.
Counted(s, m, t) == {i \in DOMAIN s : s[i].ip = m /\ (t \in PerType => s[i].type = t)}

LEMMA LoadIsNumber ==
  ASSUME NEW s \in Seq(Placed), NEW m, NEW t
  PROVE  /\ IsFiniteSet(Counted(s, m, t)) /\ Load(s, m, t) = Cardinality(Counted(s, m, t))
         /\ Load(s, m, t) \in Nat
<1>1. Counted(s, m, t) \subseteq 1 .. Len(s) /\ Len(s) \in Nat
  BY DEF Counted
<1>2. IsFiniteSet(1 .. Len(s))
  BY <1>1, FS_Interval
<1>3. IsFiniteSet(Counted(s, m, t))
  BY <1>1, <1>2, FS_Subset
<1>4. Load(s, m, t) = Cardinality(Counted(s, m, t))
  BY DEF Load, Counted
<1> QED BY <1>3, <1>4, FS_CardinalityType

LEMMA LoadGrows ==
  ASSUME NEW s \in Seq(Placed), NEW r \in Placed, NEW m, NEW t
  PROVE  Load(Append(s, r), m, t) =
           IF r.ip = m /\ (t \in PerType => r.type = t) THEN Load(s, m, t) + 1 ELSE Load(s, m, t)
<1> DEFINE u == Append(s, r)
<1>1. /\ u \in Seq(Placed) /\ Len(u) = Len(s) + 1 /\ Len(s) \in Nat /\ u[Len(s) + 1] = r
      /\ \A i \in 1 .. Len(s) : u[i] = s[i]
  BY AppendProperties
<1>2. DOMAIN u = 1 .. Len(s) + 1 /\ DOMAIN s = 1 .. Len(s)
  BY <1>1
<1> HIDE DEF u
<1>3. Len(s) + 1 \notin Counted(s, m, t)
  BY <1>1, <1>2 DEF Counted
<1>4. CASE r.ip = m /\ (t \in PerType => r.type = t)
  <2>1. Counted(u, m, t) = Counted(s, m, t) \cup {Len(s) + 1}
    <3>1. ASSUME NEW i \in 1 .. Len(s) + 1 PROVE i \in Counted(u, m, t) <=> i \in Counted(s, m, t) \cup {Len(s) + 1}
      BY <1>1, <1>2, <1>4 DEF Counted
    <3> QED BY <1>1, <1>2, <3>1 DEF Counted
  <2>2. Cardinality(Counted(s, m, t) \cup {Len(s) + 1}) = Cardinality(Counted(s, m, t)) + 1
    BY <1>3, LoadIsNumber, FS_AddElement
  <2>3. Load(u, m, t) = Cardinality(Counted(u, m, t)) /\ Load(s, m, t) = Cardinality(Counted(s, m, t))
    BY <1>1, LoadIsNumber
  <2> QED BY <1>4, <2>1, <2>2, <2>3 DEF u
<1>5. CASE ~(r.ip = m /\ (t \in PerType => r.type = t))
  <2>1. Counted(u, m, t) = Counted(s, m, t)
    <3>1. ASSUME NEW i \in 1 .. Len(s) + 1 PROVE i \in Counted(u, m, t) <=> i \in Counted(s, m, t)
      BY <1>1, <1>2, <1>5 DEF Counted
    <3> QED BY <1>1, <1>2, <3>1 DEF Counted
  <2> QED BY <1>1, <1>5, <2>1, LoadIsNumber DEF u
<1> QED BY <1>4, <1>5

\* Place adds the worker to a machine of its pool that carries least.
LEMMA PlaceProperties ==
  ASSUME NEW s \in Seq(Placed), NEW w \in Entry
  PROVE  \E m \in Range(Usable[w.type]) :
           /\ m \in Machines /\ Place(s, w) = Append(s, [ip |-> m, type |-> w.type, idx |-> w.idx])
           /\ \A o \in Range(Usable[w.type]) : Load(s, m, w.type) <= Load(s, o, w.type)
<1> DEFINE t == w.type
           pool == Usable[t]
           load(i) == Load(s, pool[i], t)
           Least(i) == \A j \in DOMAIN pool : load(i) < load(j) \/ (load(i) = load(j) /\ i <= j)
<1>1. pool \in Seq(Machines) /\ pool # <<>> /\ t \in TypeSet
  BY UsableAssumption DEF Entry
<1>2. DOMAIN pool = 1 .. Len(pool) /\ Len(pool) \in Nat /\ Len(pool) # 0
      /\ \A i \in DOMAIN pool : pool[i] \in Machines
  BY <1>1, EmptySeq
<1>3. \A i \in DOMAIN pool : load(i) \in Nat
  BY LoadIsNumber
<1> HIDE DEF pool, load
<1>4. \E i \in DOMAIN pool : Least(i)
  <2> DEFINE L == {load(i) : i \in DOMAIN pool}
  <2>1. L \in SUBSET Nat /\ L # {}
    <3>1. \A l \in L : l \in Nat
      BY <1>3
    <3>2. 1 \in DOMAIN pool
      BY <1>2
    <3>3. load(1) \in L
      BY <3>2
    <3> QED BY <3>1, <3>3
  <2>2. PICK l \in L : \A k \in L : l <= k
    <3> HIDE DEF L
    <3> QED BY <2>1, LeastNumber
  <2> DEFINE I == {i \in DOMAIN pool : load(i) = l}
  <2>3. I \in SUBSET Nat /\ I # {}
    BY <1>2, <2>2
  <2>4. PICK i \in I : \A j \in I : i <= j
    <3> HIDE DEF I
    <3> QED BY <2>3, LeastNumber
  <2>5. ASSUME NEW j \in DOMAIN pool PROVE load(i) < load(j) \/ (load(i) = load(j) /\ i <= j)
    <3>1. load(i) = l /\ load(j) \in L /\ i \in DOMAIN pool
      OBVIOUS
    <3>2. l <= load(j)
      <4> HIDE DEF L
      <4> QED BY <2>2, <3>1
    <3>3. load(j) = l => i <= j
      BY <2>4
    <3> QED BY <1>3, <3>1, <3>2, <3>3
  <2> QED BY <2>5
<1> DEFINE c == CHOOSE i \in DOMAIN pool : Least(i)
<1>5. c \in DOMAIN pool /\ Least(c)
  BY <1>4
<1>6. Place(s, w) = Append(s, [ip |-> pool[c], type |-> w.type, idx |-> w.idx])
  BY DEF Place, pool, load
<1> HIDE DEF c
<1>7. ASSUME NEW o \in Range(pool) PROVE Load(s, pool[c], t) <= Load(s, o, t)
  <2>1. PICK j \in DOMAIN pool : pool[j] = o
    BY DEF Range
  <2>2. load(c) <= load(j)
    BY <1>2, <1>3, <1>5
  <2> QED BY <2>1, <2>2 DEF load
<1>8. pool[c] \in Range(pool) /\ pool[c] \in Machines
  BY <1>2, <1>5 DEF Range
<1> QED BY <1>6, <1>7, <1>8 DEF pool

\* Types balanced by "worker" are spread evenly by what has been placed.
Spread(s) ==
  \A t \in PerType : \A m1, m2 \in Range(Usable[t]) : Load(s, m1, t) - Load(s, m2, t) <= 1

LEMMA PlaceSpreads ==
  ASSUME NEW s \in Seq(Placed), Spread(s), NEW w \in Entry
  PROVE  /\ Place(s, w) \in Seq(Placed) /\ Len(Place(s, w)) = Len(s) + 1
         /\ \A i \in 1 .. Len(s) : Place(s, w)[i] = s[i]
         /\ Place(s, w)[Len(s) + 1].type = w.type /\ Place(s, w)[Len(s) + 1].idx = w.idx
         /\ Spread(Place(s, w))
<1>1. PICK m \in Range(Usable[w.type]) :
        /\ m \in Machines /\ Place(s, w) = Append(s, [ip |-> m, type |-> w.type, idx |-> w.idx])
        /\ \A o \in Range(Usable[w.type]) : Load(s, m, w.type) <= Load(s, o, w.type)
  BY PlaceProperties
<1> DEFINE r == [ip |-> m, type |-> w.type, idx |-> w.idx]
<1>2. r \in Placed /\ r.ip = m /\ r.type = w.type /\ r.idx = w.idx
  BY <1>1 DEF Entry, Placed
<1> HIDE DEF r
<1>3. ASSUME NEW t \in PerType, NEW m1 \in Range(Usable[t]), NEW m2 \in Range(Usable[t])
      PROVE  Load(Append(s, r), m1, t) - Load(Append(s, r), m2, t) <= 1
  <2>1. Load(s, m1, t) \in Nat /\ Load(s, m2, t) \in Nat /\ Load(s, m1, t) - Load(s, m2, t) <= 1
    BY LoadIsNumber DEF Spread
  <2>2. \A o \in {m1, m2} : Load(Append(s, r), o, t) =
                             IF m = o /\ w.type = t THEN Load(s, o, t) + 1 ELSE Load(s, o, t)
    BY <1>2, LoadGrows
  <2>3. m = m1 /\ w.type = t => Load(s, m1, t) <= Load(s, m2, t)
    BY <1>1
  <2> QED BY <2>1, <2>2, <2>3
<1>4. Spread(Append(s, r))
  BY <1>3 DEF Spread
<1>5. Place(s, w) = Append(s, r)
  BY <1>1 DEF r
<1>6. /\ Append(s, r) \in Seq(Placed) /\ Len(Append(s, r)) = Len(s) + 1
      /\ \A i \in 1 .. Len(s) : Append(s, r)[i] = s[i]
      /\ Append(s, r)[Len(s) + 1] = r
  BY <1>2, AppendProperties
<1> QED BY <1>2, <1>4, <1>5, <1>6

\* The assignment has a machine for each worker of the file, in its order.
LEMMA AssignedProperties ==
  ASSUME NEW n \in Counts
  PROVE  /\ Assigned(n) \in Seq(Placed) /\ Spread(Assigned(n))
         /\ Len(Assigned(n)) = Len(Listed(n))
         /\ \A i \in 1 .. Len(Listed(n)) : /\ Assigned(n)[i].type = Listed(n)[i].type
                                          /\ Assigned(n)[i].idx = Listed(n)[i].idx
<1> DEFINE l    == Listed(n)
           N    == Len(l)
           F(f) == [k \in 0 .. N |-> IF k = 0 THEN <<>> ELSE Place(f[k - 1], l[k])]
           first == CHOOSE f : f = F(f)
           S    == {s \in Seq(Placed) : Spread(s)}
<1>1. N \in Nat /\ \A k \in 1 .. N : l[k] \in Entry
  BY ListedProperties
<1>2. <<>> \in S
  <2>1. <<>> \in Seq(Placed) /\ DOMAIN <<>> = {}
    OBVIOUS
  <2>2. \A m, t : Load(<<>>, m, t) = 0
    BY <2>1, FS_EmptySet DEF Load
  <2> QED BY <2>1, <2>2 DEF Spread
<1>3. ASSUME NEW s \in S, NEW k \in 1 .. N
      PROVE  /\ Place(s, l[k]) \in S /\ Len(Place(s, l[k])) = Len(s) + 1
             /\ \A i \in 1 .. Len(s) : Place(s, l[k])[i] = s[i]
             /\ Place(s, l[k])[Len(s) + 1].type = l[k].type
             /\ Place(s, l[k])[Len(s) + 1].idx = l[k].idx
  BY <1>1, PlaceSpreads
<1>4. Assigned(n) = first[N]
  BY DEF Assigned
<1> HIDE DEF l, N, S
<1>5. first = F(first)
  <2> DEFINE next == [p \in S \X (1 .. N) |-> Place(p[1], l[p[2]])]
  <2>1. next \in [S \X (1 .. N) -> S]
    BY <1>3
  <2>2. PICK f : Recursive(f, S, <<>>, N, next)
    <3> HIDE DEF next
    <3> QED BY <1>1, <1>2, <2>1, RecursionExists
  <2>3. ASSUME NEW k \in 1 .. N PROVE f[k] = Place(f[k - 1], l[k])
    <3>1. f[k - 1] \in S
      BY <1>1, <2>2 DEF Recursive
    <3> QED BY <2>2, <3>1 DEF Recursive
  <2>4. f = F(f)
    BY <1>1, <2>2, <2>3 DEF Recursive
  <2> QED BY <2>4
<1> HIDE DEF first
<1>6. first[0] = <<>> /\ \A k \in 1 .. N : first[k] = Place(first[k - 1], l[k])
  <2>1. \A k \in 0 .. N : first[k] = IF k = 0 THEN <<>> ELSE Place(first[k - 1], l[k])
    BY <1>5
  <2>2. 0 \in 0 .. N /\ \A k \in 1 .. N : k \in 0 .. N /\ k # 0
    BY <1>1
  <2> QED BY <2>1, <2>2
<1> DEFINE G == {k \in 0 .. N :
                  /\ first[k] \in S /\ Len(first[k]) = k
                  /\ \A i \in 1 .. k : first[k][i].type = l[i].type /\ first[k][i].idx = l[i].idx}
<1>7. 0 \in G
  BY <1>1, <1>2, <1>6
<1>8. ASSUME NEW k \in 1 .. N, k - 1 \in G PROVE k \in G
  <2> DEFINE s == first[k - 1]
  <2>1. /\ s \in S /\ Len(s) = k - 1
        /\ \A i \in 1 .. k - 1 : s[i].type = l[i].type /\ s[i].idx = l[i].idx
    BY <1>8
  <2>2. first[k] = Place(s, l[k])
    BY <1>6
  <2> HIDE DEF s, first
  <2>3. /\ Place(s, l[k]) \in S /\ Len(Place(s, l[k])) = k
        /\ \A i \in 1 .. k - 1 : Place(s, l[k])[i] = s[i]
        /\ Place(s, l[k])[k].type = l[k].type /\ Place(s, l[k])[k].idx = l[k].idx
    <3>1. k - 1 + 1 = k /\ k - 1 \in Nat
      BY <1>1
    <3> QED BY <2>1, <3>1, <1>3
  <2>4. \A i \in 1 .. k : i = k \/ i \in 1 .. k - 1
    OBVIOUS
  <2> QED BY <2>1, <2>2, <2>3, <2>4, <1>1
<1> HIDE DEF G
<1>9. N \in G
  BY <1>1, <1>7, <1>8, CountsUp
<1> QED BY <1>4, <1>9 DEF G, S, l, N

\* Among the workers of the file, an address and a name belong to one.
OwnAddress(S) == \A v, w \in S : v.addr = w.addr /\ w.addr # 0 => v = w
OwnName(S)    == \A v, w \in S : v.type = w.type /\ v.idx = w.idx => v = w

LEMMA DesiredProperties ==
  ASSUME yaml \in Counts
  PROVE  /\ Range(Desired) \subseteq Workers /\ EvenSpread
         /\ OwnAddress(Range(Desired)) /\ OwnName(Range(Desired))
         /\ \A i, j \in DOMAIN Desired : Desired[i].addr = Desired[j].addr /\ Desired[j].addr # 0 => i = j
         /\ \A i, j \in DOMAIN Desired :
              Desired[i].type = Desired[j].type /\ Desired[i].idx = Desired[j].idx => i = j
<1> DEFINE s == Assigned(yaml)
           Behind(i) == {j \in 1 .. i : s[j].ip \in Tunneled}
           D == DOMAIN Desired
<1>1. s \in Seq(Placed) /\ Spread(s) /\ Len(s) \in Nat /\ DOMAIN s = 1 .. Len(s)
  BY AssignedProperties
<1>2. /\ D = 1 .. Len(s)
      /\ \A i \in D : Desired[i] = [ip |-> s[i].ip, type |-> s[i].type, idx |-> s[i].idx,
                                    addr |-> IF s[i].ip \in Tunneled THEN Cardinality(Behind(i)) ELSE 0]
  BY <1>1 DEF Desired, Addressed
<1>3. \A i \in D : s[i] \in Placed
  BY <1>1, <1>2
<1>4. ASSUME NEW i \in D PROVE IsFiniteSet(Behind(i)) /\ Cardinality(Behind(i)) \in Nat
  <2>1. Behind(i) \subseteq 1 .. i /\ IsFiniteSet(1 .. i)
    BY <1>1, <1>2, FS_Interval
  <2> QED BY <2>1, FS_Subset, FS_CardinalityType
<1>5. ASSUME NEW i \in D, NEW j \in D, i < j, s[j].ip \in Tunneled
      PROVE  Cardinality(Behind(i)) # Cardinality(Behind(j))
  <2>1. Behind(i) \subseteq Behind(j) /\ j \in Behind(j) /\ j \notin Behind(i)
    BY <1>1, <1>2, <1>5
  <2> HIDE DEF Behind
  <2> QED BY <1>4, <2>1, FS_Subset
<1> HIDE DEF Behind, s, D
<1>6. \A i \in D : /\ Desired[i].ip = s[i].ip /\ Desired[i].type = s[i].type /\ Desired[i].idx = s[i].idx
                   /\ Desired[i].addr = IF s[i].ip \in Tunneled THEN Cardinality(Behind(i)) ELSE 0
                   /\ Desired[i] \in Workers
  <2> SUFFICES ASSUME NEW i \in D
               PROVE  /\ Desired[i].ip = s[i].ip /\ Desired[i].type = s[i].type /\ Desired[i].idx = s[i].idx
                      /\ Desired[i].addr = IF s[i].ip \in Tunneled THEN Cardinality(Behind(i)) ELSE 0
                      /\ Desired[i] \in Workers
    OBVIOUS
  <2>1. PICK a \in Nat : a = IF s[i].ip \in Tunneled THEN Cardinality(Behind(i)) ELSE 0
    BY <1>4
  <2>2. Desired[i] = [ip |-> s[i].ip, type |-> s[i].type, idx |-> s[i].idx, addr |-> a]
    BY <1>2, <2>1
  <2>3. s[i].ip \in Machines /\ s[i].type \in TypeSet /\ s[i].idx \in Nat
    BY <1>3 DEF Placed
  <2> QED BY <2>1, <2>2, <2>3 DEF Workers
<1>7. ASSUME NEW i \in D, NEW j \in D, Desired[i].addr = Desired[j].addr, Desired[j].addr # 0
      PROVE  i = j
  <2>1. s[i].ip \in Tunneled /\ s[j].ip \in Tunneled
    BY <1>6, <1>7
  <2>2. Cardinality(Behind(i)) = Cardinality(Behind(j))
    BY <1>6, <1>7, <2>1
  <2>3. i \in Nat /\ j \in Nat
    BY <1>1, <1>2
  <2> QED BY <1>5, <2>1, <2>2, <2>3
<1>8. \A i, j \in D : Desired[i].type = Desired[j].type /\ Desired[i].idx = Desired[j].idx => i = j
  <2> SUFFICES ASSUME NEW i \in D, NEW j \in D, s[i].type = s[j].type, s[i].idx = s[j].idx PROVE i = j
    BY <1>6
  <2> DEFINE l == Listed(yaml)
  <2>1. l \in Seq(Entry) /\ Once(l) /\ Len(s) = Len(l)
        /\ \A k \in 1 .. Len(l) : s[k].type = l[k].type /\ s[k].idx = l[k].idx
    BY ListedProperties, AssignedProperties DEF s
  <2>2. l[i] \in Entry /\ l[j] \in Entry /\ l[i].type = l[j].type /\ l[i].idx = l[j].idx
    BY <1>2, <2>1
  <2>3. l[i] = l[j]
    BY <2>2 DEF Entry
  <2> QED BY <1>2, <2>1, <2>3 DEF Once
<1>9. Range(Desired) = {Desired[i] : i \in D}
  BY DEF Range, D
<1>10. EvenSpread
  <2>1. ASSUME NEW t \in PerType, NEW m
        PROVE  Load(s, m, t) = Cardinality({i \in DOMAIN Desired : Desired[i].ip = m /\ Desired[i].type = t})
    <3>1. {i \in DOMAIN Desired : Desired[i].ip = m /\ Desired[i].type = t} = Counted(s, m, t)
      BY <1>1, <1>2, <1>6 DEF Counted, D
    <3> QED BY <1>1, <3>1, LoadIsNumber
  <2> SUFFICES ASSUME NEW t \in PerType, NEW m1 \in Range(Usable[t]), NEW m2 \in Range(Usable[t])
               PROVE  Cardinality({i \in DOMAIN Desired : Desired[i].ip = m1 /\ Desired[i].type = t})
                      - Cardinality({i \in DOMAIN Desired : Desired[i].ip = m2 /\ Desired[i].type = t}) <= 1
    BY DEF EvenSpread
  <2>2. Load(s, m1, t) - Load(s, m2, t) <= 1
    BY <1>1 DEF Spread
  <2> QED BY <2>1, <2>2
<1> QED BY <1>6, <1>7, <1>8, <1>9, <1>10 DEF OwnAddress, OwnName, D

-----------------------------------------------------------------------------
(* The commands                                                              *)

OpRecord == [cmd : {"none", "up", "add"}, todo : SUBSET Workers, seen : SUBSET Machines,
             setup : SUBSET Workers, all : SUBSET Workers, failed : SUBSET Workers]

\* The workers of the command whose tunnel has been started, and those that
\* have been set up.
Started == {w \in op.all \ op.todo : w.addr # 0}
SetUp   == op.all \ (op.setup \cup op.failed)

CommandOK ==
  /\ op.cmd = "none" => op = Idle
  /\ op.cmd # "none" => op.all \subseteq Range(Desired)
  /\ op.cmd = "add" => added
  /\ op.todo \subseteq op.all /\ \A w \in op.todo : w.addr # 0
  /\ op.todo # {} => op.setup = op.all
  /\ op.seen = {w.ip : w \in Started}

\* Node n is worker w; a container has its name.
Same(n, w) ==
  n.ip = w.ip /\ n.addr = w.addr /\ n.type = w.type /\ (w.type \in Docker => n.idx = w.idx)

\* During chia up no node is registered but those it has set up.
UpNodes == op.cmd = "up" => \A n \in nodes : \E w \in SetUp : Same(n, w)

\* A tunnel it has started is there unless it died, and so is the relay.
UpTunnels ==
  op.cmd = "up" =>
    /\ \A w \in Started : w.ip \notin cut => \E p \in procs : p.addr = w.addr /\ p.ip = w.ip
    /\ \A m \in op.seen \ cut : \E p \in procs :
         p.ip = m /\ p.relay /\ \E w \in Started : w.addr = p.addr /\ w.ip = m

UpInv == TypeOK /\ IsFiniteSet(nodes) /\ CommandOK /\ UpNodes /\ UpTunnels /\ UpKeepsSurvivors

\* Worker v has been given none of another's address or name.
LEMMA OwnOfAll ==
  ASSUME TypeOK, CommandOK, op.cmd # "none"
  PROVE  OwnAddress(op.all) /\ OwnName(op.all)
<1>1. yaml \in Counts
  BY DEF TypeOK, Counts
<1> QED BY <1>1, DesiredProperties DEF CommandOK, OwnAddress, OwnName

LEMMA IdleFields ==
  /\ Idle \in OpRecord
  /\ Idle.cmd = "none" /\ Idle.todo = {} /\ Idle.seen = {}
  /\ Idle.setup = {} /\ Idle.all = {} /\ Idle.failed = {}
BY DEF Idle, OpRecord

LEMMA UpInvInit == Init => UpInv
<1> SUFFICES ASSUME Init PROVE UpInv
  OBVIOUS
<1>1. /\ yaml \in [TypeSet -> 0 .. MaxWorkers] /\ head = FALSE /\ nodes = {} /\ procs = {}
      /\ sessions = {} /\ op = Idle /\ cut = {} /\ added = FALSE
  BY DEF Init
<1>2. TypeOK
  BY <1>1, IdleFields DEF TypeOK, OpRecord
<1>3. CommandOK
  BY <1>1, IdleFields DEF CommandOK, Started
<1> QED BY <1>1, <1>2, <1>3, IdleFields, FS_EmptySet DEF UpInv, UpNodes, UpTunnels, UpKeepsSurvivors

\* A bare worker finds a number that no other has on its machine.
LEMMA RegisteredIsWorker ==
  ASSUME TypeOK, IsFiniteSet(nodes), NEW w \in Workers
  PROVE  Registered(w) \in Workers /\ Same(Registered(w), w)
<1>1. CASE w.type \in Docker
  BY <1>1 DEF Registered, Same
<1>2. CASE w.type \notin Docker
  <2> DEFINE Free(i) == \A n \in nodes : ~(n.ip = w.ip /\ n.type = w.type /\ n.idx = i)
             c == Cardinality(nodes)
             I == {n.idx : n \in nodes}
  <2>1. c \in Nat /\ IsFiniteSet(I) /\ Cardinality(I) <= c /\ Cardinality(I) \in Nat
    <3> DEFINE g == [n \in nodes |-> n.idx]
    <3>1. g \in Surjection(nodes, I)
      BY DEF Surjection
    <3> HIDE DEF g, I
    <3> QED BY <3>1, FS_Surjection, FS_CardinalityType
  <2>2. \E i \in 0 .. c : Free(i)
    <3> SUFFICES ASSUME 0 .. c \subseteq I PROVE FALSE
      OBVIOUS
    <3> HIDE DEF I, c
    <3>1. IsFiniteSet(0 .. c) /\ Cardinality(0 .. c) = c + 1
      <4>1. 0 \in Int /\ c \in Int /\ ~(0 > c) /\ c - 0 + 1 = c + 1
        BY <2>1
      <4> QED BY <4>1, FS_Interval
    <3>2. Cardinality(0 .. c) <= Cardinality(I)
      BY <2>1, FS_Subset
    <3> QED BY <2>1, <3>1, <3>2
  <2> DEFINE f == CHOOSE i \in 0 .. c : Free(i)
  <2>3. f \in Nat
    BY <2>1, <2>2
  <2>4. Registered(w) = [w EXCEPT !.idx = f]
    BY <1>2 DEF Registered
  <2> HIDE DEF f
  <2> QED BY <1>2, <2>3, <2>4 DEF Workers, Same
<1> QED BY <1>1, <1>2

\* `chia up` stops no node.
LEMMA StopsNobody ==
  ASSUME UpInv, op.cmd = "up", NEW w \in op.setup
  PROVE  Stopped(w) = {}
<1> SUFFICES ASSUME NEW n \in Stopped(w) PROVE FALSE
  OBVIOUS
<1>1. n \in nodes /\ n.ip = w.ip
  BY DEF Stopped
<1>2. PICK v \in SetUp : Same(n, v)
  BY <1>1 DEF UpInv, UpNodes
<1>3. v \in op.all /\ w \in op.all /\ v \notin op.setup /\ v.ip = w.ip
  BY <1>1, <1>2 DEF SetUp, Same, UpInv, TypeOK
<1>4. CASE w.type \in Docker
  <2>1. n.type = w.type /\ n.idx = w.idx
    BY <1>4 DEF Stopped
  <2>2. v.type = w.type /\ v.idx = w.idx
    BY <1>2, <1>4, <2>1 DEF Same
  <2>3. v = w
    BY <1>3, <2>2, OwnOfAll DEF UpInv, OwnName
  <2> QED BY <1>3, <2>3
<1>5. CASE w.type \notin Docker
  BY <1>3, <1>5 DEF Stopped
<1> QED BY <1>4, <1>5

\* The parts of TypeOK that are not about op.
LEMMA TypeFromParts ==
  ASSUME yaml' \in [TypeSet -> 0 .. MaxWorkers], head' \in BOOLEAN, nodes' \subseteq Workers,
         procs' \subseteq Tunnels, sessions' \subseteq Tunnels, op' \in OpRecord,
         op'.setup \subseteq op'.all, op'.failed \subseteq op'.all \ op'.setup,
         cut' \subseteq Machines, added' \in BOOLEAN
  PROVE  TypeOK'
BY DEF TypeOK, OpRecord

LEMMA SameDesired == UNCHANGED yaml => Desired' = Desired
BY DEF Desired

\* A command ends, with or without a result.
LEMMA CommandEnds ==
  ASSUME UpInv, op' = Idle, UNCHANGED <<yaml, added, cut>>, head' \in BOOLEAN,
         nodes' \subseteq nodes, procs' \subseteq Tunnels, sessions' \subseteq Tunnels,
         UpKeepsSurvivors'
  PROVE  UpInv'
<1>1. TypeOK'
  BY IdleFields, TypeFromParts DEF UpInv, TypeOK
<1>2. IsFiniteSet(nodes')
  BY FS_Subset DEF UpInv
<1>3. CommandOK'
  BY IdleFields DEF CommandOK, Started
<1> QED BY <1>1, <1>2, <1>3, IdleFields DEF UpInv, UpNodes, UpTunnels

LEMMA BeginFields ==
  ASSUME NEW cmd \in {"up", "add"}, NEW chosen \in SUBSET Workers, Begin(cmd, chosen)
  PROVE  /\ op' \in OpRecord /\ op'.cmd = cmd /\ op'.todo = {w \in chosen : w.addr # 0}
         /\ op'.seen = {} /\ op'.setup = chosen /\ op'.all = chosen /\ op'.failed = {}
<1> DEFINE t == {w \in chosen : w.addr # 0}
<1>1. op' = [Idle EXCEPT !.cmd = cmd, !.todo = t, !.setup = chosen, !.all = chosen]
  BY DEF Begin
<1>2. t \subseteq Workers
  BY DEF Workers
<1> HIDE DEF t
<1>3. /\ op' \in OpRecord /\ op'.cmd = cmd /\ op'.todo = t
      /\ op'.seen = {} /\ op'.setup = chosen /\ op'.all = chosen /\ op'.failed = {}
  BY <1>1, <1>2 DEF Idle, OpRecord
<1> QED BY <1>3 DEF t

LEMMA BeginStep ==
  ASSUME UpInv, NEW cmd \in {"up", "add"}, NEW chosen \in SUBSET Range(Desired),
         Begin(cmd, chosen), UNCHANGED <<yaml, procs, sessions>>,
         nodes' \subseteq nodes, cut' \subseteq Machines, head' \in BOOLEAN, added' \in BOOLEAN,
         cmd = "up" => nodes' = {}, cmd = "add" => added' = TRUE
  PROVE  UpInv'
<1>1. yaml \in Counts /\ chosen \in SUBSET Workers
  BY DesiredProperties DEF UpInv, TypeOK, Counts
<1>2. /\ op' \in OpRecord /\ op'.cmd = cmd /\ op'.todo = {w \in chosen : w.addr # 0}
      /\ op'.seen = {} /\ op'.setup = chosen /\ op'.all = chosen /\ op'.failed = {}
  BY <1>1, BeginFields
<1>3. TypeOK'
  BY <1>2, TypeFromParts DEF UpInv, TypeOK
<1>4. IsFiniteSet(nodes')
  BY FS_Subset DEF UpInv
<1>5. Started' = {}
  BY <1>2 DEF Started
<1>6. CommandOK'
  BY <1>2, <1>5, SameDesired DEF CommandOK
<1> QED BY <1>2, <1>3, <1>4, <1>5, <1>6 DEF UpInv, UpNodes, UpTunnels, UpKeepsSurvivors

LEMMA UpStep ==
  ASSUME UpInv, Up
  PROVE  UpInv'
<1>1. /\ op.cmd = "none" /\ nodes' = {} /\ cut' = {} /\ added' = FALSE
      /\ UNCHANGED <<yaml, procs, sessions>>
      /\ \/ head' = TRUE /\ Begin("up", Range(Desired))
         \/ head' = FALSE /\ UNCHANGED op
  BY DEF Up
<1>2. CASE Begin("up", Range(Desired)) /\ head' = TRUE
  <2>1. PICK cmd \in {"up"} : TRUE
    OBVIOUS
  <2> QED BY <1>1, <1>2, <2>1, BeginStep
<1>3. CASE UNCHANGED op /\ head' = FALSE
  <2>1. op = Idle /\ op' = Idle
    BY <1>1, <1>3 DEF UpInv, CommandOK
  <2>2. TypeOK'
    BY <1>1, <1>3, <2>1, IdleFields, TypeFromParts DEF UpInv, TypeOK
  <2>3. CommandOK'
    BY <2>1, IdleFields DEF CommandOK, Started
  <2> QED BY <1>1, <2>1, <2>2, <2>3, IdleFields, FS_EmptySet
          DEF UpInv, UpNodes, UpTunnels, UpKeepsSurvivors
<1> QED BY <1>1, <1>2, <1>3

LEMMA AddStep ==
  ASSUME UpInv, Add
  PROVE  UpInv'
<1> DEFINE chosen == {Desired[i] : i \in Missing(Desired)}
<1>1. /\ Begin("add", chosen) /\ added' = TRUE
      /\ UNCHANGED <<yaml, head, nodes, procs, sessions, cut>>
  BY DEF Add
<1>2. chosen \in SUBSET Range(Desired)
  BY DEF Missing, Range
<1> HIDE DEF chosen
<1>3. head' \in BOOLEAN /\ cut' \subseteq Machines
  BY <1>1 DEF UpInv, TypeOK
<1> QED BY <1>1, <1>2, <1>3, BeginStep

\* The next tunnel is one of those to be started.
LEMMA NextIsToDo ==
  ASSUME TypeOK, op.todo # {}
  PROVE  NextTunnel \in op.todo /\ NextTunnel \in Workers
<1> DEFINE A == {w.addr : w \in op.todo}
<1>1. op.todo \subseteq Workers
  BY DEF TypeOK
<1>2. A \in SUBSET Nat /\ A # {}
  BY <1>1 DEF Workers
<1>3. PICK a \in A : \A b \in A : a <= b
  <2> HIDE DEF A
  <2> QED BY <1>2, LeastNumber
<1>4. \E w \in op.todo : \A v \in op.todo : w.addr <= v.addr
  <2>1. PICK w \in op.todo : w.addr = a
    OBVIOUS
  <2>2. \A v \in op.todo : v.addr \in A
    OBVIOUS
  <2> HIDE DEF A
  <2> QED BY <1>3, <2>1, <2>2
<1> QED BY <1>1, <1>4 DEF NextTunnel

LEMMA StartTunnelStep ==
  ASSUME UpInv, StartTunnel
  PROVE  UpInv'
<1> DEFINE w    == NextTunnel
           new  == [addr |-> w.addr, ip |-> w.ip, relay |-> w.ip \notin op.seen]
           gone == Replaced(w)
<1>1. /\ op.todo # {} /\ UNCHANGED <<yaml, head, nodes, cut, added>>
      /\ \E freed \in SUBSET (sessions \cap gone) :
           \/ /\ procs' = (procs \ gone) \cup {new} /\ sessions' = (sessions \ freed) \cup {new}
              /\ op' = [op EXCEPT !.todo = @ \ {w}, !.seen = @ \cup {w.ip}]
           \/ procs' = procs \ gone /\ sessions' = sessions \ freed /\ op' = Idle
  BY DEF StartTunnel
<1>2. w \in op.todo /\ w \in Workers
  BY <1>1, NextIsToDo DEF UpInv
<1>3. w \in op.all /\ w.addr # 0 /\ op.setup = op.all /\ op.cmd # "none"
  BY <1>1, <1>2, IdleFields DEF UpInv, CommandOK
<1>4. SetUp = {} /\ (op.cmd = "up" => nodes = {}) /\ (op.cmd # "up" => added)
  <2>1. SetUp = {}
    BY <1>3 DEF SetUp
  <2>2. op.cmd \in {"none", "up", "add"}
    BY DEF UpInv, TypeOK
  <2> QED BY <1>3, <2>1, <2>2 DEF UpInv, UpNodes, CommandOK
<1>5. new \in Tunnels /\ new.addr = w.addr /\ new.ip = w.ip /\ (new.relay <=> w.ip \notin op.seen)
  BY <1>2, <1>3 DEF Workers, Tunnels
<1>6. gone = {p \in procs : p.addr = w.addr}
  BY DEF Replaced
<1> HIDE DEF w, new, gone
<1>7. CASE op' = Idle /\ procs' = procs \ gone /\ sessions' \subseteq sessions
  <2>1. UpKeepsSurvivors'
    BY <1>1, <1>4 DEF UpKeepsSurvivors
  <2> QED BY <1>1, <1>7, <2>1, CommandEnds DEF UpInv, TypeOK
<1>8. CASE /\ op' = [op EXCEPT !.todo = @ \ {w}, !.seen = @ \cup {w.ip}]
           /\ procs' = (procs \ gone) \cup {new} /\ sessions' \subseteq sessions \cup {new}
  <2>1. w.ip \in Machines
    BY <1>2 DEF Workers
  <2>2. /\ op' \in OpRecord /\ op'.cmd = op.cmd /\ op'.todo = op.todo \ {w}
        /\ op'.seen = op.seen \cup {w.ip} /\ op'.setup = op.setup /\ op'.all = op.all
        /\ op'.failed = op.failed
    <3>1. op \in OpRecord
      BY DEF UpInv, TypeOK, OpRecord
    <3> QED BY <1>8, <2>1, <3>1 DEF OpRecord
  <2>3. TypeOK'
    BY <1>1, <1>5, <1>8, <2>2, TypeFromParts DEF UpInv, TypeOK
  <2>4. Started' = Started \cup {w} /\ w \notin Started
    BY <1>2, <1>3, <2>2 DEF Started
  <2>5. CommandOK'
    <3>1. op'.seen = {v.ip : v \in Started'}
      BY <2>2, <2>4 DEF UpInv, CommandOK
    <3> QED BY <1>1, <1>3, <2>2, <3>1, SameDesired DEF UpInv, CommandOK
  <2>6. \A v \in Started : v.addr # w.addr
    BY <1>3, <2>4, OwnOfAll DEF UpInv, OwnAddress, Started
  <2>7. UpTunnels'
    <3> SUFFICES ASSUME op.cmd = "up"
                 PROVE  /\ \A v \in Started' : v.ip \notin cut =>
                             \E p \in procs' : p.addr = v.addr /\ p.ip = v.ip
                        /\ \A m \in op'.seen \ cut : \E p \in procs' :
                             p.ip = m /\ p.relay /\ \E v \in Started' : v.addr = p.addr /\ v.ip = m
      BY <1>1, <2>2 DEF UpTunnels
    <3>1. /\ \A v \in Started : v.ip \notin cut => \E p \in procs : p.addr = v.addr /\ p.ip = v.ip
          /\ \A m \in op.seen \ cut : \E p \in procs :
               p.ip = m /\ p.relay /\ \E v \in Started : v.addr = p.addr /\ v.ip = m
      BY DEF UpInv, UpTunnels
    <3>2. \A v \in Started' : v.ip \notin cut => \E p \in procs' : p.addr = v.addr /\ p.ip = v.ip
      BY <1>5, <1>6, <1>8, <2>4, <2>6, <3>1
    <3>3. ASSUME NEW m \in op'.seen \ cut
          PROVE  \E p \in procs' : p.ip = m /\ p.relay /\ \E v \in Started' : v.addr = p.addr /\ v.ip = m
      <4>1. CASE m \in op.seen
        BY <1>6, <1>8, <2>4, <2>6, <3>1, <3>3, <4>1
      <4>2. CASE m \notin op.seen
        BY <1>5, <1>8, <2>2, <2>4, <3>3, <4>2
      <4> QED BY <4>1, <4>2
    <3> QED BY <3>2, <3>3
  <2>8. UpNodes' /\ UpKeepsSurvivors'
    BY <1>1, <1>3, <1>4, <2>2 DEF UpNodes, UpKeepsSurvivors
  <2> QED BY <1>1, <2>3, <2>5, <2>7, <2>8 DEF UpInv
<1> QED BY <1>1, <1>7, <1>8

LEMMA HostCommandStep ==
  ASSUME UpInv, HostCommandFails
  PROVE  UpInv'
<1>1. /\ op.setup = op.all /\ op.all # {} /\ op' = Idle
      /\ UNCHANGED <<yaml, head, nodes, procs, sessions, cut, added>>
  BY DEF HostCommandFails
<1>2. op.cmd \in {"up", "add"}
  <2>1. op.cmd \in {"none", "up", "add"}
    BY DEF UpInv, TypeOK
  <2> QED BY <1>1, <2>1, IdleFields DEF UpInv, CommandOK
<1>3. (op.cmd = "up" => nodes = {}) /\ (op.cmd # "up" => added)
  BY <1>1, <1>2 DEF UpInv, UpNodes, CommandOK, SetUp
<1>4. UpKeepsSurvivors'
  BY <1>1, <1>3 DEF UpKeepsSurvivors
<1> QED BY <1>1, <1>4, CommandEnds DEF UpInv, TypeOK

\* What SetupWorker does with the worker it takes.
LEMMA SetupFields ==
  ASSUME UpInv, NEW w \in op.setup,
         \/ op' = [op EXCEPT !.setup = @ \ {w}]
         \/ op' = [op EXCEPT !.setup = @ \ {w}, !.failed = @ \cup {w}]
  PROVE  /\ op' \in OpRecord /\ op'.cmd = op.cmd /\ op'.todo = op.todo /\ op'.seen = op.seen
         /\ op'.setup = op.setup \ {w} /\ op'.all = op.all
         /\ op'.failed = op.failed \/ op'.failed = op.failed \cup {w}
         /\ op'.setup \subseteq op'.all /\ op'.failed \subseteq op'.all \ op'.setup
         /\ w \in op.all /\ w \in Workers /\ SetUp \subseteq SetUp'
         /\ (op' = [op EXCEPT !.setup = @ \ {w}] => w \in SetUp')
<1>1. /\ op \in OpRecord /\ op.setup \subseteq op.all /\ op.failed \subseteq op.all \ op.setup
      /\ w \in op.all /\ w \in Workers
  BY DEF UpInv, TypeOK, OpRecord
<1>2. CASE op' = [op EXCEPT !.setup = @ \ {w}]
  <2>1. /\ op' \in OpRecord /\ op'.cmd = op.cmd /\ op'.todo = op.todo /\ op'.seen = op.seen
        /\ op'.setup = op.setup \ {w} /\ op'.all = op.all /\ op'.failed = op.failed
    BY <1>1, <1>2 DEF OpRecord
  <2> QED BY <1>1, <2>1 DEF SetUp
<1>3. CASE op' = [op EXCEPT !.setup = @ \ {w}, !.failed = @ \cup {w}]
  <2>1. /\ op' \in OpRecord /\ op'.cmd = op.cmd /\ op'.todo = op.todo /\ op'.seen = op.seen
        /\ op'.setup = op.setup \ {w} /\ op'.all = op.all /\ op'.failed = op.failed \cup {w}
    BY <1>1, <1>3 DEF OpRecord
  <2>2. op' # [op EXCEPT !.setup = @ \ {w}]
    <3>1. [op EXCEPT !.setup = @ \ {w}].failed = op.failed
      BY <1>1 DEF OpRecord
    <3> QED BY <1>1, <2>1, <3>1
  <2> QED BY <1>1, <2>1, <2>2 DEF SetUp
<1> QED BY <1>2, <1>3

LEMMA SetupWorkerStep ==
  ASSUME UpInv, NEW m \in Machines, SetupWorker(m)
  PROVE  UpInv' /\ (op.cmd = "up" => nodes \subseteq nodes')
<1>1. PICK w \in NextOn(m) :
        \/ /\ nodes' = (nodes \ Stopped(w)) \cup {Registered(w)} /\ op' = [op EXCEPT !.setup = @ \ {w}]
        \/ /\ \E stopped \in {{}, Stopped(w)} : nodes' = nodes \ stopped
           /\ op' = [op EXCEPT !.setup = @ \ {w}, !.failed = @ \cup {w}]
  BY DEF SetupWorker
<1>2. /\ op.cmd # "none" /\ op.todo = {} /\ UNCHANGED <<yaml, head, procs, sessions, cut, added>>
  BY DEF SetupWorker
<1>3. w \in op.setup
  BY DEF NextOn
<1>4. /\ op' \in OpRecord /\ op'.cmd = op.cmd /\ op'.todo = op.todo /\ op'.seen = op.seen
      /\ op'.setup = op.setup \ {w} /\ op'.all = op.all
      /\ op'.failed = op.failed \/ op'.failed = op.failed \cup {w}
      /\ op'.setup \subseteq op'.all /\ op'.failed \subseteq op'.all \ op'.setup
      /\ w \in op.all /\ w \in Workers /\ SetUp \subseteq SetUp'
      /\ (op' = [op EXCEPT !.setup = @ \ {w}] => w \in SetUp')
  BY <1>1, <1>3, SetupFields
<1>5. Registered(w) \in Workers /\ Same(Registered(w), w)
  BY <1>4, RegisteredIsWorker DEF UpInv
<1>6. /\ nodes' \subseteq nodes \cup {Registered(w)}
      /\ Registered(w) \in nodes' \ nodes => w \in SetUp'
  BY <1>1, <1>4
<1>7. op.cmd = "up" => nodes \subseteq nodes'
  BY <1>1, <1>3, StopsNobody
<1>8. TypeOK'
  BY <1>2, <1>4, <1>5, <1>6, TypeFromParts DEF UpInv, TypeOK
<1>9. IsFiniteSet(nodes')
  <2>1. IsFiniteSet(nodes \cup {Registered(w)})
    BY FS_AddElement DEF UpInv
  <2> QED BY <1>6, <2>1, FS_Subset
<1>10. Started' = Started
  BY <1>4 DEF Started
<1>11. CommandOK'
  BY <1>2, <1>4, <1>10, SameDesired DEF UpInv, CommandOK
<1>12. UpNodes'
  <2> SUFFICES ASSUME op.cmd = "up", NEW n \in nodes' PROVE \E v \in SetUp' : Same(n, v)
    BY <1>4 DEF UpNodes, Same
  <2>1. CASE n \in nodes
    BY <1>4, <2>1 DEF UpInv, UpNodes
  <2>2. CASE n \notin nodes
    BY <1>5, <1>6, <2>2
  <2> QED BY <2>1, <2>2
<1>13. UpTunnels' /\ UpKeepsSurvivors'
  BY <1>2, <1>4, <1>10 DEF UpInv, UpTunnels, UpKeepsSurvivors
<1> QED BY <1>7, <1>8, <1>9, <1>11, <1>12, <1>13 DEF UpInv

\* A tunnel of a worker that has been set up is not taken away with those of
\* the machines on which nobody has.
LEMMA FinishStep ==
  ASSUME UpInv, Finish
  PROVE  UpInv'
<1>1. /\ op.cmd # "none" /\ op.todo = {} /\ op.setup = {} /\ op' = Idle
      /\ procs' = {p \in procs : \A w \in Abandoned : p.addr # w.addr}
      /\ UNCHANGED <<yaml, head, nodes, sessions, cut, added>>
  BY DEF Finish
<1>2. UpKeepsSurvivors'
  <2> SUFFICES ASSUME ~added, NEW n \in nodes, n.addr # 0, n.ip \notin cut PROVE Connected(n)'
    BY <1>1 DEF UpKeepsSurvivors
  <2>1. op.cmd = "up"
    BY <1>1 DEF UpInv, TypeOK, CommandOK
  <2>2. PICK w \in SetUp : Same(n, w)
    BY <2>1 DEF UpInv, UpNodes
  <2>3. w \in Started /\ w \in op.all /\ w \notin op.failed /\ w.ip = n.ip /\ w.addr = n.addr
    BY <1>1, <2>2 DEF SetUp, Started, Same
  <2>4. ASSUME NEW a \in Abandoned
        PROVE  a \in op.all /\ a \in op.failed /\ a.addr # 0 /\ a.ip # n.ip
    BY <2>3 DEF Abandoned
  <2>5. PICK p \in procs : p.addr = n.addr /\ p.ip = n.ip
    BY <2>1, <2>3 DEF UpInv, UpTunnels
  <2>6. PICK q \in procs : q.ip = n.ip /\ q.relay /\ \E v \in Started : v.addr = q.addr /\ v.ip = n.ip
    <3>1. n.ip \in op.seen
      BY <2>3 DEF UpInv, CommandOK
    <3> QED BY <2>1, <3>1 DEF UpInv, UpTunnels
  <2>7. OwnAddress(op.all)
    BY <1>1, OwnOfAll DEF UpInv
  <2>8. p \in procs'
    BY <1>1, <2>3, <2>4, <2>5, <2>7 DEF OwnAddress
  <2>9. q \in procs'
    BY <1>1, <2>4, <2>6, <2>7 DEF OwnAddress, Started
  <2> QED BY <2>5, <2>6, <2>8, <2>9 DEF Connected
<1>3. procs' \subseteq Tunnels
  BY <1>1 DEF UpInv, TypeOK
<1> QED BY <1>1, <1>2, <1>3, CommandEnds DEF UpInv, TypeOK

LEMMA DownStep ==
  ASSUME UpInv, Down
  PROVE  UpInv'
<1>1. /\ op.cmd = "none" /\ head' = FALSE /\ nodes' = {} /\ procs' = {}
      /\ UNCHANGED <<yaml, sessions, op, cut, added>>
  BY DEF Down
<1>2. op' = Idle
  BY <1>1 DEF UpInv, CommandOK
<1> QED BY <1>1, <1>2, CommandEnds DEF UpInv, TypeOK, UpKeepsSurvivors

\* Tunnels, sessions and nodes that go away.
LEMMA WorldStep ==
  ASSUME UpInv, UNCHANGED <<yaml, head, op, added>>, nodes' \subseteq nodes,
         sessions' \subseteq sessions, cut \subseteq cut', cut' \subseteq Machines, procs' \subseteq procs,
         \A p \in procs \ procs' : p.ip \in cut'
  PROVE  UpInv'
<1>1. TypeOK'
  BY DEF UpInv, TypeOK
<1>2. IsFiniteSet(nodes')
  BY FS_Subset DEF UpInv
<1>3. Started' = Started /\ SetUp' = SetUp
  BY DEF Started, SetUp
<1>4. CommandOK'
  BY <1>3, SameDesired DEF UpInv, CommandOK
<1>5. UpNodes'
  BY <1>3 DEF UpInv, UpNodes, Same
<1>6. UpTunnels'
  BY <1>3 DEF UpInv, UpTunnels
<1>7. UpKeepsSurvivors'
  BY DEF UpInv, UpKeepsSurvivors, Connected
<1> QED BY <1>1, <1>2, <1>4, <1>5, <1>6, <1>7 DEF UpInv

LEMMA EditStep ==
  ASSUME UpInv, NEW n \in [TypeSet -> 0 .. MaxWorkers], EditYaml(n)
  PROVE  UpInv'
<1>1. /\ op.cmd = "none" /\ yaml' = n /\ UNCHANGED <<head, nodes, procs, sessions, op, cut, added>>
  BY DEF EditYaml
<1>2. op' = Idle
  BY <1>1 DEF UpInv, CommandOK
<1>3. TypeOK'
  BY <1>1 DEF UpInv, TypeOK
<1>4. CommandOK'
  BY <1>2, IdleFields DEF CommandOK, Started
<1> QED BY <1>1, <1>2, <1>3, <1>4, IdleFields
        DEF UpInv, UpNodes, UpTunnels, UpKeepsSurvivors, Connected

LEMMA UpInvStep ==
  ASSUME UpInv, [Next]_vars
  PROVE  UpInv'
<1>1. ASSUME World PROVE UpInv'
  <2>1. ASSUME NEW p \in procs, TunnelDies(p) PROVE UpInv'
    <3>1. p.ip \in Machines
      BY DEF UpInv, TypeOK, Tunnels
    <3> QED BY <2>1, <3>1, WorldStep DEF TunnelDies, UpInv, TypeOK
  <2>2. ASSUME NEW s \in sessions, SessionEnds(s) PROVE UpInv'
    BY <2>2, WorldStep DEF SessionEnds, UpInv, TypeOK
  <2>3. ASSUME NEW n \in nodes, NodeDies(n) PROVE UpInv'
    BY <2>3, WorldStep DEF NodeDies, UpInv, TypeOK
  <2> QED BY <1>1, <2>1, <2>2, <2>3, EditStep DEF World
<1>2. CASE UNCHANGED vars
  BY <1>2, WorldStep DEF vars, UpInv, TypeOK
<1>3. CASE Next
  BY <1>1, <1>3, UpStep, AddStep, StartTunnelStep, HostCommandStep, SetupWorkerStep, FinishStep, DownStep
     DEF Next, Command
<1> QED BY <1>2, <1>3

\* The invariant of the commands of one cluster.
THEOREM UpInvHolds == Spec => []UpInv
BY UpInvInit, UpInvStep, PTL DEF Spec

-----------------------------------------------------------------------------
(* --add beside registered workers                                           *)

\* A running --add has nothing to do for a worker with the address and the type
\* of a registered one, unless it has set that one up itself.
AddInv ==
  op.cmd = "add" =>
    \A n \in nodes, w \in op.all :
      w.addr # 0 /\ w.addr = n.addr /\ w.type = n.type => w \in SetUp

\* What AddSparesTunnels says of a step.
TunnelsSpared ==
  op.cmd = "add" =>
    \A n \in nodes : n.addr # 0 /\ n.ip \notin cut /\ ~DealtAnew(n) =>
      \A p \in procs : p.addr = n.addr /\ p.ip = n.ip => p \in procs' \/ n.ip \in cut'

\* compute_new_assignments finds a registered worker behind a tunnel.
LEMMA RegisteredIsNotMissing ==
  ASSUME UpInv, NEW n \in nodes, n.addr # 0, NEW i \in DOMAIN Desired,
         Desired[i].addr = n.addr, Desired[i].type = n.type
  PROVE  i \notin Missing(Desired)
<1> DEFINE D        == Desired
           Known    == {o \in nodes : Key(o) = Key(D[i])}
           Earlier  == {j \in 1 .. i - 1 : Key(D[j]) = Key(D[i])}
<1>1. yaml \in Counts /\ nodes \subseteq Workers
  BY DEF UpInv, TypeOK, Counts
<1>2. \A k, j \in DOMAIN D : D[k].addr = D[j].addr /\ D[j].addr # 0 => k = j
  BY <1>1, DesiredProperties
<1>5. n \in Known
  BY DEF Key
<1>6. IsFiniteSet(Known) /\ Cardinality(Known) \in Nat /\ Cardinality(Known) # 0
  <2>1. IsFiniteSet(Known)
    BY FS_Subset DEF UpInv
  <2> HIDE DEF Known
  <2> QED BY <1>5, <2>1, FS_CardinalityType, FS_EmptySet
<1>7. Earlier = {}
  <2>1. DOMAIN D = 1 .. Len(Assigned(yaml)) /\ Len(Assigned(yaml)) \in Nat
    BY <1>1, AssignedProperties DEF Desired, Addressed
  <2>2. ASSUME NEW j \in 1 .. i - 1, Key(D[j]) = Key(D[i]) PROVE FALSE
    <3>1. j \in DOMAIN D /\ j # i
      BY <2>1
    <3>2. D[j].addr = D[i].addr
      BY <2>2 DEF Key
    <3> QED BY <1>2, <3>1, <3>2
  <2> QED BY <2>2
<1>8. Cardinality(Earlier) = 0
  <2> HIDE DEF Earlier
  <2> QED BY <1>7, FS_EmptySet
<1>9. i \in Missing(D) => Cardinality(Earlier) >= Cardinality(Known)
  BY DEF Missing
<1> HIDE DEF Earlier, Known
<1> QED BY <1>6, <1>8, <1>9

LEMMA AddInvInit == Init => AddInv
BY IdleFields DEF Init, AddInv

\* Steps that take no node in.
LEMMA AddInvOnly ==
  ASSUME UpInv, AddInv, nodes' \subseteq nodes,
         op'.cmd # "add" \/ (op'.cmd = op.cmd /\ op'.all = op.all /\ SetUp' = SetUp)
  PROVE  AddInv'
BY DEF AddInv

LEMMA AddBegins ==
  ASSUME UpInv, AddInv, Add
  PROVE  AddInv'
<1> DEFINE chosen == {Desired[i] : i \in Missing(Desired)}
<1>1. Begin("add", chosen) /\ UNCHANGED nodes
  BY DEF Add
<1>2. chosen \in SUBSET Workers
  <2>1. yaml \in Counts
    BY DEF UpInv, TypeOK, Counts
  <2>2. chosen \subseteq Range(Desired)
    BY DEF Missing, Range
  <2> QED BY <2>1, <2>2, DesiredProperties
<1>3. ASSUME NEW n \in nodes, NEW w \in chosen, w.addr # 0
      PROVE  ~(w.addr = n.addr /\ w.type = n.type)
  <2>1. PICK i \in Missing(Desired) : w = Desired[i]
    OBVIOUS
  <2>2. i \in DOMAIN Desired
    BY DEF Missing
  <2> QED BY <1>3, <2>1, <2>2, RegisteredIsNotMissing
<1> HIDE DEF chosen
<1>4. PICK cmd \in {"add"} : Begin(cmd, chosen)
  BY <1>1
<1>5. op'.cmd = "add" /\ op'.all = chosen
  BY <1>2, <1>4, BeginFields
<1> QED BY <1>1, <1>3, <1>5 DEF AddInv

LEMMA AddStarts ==
  ASSUME UpInv, AddInv, StartTunnel
  PROVE  AddInv' /\ TunnelsSpared
<1> DEFINE w == NextTunnel
<1>1. /\ op.todo # {} /\ UNCHANGED <<yaml, head, nodes, cut>>
      /\ procs \ Replaced(w) \subseteq procs'
      /\ \/ op' = Idle
         \/ op' = [op EXCEPT !.todo = @ \ {w}, !.seen = @ \cup {w.ip}]
  BY DEF StartTunnel
<1>2. w \in op.all /\ SetUp = {} /\ op.cmd # "none"
  BY <1>1, NextIsToDo, IdleFields DEF UpInv, CommandOK, SetUp
<1>3. w \in Range(Desired)
  BY <1>2 DEF UpInv, CommandOK
<1> HIDE DEF w
<1>4. TunnelsSpared
  <2> SUFFICES ASSUME op.cmd = "add", NEW n \in nodes, n.addr # 0, ~DealtAnew(n)
               PROVE  w.addr # n.addr
    BY <1>1 DEF TunnelsSpared, Replaced
  <2> QED BY <1>2, <1>3 DEF AddInv, DealtAnew
<1>5. op'.cmd # "add" \/ (op'.cmd = op.cmd /\ op'.all = op.all /\ SetUp' = SetUp)
  <2>1. CASE op' = [op EXCEPT !.todo = @ \ {w}, !.seen = @ \cup {w.ip}]
    <3>1. op \in OpRecord
      BY DEF UpInv, TypeOK, OpRecord
    <3>2. op'.cmd = op.cmd /\ op'.all = op.all /\ op'.setup = op.setup /\ op'.failed = op.failed
      BY <2>1, <3>1 DEF OpRecord
    <3> QED BY <3>2 DEF SetUp
  <2> QED BY <1>1, <2>1, IdleFields
<1> QED BY <1>1, <1>4, <1>5, AddInvOnly

LEMMA AddSetsUp ==
  ASSUME UpInv, AddInv, NEW m \in Machines, SetupWorker(m)
  PROVE  AddInv' /\ TunnelsSpared
<1>1. PICK w \in NextOn(m) :
        \/ /\ nodes' = (nodes \ Stopped(w)) \cup {Registered(w)} /\ op' = [op EXCEPT !.setup = @ \ {w}]
        \/ /\ \E stopped \in {{}, Stopped(w)} : nodes' = nodes \ stopped
           /\ op' = [op EXCEPT !.setup = @ \ {w}, !.failed = @ \cup {w}]
  BY DEF SetupWorker
<1>2. op.cmd # "none" /\ UNCHANGED <<yaml, head, procs>>
  BY DEF SetupWorker
<1>3. w \in op.setup
  BY DEF NextOn
<1>4. /\ op'.cmd = op.cmd /\ op'.all = op.all /\ w \in op.all /\ w \in Workers /\ SetUp \subseteq SetUp'
      /\ (op' = [op EXCEPT !.setup = @ \ {w}] => w \in SetUp')
  BY <1>1, <1>3, SetupFields
<1>5. Registered(w) \in Workers /\ Same(Registered(w), w)
  BY <1>4, RegisteredIsWorker DEF UpInv
<1>6. OwnAddress(op.all)
  BY <1>2, OwnOfAll DEF UpInv
<1>7. \A n \in nodes' : n \in nodes \/ (n = Registered(w) /\ w \in SetUp')
  BY <1>1, <1>4
<1>8. AddInv'
  <2> SUFFICES ASSUME op.cmd = "add", NEW n \in nodes', NEW v \in op.all,
                      v.addr # 0, v.addr = n.addr, v.type = n.type
               PROVE  v \in SetUp'
    BY <1>4 DEF AddInv
  <2>1. CASE n \in nodes
    BY <1>4, <2>1 DEF AddInv
  <2>2. CASE n = Registered(w) /\ w \in SetUp'
    BY <1>4, <1>5, <1>6, <2>2 DEF Same, OwnAddress
  <2> QED BY <1>7, <2>1, <2>2
<1> QED BY <1>2, <1>8 DEF TunnelsSpared

LEMMA AddFinishes ==
  ASSUME UpInv, AddInv, Finish
  PROVE  AddInv' /\ TunnelsSpared
<1>1. /\ op.cmd # "none" /\ op' = Idle /\ UNCHANGED <<yaml, head, nodes, cut>>
      /\ procs' = {p \in procs : \A w \in Abandoned : p.addr # w.addr}
  BY DEF Finish
<1>2. ASSUME op.cmd = "add", NEW n \in nodes, n.addr # 0, ~DealtAnew(n), NEW a \in Abandoned
      PROVE  n.addr # a.addr
  <2>1. a \in op.all /\ a \in op.failed /\ a.addr # 0
    BY DEF Abandoned
  <2>2. a \in Range(Desired)
    BY <1>1, <2>1 DEF UpInv, CommandOK
  <2> QED BY <1>2, <2>1, <2>2 DEF AddInv, SetUp, DealtAnew
<1>3. TunnelsSpared
  BY <1>1, <1>2 DEF TunnelsSpared
<1>4. AddInv'
  BY <1>1, IdleFields, AddInvOnly
<1> QED BY <1>3, <1>4

LEMMA AddInvStep ==
  ASSUME UpInv, AddInv, Next
  PROVE  AddInv' /\ TunnelsSpared
<1>1. CASE Up
  <2>1. /\ op.cmd = "none" /\ nodes' = {}
    BY <1>1 DEF Up
  <2> QED BY <2>1 DEF AddInv, TunnelsSpared
<1>2. CASE Add
  BY <1>2, AddBegins DEF Add, TunnelsSpared
<1>3. CASE HostCommandFails
  BY <1>3, AddInvOnly, IdleFields DEF HostCommandFails, TunnelsSpared
<1>4. CASE Down
  <2>1. op.cmd = "none" /\ nodes' = {}
    BY <1>4 DEF Down
  <2> QED BY <2>1 DEF AddInv, TunnelsSpared
<1>5. ASSUME NEW n \in [TypeSet -> 0 .. MaxWorkers], EditYaml(n) PROVE AddInv' /\ TunnelsSpared
  <2>1. op.cmd = "none" /\ UNCHANGED <<nodes, op>>
    BY <1>5 DEF EditYaml
  <2> QED BY <2>1 DEF AddInv, TunnelsSpared
<1>6. ASSUME UNCHANGED <<yaml, head, op>>, nodes' \subseteq nodes,
             \A p \in procs \ procs' : p.ip \in cut'
      PROVE  AddInv' /\ TunnelsSpared
  <2>1. SetUp' = SetUp
    BY <1>6 DEF SetUp
  <2> QED BY <1>6, <2>1, AddInvOnly DEF TunnelsSpared
<1>7. ASSUME NEW p \in procs, TunnelDies(p) PROVE AddInv' /\ TunnelsSpared
  BY <1>6, <1>7 DEF TunnelDies
<1>8. ASSUME NEW s \in sessions, SessionEnds(s) PROVE AddInv' /\ TunnelsSpared
  BY <1>6, <1>8 DEF SessionEnds
<1>9. ASSUME NEW n \in nodes, NodeDies(n) PROVE AddInv' /\ TunnelsSpared
  BY <1>6, <1>9 DEF NodeDies
<1> QED BY <1>1, <1>2, <1>3, <1>4, <1>5, <1>7, <1>8, <1>9, AddStarts, AddSetsUp, AddFinishes
        DEF Next, Command, World

LEMMA AddInvStutter == AddInv /\ UNCHANGED vars => AddInv'
BY DEF AddInv, vars, SetUp

-----------------------------------------------------------------------------
(* The properties                                                            *)

\* Types of the state; a bare worker always finds a number of its own.
THEOREM TypeCorrect == Spec => []TypeOK
BY UpInvHolds, PTL DEF UpInv

\* assign_nodes: whatever the file says, a type balanced by "worker" is spread
\* as evenly as possible over its machines.
THEOREM EvenSpreadHolds == Spec => []EvenSpread
<1>1. UpInv => EvenSpread
  BY DesiredProperties DEF UpInv, TypeOK, Counts
<1> QED BY <1>1, UpInvHolds, PTL

\* From chia up to the first --add, the workers that survive keep their tunnel
\* and the relay of their machine (_stop_failed_worker_tunnels).
THEOREM UpKeepsSurvivorsHolds == Spec => []UpKeepsSurvivors
BY UpInvHolds, PTL DEF UpInv

\* The set-up of a worker by chia up stops no sibling (build_worker_script).
THEOREM UpSparesSiblingsHolds == Spec => UpSparesSiblings
<1>1. UpInv /\ [Next]_vars =>
        [\A m \in Machines : op.cmd = "up" /\ SetupWorker(m) => nodes \subseteq nodes']_vars
  BY SetupWorkerStep
<1> QED BY <1>1, UpInvHolds, PTL DEF Spec, UpSparesSiblings

\* --add leaves the tunnel of a registered worker alone, however the file was
\* edited under the running cluster, unless the edit has given its address to a
\* worker of another type (add_nodes_to_cluster).
THEOREM AddSparesTunnelsHolds == Spec => AddSparesTunnels
<1>1. UpInv /\ AddInv /\ [Next]_vars => AddInv'
  BY AddInvStep, AddInvStutter
<1>2. UpInv /\ AddInv /\ [Next]_vars => [TunnelsSpared]_vars
  <2> SUFFICES ASSUME UpInv, AddInv, Next PROVE TunnelsSpared
    BY Zenon
  <2> QED BY AddInvStep
<1> QED BY <1>1, <1>2, AddInvInit, UpInvHolds, PTL DEF Spec, AddSparesTunnels, TunnelsSpared

-----------------------------------------------------------------------------
(* What a tunnel is taken by                                                 *)

\* The tunnel addresses: whatever the file says, no two workers have the same,
\* and no two of a type the same number (assign_nodes).
AddressesAreOwn ==
  \A i, j \in DOMAIN Desired : i # j =>
    /\ Desired[j].addr # 0 => Desired[i].addr # Desired[j].addr
    /\ <<Desired[i].type, Desired[i].idx>> # <<Desired[j].type, Desired[j].idx>>

\* What has the address of a tunnel the command has started leads to its worker.
LeadsHome == \A w \in Started : \A p \in procs : p.addr = w.addr => p.ip = w.ip

\* The clean-up at the end of chia up leaves all tunnels of a machine on which a
\* worker is registered; that of --add does not (CleanupSparesRelay).
UpCleanupSparesMachine ==
  [][op.cmd = "up" /\ Finish => \A n \in nodes, p \in procs :
       n.addr # 0 /\ p.ip = n.ip => p \in procs']_vars

LEMMA StartLeadsHome ==
  ASSUME UpInv, LeadsHome, StartTunnel
  PROVE  LeadsHome'
<1> DEFINE w    == NextTunnel
           new  == [addr |-> w.addr, ip |-> w.ip, relay |-> w.ip \notin op.seen]
           gone == Replaced(w)
<1>1. /\ op.todo # {}
      /\ \/ /\ procs' = (procs \ gone) \cup {new}
            /\ op' = [op EXCEPT !.todo = @ \ {w}, !.seen = @ \cup {w.ip}]
         \/ op' = Idle
  BY DEF StartTunnel
<1>2. w \in op.todo /\ w \in op.all /\ w.addr # 0 /\ op.cmd # "none"
  BY <1>1, NextIsToDo, IdleFields DEF UpInv, CommandOK
<1>3. new.addr = w.addr /\ new.ip = w.ip /\ gone = {p \in procs : p.addr = w.addr}
  BY DEF Replaced
<1> HIDE DEF w, new, gone
<1>4. CASE op' = Idle
  BY <1>4, IdleFields DEF LeadsHome, Started
<1>5. CASE /\ procs' = (procs \ gone) \cup {new}
           /\ op' = [op EXCEPT !.todo = @ \ {w}, !.seen = @ \cup {w.ip}]
  <2>1. op'.todo = op.todo \ {w} /\ op'.all = op.all
    <3>1. op \in OpRecord
      BY DEF UpInv, TypeOK, OpRecord
    <3> QED BY <1>5, <3>1 DEF OpRecord
  <2>2. Started' = Started \cup {w} /\ w \notin Started
    BY <1>2, <2>1 DEF Started
  <2>3. \A v \in Started : v.addr # w.addr
    BY <1>2, <2>2, OwnOfAll DEF UpInv, OwnAddress, Started
  <2> QED BY <1>3, <1>5, <2>2, <2>3 DEF LeadsHome
<1> QED BY <1>1, <1>4, <1>5

LEMMA LeadsHomeStep ==
  ASSUME UpInv, LeadsHome, [Next]_vars
  PROVE  LeadsHome'
<1>1. ASSUME Started' \subseteq Started, procs' \subseteq procs PROVE LeadsHome'
  BY <1>1 DEF LeadsHome
<1>2. ASSUME NEW cmd \in {"up", "add"}, NEW chosen \in SUBSET Range(Desired), Begin(cmd, chosen)
      PROVE  LeadsHome'
  <2>1. chosen \in SUBSET Workers
    BY DesiredProperties DEF UpInv, TypeOK, Counts
  <2>2. Started' = {}
    BY <1>2, <2>1, BeginFields DEF Started
  <2> QED BY <2>2 DEF LeadsHome
<1>3. CASE Up
  <2>1. Begin("up", Range(Desired)) \/ (UNCHANGED op /\ UNCHANGED procs)
    BY <1>3 DEF Up
  <2> QED BY <1>1, <1>2, <2>1 DEF Started
<1>4. CASE Add
  <2>1. {Desired[i] : i \in Missing(Desired)} \in SUBSET Range(Desired)
    BY DEF Missing, Range
  <2> QED BY <1>2, <1>4, <2>1 DEF Add
<1>5. CASE \E m \in Machines : SetupWorker(m)
  <2>1. procs' = procs /\ op \in OpRecord
        /\ \E w : \/ op' = [op EXCEPT !.setup = @ \ {w}]
                  \/ op' = [op EXCEPT !.setup = @ \ {w}, !.failed = @ \cup {w}]
    BY <1>5 DEF SetupWorker, UpInv, TypeOK, OpRecord
  <2>2. op'.all = op.all /\ op'.todo = op.todo
    BY <2>1 DEF OpRecord
  <2> QED BY <1>1, <2>1, <2>2 DEF Started
<1>6. CASE HostCommandFails \/ Finish
  BY <1>1, <1>6, IdleFields DEF HostCommandFails, Finish, Started
<1>7. CASE Down \/ World \/ UNCHANGED vars
  BY <1>1, <1>7 DEF Down, World, EditYaml, TunnelDies, SessionEnds, NodeDies, vars, Started
<1> QED BY <1>3, <1>4, <1>5, <1>6, <1>7, StartLeadsHome DEF Next, Command

\* No two workers have the same tunnel address or the same name, for any
\* machines, types and numbers of workers (assign_nodes).
THEOREM AddressesAreOwnHolds == Spec => []AddressesAreOwn
<1>1. ASSUME UpInv PROVE AddressesAreOwn
  <2>1. \A i, j \in DOMAIN Desired :
          \/ Desired[i].addr = Desired[j].addr /\ Desired[j].addr # 0
          \/ Desired[i].type = Desired[j].type /\ Desired[i].idx = Desired[j].idx
          => i = j
    BY <1>1, DesiredProperties DEF UpInv, TypeOK, Counts
  <2>2. \A i, j \in DOMAIN Desired :
          <<Desired[i].type, Desired[i].idx>> = <<Desired[j].type, Desired[j].idx>> => i = j
    BY <2>1
  <2> QED BY <2>1, <2>2 DEF AddressesAreOwn
<1> QED BY <1>1, UpInvHolds, PTL

\* The clean-up after failed workers (_stop_failed_worker_tunnels) is as careful
\* as its comment says when chia up calls it: it stops a tunnel by its address,
\* and what has the address leads to the machine where all have failed.
THEOREM UpCleanupSparesMachineHolds == Spec => UpCleanupSparesMachine
<1>1. Init => LeadsHome
  BY IdleFields DEF Init, LeadsHome, Started
<1>2. UpInv /\ LeadsHome /\ [Next]_vars => LeadsHome'
  BY LeadsHomeStep
<1>3. UpInv /\ LeadsHome =>
        (op.cmd = "up" /\ Finish => \A n \in nodes, p \in procs :
           n.addr # 0 /\ p.ip = n.ip => p \in procs')
  <2> SUFFICES ASSUME UpInv, LeadsHome, op.cmd = "up", Finish,
                      NEW n \in nodes, NEW p \in procs, n.addr # 0, p.ip = n.ip
               PROVE  p \in procs'
    OBVIOUS
  <2>1. /\ op.todo = {} /\ op.setup = {}
        /\ procs' = {q \in procs : \A w \in Abandoned : q.addr # w.addr}
    BY DEF Finish
  <2>2. PICK w \in SetUp : Same(n, w)
    BY DEF UpInv, UpNodes
  <2>3. w \in op.all /\ w \notin op.failed /\ w.ip = n.ip
    BY <2>2 DEF SetUp, Same
  <2>4. ASSUME NEW a \in Abandoned PROVE p.addr # a.addr
    <3>1. a \in Started /\ a.ip # n.ip
      BY <2>1, <2>3 DEF Abandoned, Started
    <3> QED BY <3>1 DEF LeadsHome
  <2> QED BY <2>1, <2>4
<1> QED BY <1>1, <1>2, <1>3, UpInvHolds, PTL DEF Spec, UpCleanupSparesMachine

=============================================================================
