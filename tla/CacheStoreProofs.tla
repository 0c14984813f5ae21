-------------------------- MODULE CacheStoreProofs --------------------------
(***************************************************************************)
(* Theorems about CacheStore, for all tags, values, sizes and budgets.     *)
(*                                                                         *)
(* Three facts make an invariant together: the order of the index is total *)
(* because the order of the files is, which a warm start takes over; the   *)
(* index knows every intact file as long as files can be read; and an      *)
(* evicted or flushed value cannot come back because of that.              *)
(*                                                                         *)
(* The accounting of sizes rests on what the sum of the community modules  *)
(* computes.  It is a recursive function on sets; that it exists, is       *)
(* unique and may be unfolded from any element is proved first, by         *)
(* induction over the subsets of a finite set.                             *)
(***************************************************************************)
EXTENDS CacheStore, FiniteSetTheorems, TLAPS

Files ==
  /\ faults \in BOOLEAN
  /\ up \in BOOLEAN
  /\ index \subseteq Tags
  /\ disk \in [Tags -> Vals \cup {Absent, Torn}]
  /\ ~up => index = {} /\ older = {}

StoreInv ==
  /\ Files
  /\ OrderIsTotal
  /\ TotalOrder(written, Whole)
  /\ NothingEscapes

-----------------------------------------------------------------------------
(* Orders.                                                                 *)

LEMMA OrderWithout ==
  ASSUME NEW R, NEW S, NEW V, TotalOrder(R, S)
  PROVE  TotalOrder(Without(R, V), S \ V)
BY DEF TotalOrder, Without

LEMMA OrderLatest ==
  ASSUME NEW R, NEW S, NEW t, TotalOrder(R, S)
  PROVE  TotalOrder(Latest(R, S, t), S \cup {t})
<1> DEFINE L == Latest(R, S, t)
           W == Without(R, {t})
<1>1. TotalOrder(W, S \ {t})
  BY OrderWithout
<1>2. \A p : p \in L <=> p \in W \/ p \in (S \ {t}) \X {t}
  BY DEF Latest
<1>3. \A u, w : <<u, w>> \in L <=> <<u, w>> \in W \/ (u \in S \ {t} /\ w = t)
  BY <1>2
<1>4. L \subseteq (S \cup {t}) \X (S \cup {t})
  BY <1>1, <1>2 DEF TotalOrder
<1>5. \A u, w : <<u, w>> \in W => u \in S \ {t} /\ w \in S \ {t}
  BY <1>1 DEF TotalOrder
<1> HIDE DEF L, W
<1>6. \A u \in S \cup {t} : <<u, u>> \notin L
  BY <1>1, <1>3, <1>5 DEF TotalOrder
<1>7. \A u, w \in S \cup {t} : u # w => (<<u, w>> \in L <=> <<w, u>> \notin L)
  BY <1>1, <1>3, <1>5 DEF TotalOrder
<1>8. \A u, w, x \in S \cup {t} : <<u, w>> \in L /\ <<w, x>> \in L => <<u, x>> \in L
  BY <1>1, <1>3, <1>5 DEF TotalOrder
<1>9. TotalOrder(L, S \cup {t})
  BY <1>4, <1>6, <1>7, <1>8 DEF TotalOrder
<1> QED BY <1>9 DEF L

LEMMA EmptyOrder == TotalOrder({}, {})
BY DEF TotalOrder

-----------------------------------------------------------------------------
(* The effects the actions share.                                          *)

LEMMA ForgetOrder ==
  ASSUME OrderIsTotal, NEW V, Forget(V)
  PROVE  OrderIsTotal'
BY OrderWithout DEF OrderIsTotal, Forget

LEMMA UnlinkFiles ==
  ASSUME Files, TotalOrder(written, Whole), NEW V, Unlink(V)
  PROVE  /\ disk' \in [Tags -> Vals \cup {Absent, Torn}]
         /\ Whole' = Whole \ V
         /\ TotalOrder(written, Whole)'
<1>1. disk' \in [Tags -> Vals \cup {Absent, Torn}]
  BY DEF Files, Unlink
<1>2. Whole' = Whole \ V
  BY FileAssumption DEF Files, Unlink, Whole
<1>3. written' = Without(written, V)
  BY DEF Unlink
<1>4. TotalOrder(written', Whole')
  BY <1>2, <1>3, OrderWithout
<1> QED BY <1>1, <1>2, <1>4

LEMMA SpoilFiles ==
  ASSUME Files, TotalOrder(written, Whole), NEW t \in Tags, NEW V, Spoil(t, V)
  PROVE  /\ disk' \in [Tags -> Vals \cup {Absent, Torn}]
         /\ Whole' \subseteq Whole \ V
         /\ faults \/ t \notin Whole'
         /\ TotalOrder(written, Whole)'
<1>1. CASE Unlink(V) /\ faults
  BY <1>1, UnlinkFiles
<1>2. CASE /\ disk' = [u \in Tags |-> IF u = t THEN Torn ELSE IF u \in V THEN Absent ELSE disk[u]]
           /\ written' = Without(written, V \cup {t})
  <2>1. disk' \in [Tags -> Vals \cup {Absent, Torn}]
    BY <1>2 DEF Files
  <2>2. Whole' = Whole \ (V \cup {t})
    BY <1>2, FileAssumption DEF Files, Whole
  <2>3. TotalOrder(written', Whole')
    BY <1>2, <2>2, OrderWithout
  <2> QED BY <2>1, <2>2, <2>3
<1> QED BY <1>1, <1>2 DEF Spoil

LEMMA GoneEmpty ==
  ASSUME Gone
  PROVE  up' = FALSE /\ index' = {} /\ older' = {} /\ OrderIsTotal' /\ NothingEscapes'
BY EmptyOrder DEF Gone, OrderIsTotal, NothingEscapes

\* What the calls have in common in which a file could not be deleted.
LEMMA RaisesForgets ==
  ASSUME \/ \E t \in Tags, v \in Vals : EvictionRaises(t, v)
         \/ \E t \in Tags : EvictRaises(t)
         \/ FlushRaises
  PROVE  \E W, F \in SUBSET index, t \in Tags \cup {Absent} : UnlinkRaises(W, F, t)
<1>1. ASSUME NEW t \in Tags, NEW v \in Vals, EvictionRaises(t, v)
      PROVE  \E W, F \in SUBSET index : UnlinkRaises(W, F, t)
  <2>0. PICK V \in SUBSET (index \ {t}) :
          \E W \in SUBSET V, u \in V : UnlinkRaises(W, W \cup {u} \cup ({t} \cap index), t)
    BY <1>1, Zenon DEF EvictionRaises
  <2>1. PICK W \in SUBSET V, u \in V : UnlinkRaises(W, W \cup {u} \cup ({t} \cap index), t)
    BY <2>0
  <2>2. W \in SUBSET index /\ W \cup {u} \cup ({t} \cap index) \in SUBSET index
    OBVIOUS
  <2> QED BY <2>1, <2>2
<1>2. ASSUME NEW t \in Tags, EvictRaises(t)
      PROVE  \E W, F \in SUBSET index : UnlinkRaises(W, F, t)
  <2>1. {} \in SUBSET index /\ {t} \in SUBSET index /\ UnlinkRaises({}, {t}, t)
    BY <1>2 DEF EvictRaises
  <2> QED BY <2>1
<1>3. ASSUME FlushRaises
      PROVE  \E W, F \in SUBSET index : UnlinkRaises(W, F, Absent)
  <2>1. PICK W \in SUBSET index : UnlinkRaises(W, {}, Absent)
    BY <1>3 DEF FlushRaises
  <2>2. {} \in SUBSET index
    OBVIOUS
  <2> QED BY <2>1, <2>2
<1> QED BY <1>1, <1>2, <1>3

\* A store leaves the tag with its new value and the victims gone.
LEMMA StoreFiles ==
  ASSUME Files, TotalOrder(written, Whole), NEW t \in Tags, NEW v \in Vals, NEW V,
         disk' = [u \in Tags |-> IF u = t THEN v ELSE IF u \in V THEN Absent ELSE disk[u]],
         written' = Latest(Without(written, V), Whole \ V, t)
  PROVE  /\ disk' \in [Tags -> Vals \cup {Absent, Torn}]
         /\ Whole' = (Whole \ V) \cup {t}
         /\ TotalOrder(written, Whole)'
<1>1. disk' \in [Tags -> Vals \cup {Absent, Torn}]
  BY DEF Files
<1>2. Whole' = (Whole \ V) \cup {t}
  BY FileAssumption DEF Files, Whole
<1>3. TotalOrder(Without(written, V), Whole \ V)
  BY OrderWithout
<1>4. TotalOrder(written', Whole')
  BY <1>2, <1>3, OrderLatest
<1> QED BY <1>1, <1>2, <1>4

-----------------------------------------------------------------------------
(* The invariant.                                                          *)

LEMMA StoreInvInit == Init => StoreInv
BY FileAssumption, EmptyOrder DEF Init, Cold, StoreInv, Files, Whole, OrderIsTotal, NothingEscapes, TotalOrder

LEMMA StoreInvStep == StoreInv /\ [Next]_vars => StoreInv'
<1> SUFFICES ASSUME StoreInv, [Next]_vars PROVE StoreInv'
  OBVIOUS
<1> USE DEF StoreInv
<1>1. ASSUME NEW b \in Budgets, WarmStart(b) PROVE StoreInv'
  <2>1. PICK skipped \in SUBSET (IF faults THEN Whole ELSE {}) : index' = Whole \ skipped
    BY <1>1 DEF WarmStart
  <2>2. Whole' = Whole /\ UNCHANGED <<faults, disk, written>> /\ up'
    BY <1>1 DEF WarmStart, Whole
  <2>3. index' \subseteq Tags /\ Whole \subseteq Tags
    BY <2>1 DEF Whole
  <2>4. TotalOrder(Without(written, Tags \ index'), Whole \ (Tags \ index'))
    BY OrderWithout
  <2>5. Whole \ (Tags \ index') = index'
    BY <2>1, <2>3
  <2>6. OrderIsTotal'
    BY <1>1, <2>4, <2>5 DEF WarmStart, OrderIsTotal
  <2>7. NothingEscapes'
    BY <2>1, <2>2 DEF NothingEscapes
  <2>8. Files'
    BY <2>2, <2>3 DEF Files
  <2> QED BY <2>2, <2>6, <2>7, <2>8
<1>2. ASSUME Stop PROVE StoreInv'
  <2>1. Whole' = Whole /\ UNCHANGED <<faults, disk, written>> /\ Gone
    BY <1>2 DEF Stop, Whole
  <2> QED BY <2>1, GoneEmpty DEF Files
<1>3. ASSUME NEW t \in Tags, NEW v \in Vals, Refuse(t, v) PROVE StoreInv'
  BY <1>3 DEF Refuse, memory, Files, Whole, OrderIsTotal, NothingEscapes
<1>4. ASSUME NEW t \in Tags, NEW v \in Vals, Store(t, v) PROVE StoreInv'
  <2>1. PICK V \in SUBSET (index \ {t}) :
          /\ index' = (index \ V) \cup {t}
          /\ older' = Latest(Without(older, V), index \ V, t)
          /\ disk' = [u \in Tags |-> IF u = t THEN v ELSE IF u \in V THEN Absent ELSE disk[u]]
          /\ written' = Latest(Without(written, V), Whole \ V, t)
    BY <1>4 DEF Store
  <2>2. UNCHANGED <<faults, up>> /\ up
    BY <1>4 DEF Store
  <2>3. /\ disk' \in [Tags -> Vals \cup {Absent, Torn}]
        /\ Whole' = (Whole \ V) \cup {t}
        /\ TotalOrder(written, Whole)'
    BY <2>1, StoreFiles
  <2>4. OrderIsTotal'
    <3>1. TotalOrder(Without(older, V), index \ V)
      BY OrderWithout DEF OrderIsTotal
    <3>2. TotalOrder(Latest(Without(older, V), index \ V, t), (index \ V) \cup {t})
      BY <3>1, OrderLatest
    <3> QED BY <2>1, <3>2 DEF OrderIsTotal
  <2>5. NothingEscapes'
    BY <2>1, <2>2, <2>3 DEF NothingEscapes
  <2>6. Files'
    BY <2>1, <2>2, <2>3 DEF Files
  <2> QED BY <2>3, <2>4, <2>5, <2>6
<1>5. ASSUME NEW t \in Tags, NEW v \in Vals, StoreRaises(t, v) PROVE StoreInv'
  <2>1. PICK V \in SUBSET (index \ {t}) : Spoil(t, V) /\ Forget(V \cup ({t} \cap index))
    BY <1>5 DEF StoreRaises
  <2>2. UNCHANGED <<faults, up>> /\ up
    BY <1>5 DEF StoreRaises
  <2>3. index' = index \ (V \cup ({t} \cap index))
    BY <2>1 DEF Forget
  <2>4. OrderIsTotal'
    BY <2>1, ForgetOrder
  <2>5. /\ disk' \in [Tags -> Vals \cup {Absent, Torn}]
        /\ Whole' \subseteq Whole \ V
        /\ faults \/ t \notin Whole'
        /\ TotalOrder(written, Whole)'
    BY <2>1, SpoilFiles
  <2>6. NothingEscapes'
    BY <2>2, <2>3, <2>5 DEF NothingEscapes
  <2>7. Files'
    BY <2>2, <2>3, <2>5 DEF Files
  <2> QED BY <2>4, <2>5, <2>6, <2>7
<1>6. ASSUME NEW t \in Tags, NEW v \in Vals, StoreDies(t, v) PROVE StoreInv'
  <2>1. Gone /\ UNCHANGED faults
    BY <1>6 DEF StoreDies
  <2>2. \E V : Spoil(t, V) \/ Unlink(V)
    BY <1>6 DEF StoreDies
  <2>3. disk' \in [Tags -> Vals \cup {Absent, Torn}] /\ TotalOrder(written, Whole)'
    BY <2>2, SpoilFiles, UnlinkFiles
  <2> QED BY <2>1, <2>3, GoneEmpty DEF Files
<1>7. ASSUME NEW t \in Tags, Hit(t) PROVE StoreInv'
  <2>1. UNCHANGED <<faults, up, index, disk, written>> /\ Whole' = Whole /\ up
    BY <1>7 DEF Hit, Whole
  <2>2. older' = Latest(older, index, t) /\ index \cup {t} = index
    BY <1>7 DEF Hit
  <2>3. TotalOrder(Latest(older, index, t), index \cup {t})
    BY OrderLatest DEF OrderIsTotal
  <2>4. OrderIsTotal'
    BY <2>1, <2>2, <2>3 DEF OrderIsTotal
  <2> QED BY <2>1, <2>4 DEF Files, NothingEscapes
<1>8. ASSUME NEW t \in Tags, Miss(t) PROVE StoreInv'
  <2>1. UNCHANGED <<faults, up, disk, written>> /\ Whole' = Whole /\ up
    BY <1>8 DEF Miss, Whole
  <2>2. CASE UNCHANGED <<index, older>>
    BY <2>1, <2>2 DEF Files, OrderIsTotal, NothingEscapes
  <2>3. CASE (t \notin Whole \/ faults) /\ Forget({t})
    <3>1. index' = index \ {t}
      BY <2>3 DEF Forget
    <3>2. OrderIsTotal'
      BY <2>3, ForgetOrder
    <3> QED BY <2>1, <2>3, <3>1, <3>2 DEF Files, NothingEscapes
  <2> QED BY <1>8, <2>2, <2>3 DEF Miss
<1>9. ASSUME NEW t \in Tags, Evict(t) PROVE StoreInv'
  <2>1. UNCHANGED <<faults, up>> /\ up
    BY <1>9 DEF Evict
  <2>2. CASE Forget({t}) /\ Unlink({t})
    <3>1. index' = index \ {t}
      BY <2>2 DEF Forget
    <3>2. OrderIsTotal'
      BY <2>2, ForgetOrder
    <3>3. /\ disk' \in [Tags -> Vals \cup {Absent, Torn}]
          /\ Whole' = Whole \ {t}
          /\ TotalOrder(written, Whole)'
      BY <2>2, UnlinkFiles
    <3> QED BY <2>1, <3>1, <3>2, <3>3 DEF Files, NothingEscapes
  <2>3. CASE UNCHANGED <<index, older, disk, written>>
    BY <2>1, <2>3 DEF Files, Whole, OrderIsTotal, NothingEscapes
  <2> QED BY <1>9, <2>2, <2>3 DEF Evict
<1>10. ASSUME Flush PROVE StoreInv'
  <2>1. /\ UNCHANGED <<faults, up>> /\ up /\ Unlink(index)
        /\ index' = {} /\ older' = {}
    BY <1>10 DEF Flush
  <2>2. /\ disk' \in [Tags -> Vals \cup {Absent, Torn}]
        /\ Whole' = Whole \ index
        /\ TotalOrder(written, Whole)'
    BY <2>1, UnlinkFiles
  <2>3. OrderIsTotal'
    BY <2>1, EmptyOrder DEF OrderIsTotal
  <2> QED BY <2>1, <2>2, <2>3 DEF Files, NothingEscapes
<1>11. ASSUME NEW t \in Tags, Damage(t) PROVE StoreInv'
  <2>1. UNCHANGED <<faults, up, index, older>> /\ written' = Without(written, {t})
    BY <1>11 DEF Damage, memory
  <2>2. PICK what \in {Absent, Torn} : disk' = [disk EXCEPT ![t] = what]
    BY <1>11 DEF Damage
  <2>3. disk' \in [Tags -> Vals \cup {Absent, Torn}]
    BY <2>2 DEF Files
  <2>4. Whole' = Whole \ {t}
    BY <2>2, FileAssumption DEF Files, Whole
  <2>5. TotalOrder(written', Whole')
    BY <2>1, <2>4, OrderWithout
  <2> QED BY <2>1, <2>3, <2>4, <2>5 DEF Files, OrderIsTotal, NothingEscapes
<1>12. ASSUME UNCHANGED vars PROVE StoreInv'
  BY <1>12 DEF vars, memory, Files, Whole, OrderIsTotal, NothingEscapes
<1>13. ASSUME NEW W \in SUBSET index, NEW F \in SUBSET index, NEW t, UnlinkRaises(W, F, t)
       PROVE  StoreInv'
  <2>1. /\ UNCHANGED <<faults, up>> /\ faults /\ up
        /\ Unlink(W) /\ Forget(F) /\ index' = index \ F
    BY <1>13 DEF UnlinkRaises, Forget
  <2>2. OrderIsTotal'
    BY <2>1, ForgetOrder
  <2>3. disk' \in [Tags -> Vals \cup {Absent, Torn}] /\ TotalOrder(written, Whole)'
    BY <2>1, UnlinkFiles
  <2> QED BY <2>1, <2>2, <2>3 DEF Files, NothingEscapes
<1> HIDE DEF StoreInv
<1>14. ASSUME \/ \E t \in Tags, v \in Vals : EvictionRaises(t, v)
              \/ \E t \in Tags : EvictRaises(t)
              \/ FlushRaises
       PROVE  StoreInv'
  BY <1>13, <1>14, RaisesForgets
<1> QED
  BY <1>1, <1>2, <1>3, <1>4, <1>5, <1>6, <1>7, <1>8, <1>9, <1>10, <1>11, <1>12, <1>14 DEF Next, Write

LEMMA StoreInvHolds == Spec => []StoreInv
BY StoreInvInit, StoreInvStep, PTL DEF Spec

\* There is always one least recently used entry to evict next, and the
\* order survives overwrites, failed reads and restarts.
THEOREM OrderIsTotalHolds == Spec => []OrderIsTotal
<1>1. StoreInv => OrderIsTotal
  BY DEF StoreInv
<1> QED BY <1>1, StoreInvHolds, PTL

\* No intact pickle escapes the index of a running cache, whatever sequence
\* of crashes, failed writes and restarts led to it.
THEOREM NothingEscapesHolds == Spec => []NothingEscapes
<1>1. StoreInv => NothingEscapes
  BY DEF StoreInv
<1> QED BY <1>1, StoreInvHolds, PTL

-----------------------------------------------------------------------------
(* What the sum of the library computes, for every finite set.             *)

\* The element the fold of a set takes first.
PickOf(s) == CHOOSE x \in s : TRUE

\* The equation of the fold, for a table g of the sums of the subsets.
Sums(f, g, s) == IF s = {} THEN 0 ELSE f[PickOf(s)] + g[s \ {PickOf(s)}]

\* The table the recursive function of the fold stands for.
Table(f, S) == CHOOSE g : g = [s \in SUBSET S |-> Sums(f, g, s)]

\* The sum of the library is that table's entry for the whole set.
LEMMA SumIsTable ==
  ASSUME NEW f, NEW S
  PROVE  Sum(f, S) = Table(f, S)[S]
BY DEF Sum, SumFunctionOnSet, FoldFunctionOnSet, MapThenFoldSet, Table, Sums, PickOf

\* Induction over the subsets of a finite set, for the members of a set A: the
\* strict inclusion of finite sets is well-founded.
LEMMA FiniteInduction ==
  ASSUME NEW S, IsFiniteSet(S), NEW A,
         \A T \in SUBSET S : (\A U \in SUBSET T : U # T => U \in A) => T \in A
  PROVE  S \in A
<1> DEFINE B == (SUBSET S) \ A
<1>1. SUFFICES ASSUME B # {} PROVE FALSE
  OBVIOUS
<1>2. B \subseteq FiniteSubsetsOf(S)
  BY FS_FiniteSubsetsOfFinite
<1>3. IsWellFoundedOn(StrictSubsetOrdering(S), FiniteSubsetsOf(S))
  BY FS_StrictSubsetOrderingWellFounded
<1>4. PICK T \in B : \A U \in B : <<U, T>> \notin StrictSubsetOrdering(S)
  <2> HIDE DEF B
  <2> QED BY <1>1, <1>2, <1>3, WFMin
<1>5. ASSUME NEW U \in SUBSET T, U # T PROVE U \in A
  <2>1. <<U, T>> \in StrictSubsetOrdering(S)
    BY <1>5 DEF StrictSubsetOrdering
  <2> QED BY <1>4, <2>1
<1> QED BY <1>5

\* g satisfies the equation on the subsets of S.
Obeys(f, g, S) == \A s \in SUBSET S : g[s] = Sums(f, g, s)

LEMMA PickIn == ASSUME NEW s, s # {} PROVE PickOf(s) \in s
BY DEF PickOf

\* The equation has one solution ...
LEMMA TableUnique ==
  ASSUME NEW f, NEW g, NEW h, NEW S, IsFiniteSet(S), Obeys(f, g, S), Obeys(f, h, S)
  PROVE  g[S] = h[S]
<1> DEFINE A == {s \in SUBSET S : g[s] = h[s]}
<1>1. ASSUME NEW T \in SUBSET S, \A U \in SUBSET T : U # T => U \in A
      PROVE  T \in A
  <2>1. CASE T = {}
    BY <2>1 DEF Obeys, Sums
  <2>2. CASE T # {}
    <3>1. T \ {PickOf(T)} \in SUBSET T /\ T \ {PickOf(T)} # T
      BY <2>2, PickIn
    <3>2. g[T \ {PickOf(T)}] = h[T \ {PickOf(T)}]
      BY <1>1, <3>1
    <3> QED BY <2>2, <3>2 DEF Obeys, Sums
  <2> QED BY <2>1, <2>2
<1>2. S \in A
  <2> HIDE DEF A
  <2> QED BY <1>1, FiniteInduction
<1> QED BY <1>2

\* ... and the table is one, so the recursion is well defined.
LEMMA TableObeys ==
  ASSUME NEW f, NEW S, IsFiniteSet(S)
  PROVE  Obeys(f, Table(f, S), S)
<1> DEFINE A == {T \in SUBSET S : Obeys(f, Table(f, T), T)}
<1>1. ASSUME NEW T \in SUBSET S, \A U \in SUBSET T : U # T => U \in A
      PROVE  T \in A
  <2> DEFINE D(s) == Table(f, s)[s]
             h == [s \in SUBSET T |-> D(s)]
             g == [s \in SUBSET T |-> IF s = T THEN Sums(f, h, T) ELSE D(s)]
  <2>1. ASSUME NEW s \in SUBSET T, s # T, s # {}
        PROVE  D(s) = Sums(f, h, s)
    <3> DEFINE r == s \ {PickOf(s)}
    <3>1. r \in SUBSET T /\ r \in SUBSET s /\ r # T /\ r # s
      BY <2>1, PickIn
    <3>2. Obeys(f, Table(f, s), s) /\ Obeys(f, Table(f, r), r)
      BY <1>1, <2>1, <3>1
    <3>3. Obeys(f, Table(f, s), r) /\ IsFiniteSet(r)
      BY <3>1, <3>2, FS_Subset DEF Obeys
    <3>4. Table(f, s)[r] = D(r)
      BY <3>2, <3>3, TableUnique
    <3>5. h[r] = D(r)
      BY <3>1
    <3>6. D(s) = Sums(f, Table(f, s), s)
      BY <3>2 DEF Obeys
    <3> HIDE DEF h, D
    <3> QED BY <2>1, <3>4, <3>5, <3>6 DEF Sums
  <2>2. ASSUME {} # T PROVE D({}) = 0
    <3>1. Obeys(f, Table(f, {}), {})
      BY <1>1, <2>2
    <3> QED BY <3>1 DEF Obeys, Sums
  <2>3. ASSUME NEW s \in SUBSET T PROVE g[s] = Sums(f, g, s)
    <3>1. CASE s = {}
      BY <2>2, <3>1 DEF Sums
    <3>2. CASE s # {}
      <4> DEFINE r == s \ {PickOf(s)}
      <4>1. r \in SUBSET T /\ r # T
        BY <3>2, PickIn
      <4>2. g[r] = h[r]
        BY <4>1
      <4>3. g[s] = Sums(f, h, s)
        BY <2>1, <3>2
      <4> HIDE DEF g, h, D
      <4> QED BY <3>2, <4>2, <4>3 DEF Sums
    <3> QED BY <3>1, <3>2
  <2>4. g = [s \in SUBSET T |-> Sums(f, g, s)]
    <3>1. g = [s \in SUBSET T |-> g[s]]
      OBVIOUS
    <3> HIDE DEF g
    <3> QED BY <2>3, <3>1
  <2>5. Table(f, T) = [s \in SUBSET T |-> Sums(f, Table(f, T), s)]
    <3> HIDE DEF g
    <3> QED BY <2>4 DEF Table
  <2>6. Obeys(f, Table(f, T), T)
    <3> DEFINE t == Table(f, T)
    <3>1. t = [s \in SUBSET T |-> Sums(f, t, s)]
      BY <2>5
    <3>2. \A s \in SUBSET T : t[s] = Sums(f, t, s)
      <4> HIDE DEF t
      <4> QED BY <3>1
    <3> QED BY <3>2 DEF Obeys
  <2> QED BY <2>6
<1>2. S \in A
  <2> HIDE DEF A
  <2> QED BY <1>1, FiniteInduction
<1> QED BY <1>2

LEMMA SumEmpty == ASSUME NEW f PROVE Sum(f, {}) = 0
<1>1. Obeys(f, Table(f, {}), {})
  BY TableObeys, FS_EmptySet
<1> QED BY <1>1, SumIsTable DEF Obeys, Sums

\* One step of the fold.
LEMMA SumPick ==
  ASSUME NEW f, NEW S, IsFiniteSet(S), S # {}
  PROVE  Sum(f, S) = f[PickOf(S)] + Sum(f, S \ {PickOf(S)})
<1> DEFINE r == S \ {PickOf(S)}
<1>1. r \in SUBSET S /\ IsFiniteSet(r)
  BY FS_Subset
<1>2. Obeys(f, Table(f, S), S) /\ Obeys(f, Table(f, r), r)
  BY <1>1, TableObeys
<1>3. Obeys(f, Table(f, S), r)
  BY <1>1, <1>2 DEF Obeys
<1>4. Table(f, S)[r] = Table(f, r)[r]
  BY <1>1, <1>2, <1>3, TableUnique
<1>5. Table(f, S)[S] = Sums(f, Table(f, S), S)
  BY <1>2 DEF Obeys
<1> QED BY <1>4, <1>5, SumIsTable DEF Sums

LEMMA SumType ==
  ASSUME NEW X, NEW f \in [X -> Nat], NEW S \in SUBSET X, IsFiniteSet(S)
  PROVE  Sum(f, S) \in Nat
<1> DEFINE A == {T \in SUBSET S : Sum(f, T) \in Nat}
<1>1. ASSUME NEW T \in SUBSET S, \A U \in SUBSET T : U # T => U \in A
      PROVE  T \in A
  <2>1. CASE T = {}
    BY <2>1, SumEmpty
  <2>2. CASE T # {}
    <3>1. PickOf(T) \in T /\ IsFiniteSet(T)
      BY <2>2, PickIn, FS_Subset
    <3>2. Sum(f, T \ {PickOf(T)}) \in Nat /\ f[PickOf(T)] \in Nat
      BY <1>1, <3>1
    <3>3. Sum(f, T) = f[PickOf(T)] + Sum(f, T \ {PickOf(T)})
      BY <2>2, <3>1, SumPick
    <3> QED BY <3>2, <3>3
  <2> QED BY <2>1, <2>2
<1>2. S \in A
  <2> HIDE DEF A
  <2> QED BY <1>1, FiniteInduction
<1> QED BY <1>2

\* Any element may be taken first.
LEMMA SumWithout ==
  ASSUME NEW X, NEW f \in [X -> Nat], NEW S \in SUBSET X, IsFiniteSet(S), NEW x \in S
  PROVE  Sum(f, S) = f[x] + Sum(f, S \ {x})
<1> DEFINE A == {T \in SUBSET S : \A y \in T : Sum(f, T) = f[y] + Sum(f, T \ {y})}
<1>1. ASSUME NEW T \in SUBSET S, \A U \in SUBSET T : U # T => U \in A
      PROVE  T \in A
  <2> SUFFICES ASSUME NEW y \in T PROVE Sum(f, T) = f[y] + Sum(f, T \ {y})
    OBVIOUS
  <2> DEFINE p == PickOf(T)
             r == T \ {y, p}
  <2>1. p \in T /\ IsFiniteSet(T) /\ IsFiniteSet(T \ {y})
    BY PickIn, FS_Subset
  <2>2. Sum(f, T) = f[p] + Sum(f, T \ {p})
    BY <2>1, SumPick
  <2>3. CASE y = p
    BY <2>2, <2>3
  <2>4. CASE y # p
    <3>1. T \ {p} \in A /\ T \ {y} \in A
      BY <1>1, <2>1
    <3>2. y \in T \ {p} /\ p \in T \ {y} /\ (T \ {p}) \ {y} = r /\ (T \ {y}) \ {p} = r
      BY <2>1, <2>4
    <3>3. Sum(f, T \ {p}) = f[y] + Sum(f, r) /\ Sum(f, T \ {y}) = f[p] + Sum(f, r)
      BY <3>1, <3>2
    <3>4. f[y] \in Nat /\ f[p] \in Nat /\ Sum(f, r) \in Nat
      <4>1. r \in SUBSET X /\ IsFiniteSet(r)
        BY <2>1, FS_Subset
      <4> QED BY <2>1, <4>1, SumType
    <3> HIDE DEF A, p, r
    <3> QED BY <2>2, <3>3, <3>4
  <2> QED BY <2>3, <2>4
<1>2. S \in A
  <2> HIDE DEF A
  <2> QED BY <1>1, FiniteInduction
<1> QED BY <1>2

\* Functions that agree on a set have the same sum over it.
LEMMA SumSame ==
  ASSUME NEW f, NEW g, NEW S, IsFiniteSet(S), \A x \in S : f[x] = g[x]
  PROVE  Sum(f, S) = Sum(g, S)
<1> DEFINE A == {T \in SUBSET S : Sum(f, T) = Sum(g, T)}
<1>1. ASSUME NEW T \in SUBSET S, \A U \in SUBSET T : U # T => U \in A
      PROVE  T \in A
  <2>1. CASE T = {}
    BY <2>1, SumEmpty
  <2>2. CASE T # {}
    <3>1. PickOf(T) \in T /\ IsFiniteSet(T)
      BY <2>2, PickIn, FS_Subset
    <3>2. Sum(f, T \ {PickOf(T)}) = Sum(g, T \ {PickOf(T)})
      BY <1>1, <3>1
    <3>3. f[PickOf(T)] = g[PickOf(T)]
      BY <3>1
    <3>4. /\ Sum(f, T) = f[PickOf(T)] + Sum(f, T \ {PickOf(T)})
          /\ Sum(g, T) = g[PickOf(T)] + Sum(g, T \ {PickOf(T)})
      BY <2>2, <3>1, SumPick
    <3> QED BY <3>2, <3>3, <3>4
  <2> QED BY <2>1, <2>2
<1>2. S \in A
  <2> HIDE DEF A
  <2> QED BY <1>1, FiniteInduction
<1> QED BY <1>2

\* The sum over a part and the sum over the rest.
LEMMA SumSplit ==
  ASSUME NEW X, NEW f \in [X -> Nat], NEW S \in SUBSET X, IsFiniteSet(S), NEW V \in SUBSET S
  PROVE  Sum(f, S) = Sum(f, V) + Sum(f, S \ V)
<1> DEFINE A == {T \in SUBSET V : Sum(f, S) = Sum(f, T) + Sum(f, S \ T)}
<1>0. IsFiniteSet(V)
  BY FS_Subset
<1>1. ASSUME NEW T \in SUBSET V, \A U \in SUBSET T : U # T => U \in A
      PROVE  T \in A
  <2>1. CASE T = {}
    <3>1. S \ T = S /\ Sum(f, S) \in Nat
      BY <2>1, SumType
    <3> QED BY <2>1, <3>1, SumEmpty
  <2>2. CASE T # {}
    <3> DEFINE p == PickOf(T)
               r == T \ {p}
    <3>1. p \in T /\ IsFiniteSet(T) /\ IsFiniteSet(S \ r) /\ IsFiniteSet(S \ T) /\ IsFiniteSet(r)
      BY <2>2, PickIn, FS_Subset
    <3>2. Sum(f, S) = Sum(f, r) + Sum(f, S \ r)
      BY <1>1, <3>1
    <3>3. Sum(f, T) = f[p] + Sum(f, r)
      BY <2>2, <3>1, SumPick
    <3>4. (S \ r) \ {p} = S \ T /\ p \in S \ r /\ S \ r \in SUBSET X
      BY <3>1
    <3>5. Sum(f, S \ r) = f[p] + Sum(f, S \ T)
      <4> HIDE DEF p, r
      <4> QED BY <3>1, <3>4, SumWithout
    <3>6. f[p] \in Nat /\ Sum(f, r) \in Nat /\ Sum(f, S \ T) \in Nat
      BY <3>1, SumType
    <3> HIDE DEF p, r
    <3> QED BY <3>2, <3>3, <3>5, <3>6
  <2> QED BY <2>1, <2>2
<1>2. V \in A
  <2> HIDE DEF A
  <2> QED BY <1>0, <1>1, FiniteInduction
<1> QED BY <1>2



-----------------------------------------------------------------------------
(* Accounting.                                                             *)

\* The sizes of the entries, and what of TypeOK StoreInv does not say.
SizesOK ==
  /\ budget \in Nat
  /\ nbytes \in [Tags -> Nat]
  /\ answer \in Replies
  /\ IsFiniteSet(index) /\ IsFiniteSet(Whole)
  /\ Accounting

SizeInv == StoreInv /\ SizesOK

LEMMA ReplyTypes ==
  /\ Reply("none", Absent, Absent) \in Replies
  /\ Reply("flushed", Absent, Absent) \in Replies
  /\ \A t \in Tags \cup {Absent} : \A what \in {"raised", "refused", "miss", "removed", "absent"} :
       Reply(what, t, Absent) \in Replies
  /\ \A t \in Tags, v \in Vals : \A what \in {"stored", "hit"} : Reply(what, t, v) \in Replies
BY DEF Reply, Replies

LEMMA GoneSizes ==
  ASSUME Gone, IsFiniteSet(Whole')
  PROVE  SizesOK'
<1>1. /\ budget' = 0 /\ index' = {} /\ sizeBytes' = 0
      /\ nbytes' = [t \in Tags |-> 0]
      /\ answer' = Reply("none", Absent, Absent)
  BY DEF Gone
<1>2. Sum(nbytes', {}) = 0
  BY SumEmpty
<1>3. Accounting'
  BY <1>1, <1>2 DEF Accounting
<1> QED BY <1>1, <1>3, FS_EmptySet, ReplyTypes DEF SizesOK

\* Entries that leave the index take their share of the total along.
LEMMA ForgetSizes ==
  ASSUME SizesOK, Files, NEW V \in SUBSET index, Forget(V)
  PROVE  /\ nbytes' \in [Tags -> Nat]
         /\ IsFiniteSet(index')
         /\ Accounting'
<1> USE DEF SizesOK, Accounting, Files
<1>1. /\ index' = index \ V
      /\ nbytes' = [t \in Tags |-> IF t \in V THEN 0 ELSE nbytes[t]]
      /\ sizeBytes' = sizeBytes - Sum(nbytes, V)
  BY DEF Forget
<1>2. IsFiniteSet(index \ V) /\ IsFiniteSet(V)
  BY FS_Subset
<1>3. Sum(nbytes, index) = Sum(nbytes, V) + Sum(nbytes, index \ V)
  BY SumSplit
<1>4. Sum(nbytes', index \ V) = Sum(nbytes, index \ V)
  <2>1. \A t \in index \ V : nbytes'[t] = nbytes[t]
    BY <1>1
  <2> QED BY <1>2, <2>1, SumSame
<1>5. Sum(nbytes, V) \in Nat /\ Sum(nbytes, index \ V) \in Nat
  BY <1>2, SumType
<1>6. sizeBytes' = Sum(nbytes', index')
  BY <1>1, <1>3, <1>4, <1>5
<1>7. nbytes' \in [Tags -> Nat] /\ index' = {t \in Tags : nbytes'[t] > 0}
  BY <1>1
<1> QED BY <1>1, <1>2, <1>6, <1>7

\* The total without a tag and without the victims, whether or not the tag
\* has an entry.
LEMMA TotalOfRest ==
  ASSUME SizesOK, Files, NEW t \in Tags, NEW V \in SUBSET (index \ {t})
  PROVE  /\ sizeBytes - nbytes[t] - Sum(nbytes, V) = Sum(nbytes, (index \ {t}) \ V)
         /\ Sum(nbytes, (index \ {t}) \ V) \in Nat
         /\ Sum(nbytes, index \ {t}) = Sum(nbytes, V) + Sum(nbytes, (index \ {t}) \ V)
<1> USE DEF SizesOK, Accounting, Files
<1> DEFINE S == index \ {t}
<1>1. S \in SUBSET Tags /\ IsFiniteSet(S) /\ IsFiniteSet(V) /\ IsFiniteSet(S \ V)
  BY FS_Subset
<1>2. Sum(nbytes, index) = nbytes[t] + Sum(nbytes, S)
  <2>1. CASE t \in index
    BY <2>1, SumWithout
  <2>2. CASE t \notin index
    <3>1. S = index /\ nbytes[t] = 0
      BY <2>2
    <3>2. Sum(nbytes, S) \in Nat
      BY <1>1, SumType
    <3> HIDE DEF S, SizesOK, Accounting, Files
    <3> QED BY <3>1, <3>2
  <2> QED BY <2>1, <2>2
<1>3. Sum(nbytes, S) = Sum(nbytes, V) + Sum(nbytes, S \ V)
  BY <1>1, SumSplit
<1>4. nbytes[t] \in Nat /\ Sum(nbytes, V) \in Nat /\ Sum(nbytes, S \ V) \in Nat
  BY <1>1, SumType
<1> QED BY <1>2, <1>3, <1>4

\* What a store does to the sizes.
LEMMA StoreSizes ==
  ASSUME SizesOK, Files, NEW t \in Tags, NEW v \in Vals, NEW V \in SUBSET (index \ {t}),
         index' = (index \ V) \cup {t},
         nbytes' = [u \in Tags |-> IF u = t THEN Size[v] ELSE IF u \in V THEN 0 ELSE nbytes[u]],
         sizeBytes' = sizeBytes - nbytes[t] - Sum(nbytes, V) + Size[v]
  PROVE  /\ nbytes' \in [Tags -> Nat]
         /\ IsFiniteSet(index')
         /\ Accounting'
         /\ sizeBytes' = Sum(nbytes, (index \ {t}) \ V) + Size[v]
<1> USE DEF SizesOK, Accounting, Files
<1> DEFINE R == (index \ {t}) \ V
<1>1. Size[v] \in Nat /\ Size[v] > 0
  BY SizeAssumption
<1>2. IsFiniteSet(R) /\ IsFiniteSet(R \cup {t}) /\ index' = R \cup {t} /\ R \in SUBSET Tags
  <2>1. R \in SUBSET index
    OBVIOUS
  <2>2. IsFiniteSet(R)
    BY <2>1, FS_Subset
  <2>3. IsFiniteSet(R \cup {t})
    BY <2>2, FS_AddElement
  <2> QED BY <2>2, <2>3
<1>3. nbytes' \in [Tags -> Nat] /\ index' = {u \in Tags : nbytes'[u] > 0}
  BY <1>1
<1>4. sizeBytes - nbytes[t] - Sum(nbytes, V) = Sum(nbytes, R) /\ Sum(nbytes, R) \in Nat
  BY TotalOfRest
<1>5. Sum(nbytes', R) = Sum(nbytes, R)
  <2>1. \A u \in R : nbytes'[u] = nbytes[u]
    OBVIOUS
  <2> QED BY <1>2, <2>1, SumSame
<1>6. Sum(nbytes', R \cup {t}) = nbytes'[t] + Sum(nbytes', R)
  <2>1. (R \cup {t}) \ {t} = R /\ t \in R \cup {t} /\ R \cup {t} \in SUBSET Tags
    BY <1>2
  <2> HIDE DEF R
  <2> QED BY <1>2, <1>3, <2>1, SumWithout
<1>7. nbytes'[t] = Size[v]
  OBVIOUS
<1>8. sizeBytes' = Sum(nbytes, R) + Size[v]
  BY <1>4
<1>9. sizeBytes' = Sum(nbytes', R \cup {t})
  <2> HIDE DEF R, SizesOK, Accounting, Files
  <2> QED BY <1>1, <1>4, <1>5, <1>6, <1>7, <1>8
<1>10. sizeBytes' = Sum(nbytes', index')
  <2> HIDE DEF R
  <2> QED BY <1>2, <1>9, Zenon
<1> QED BY <1>2, <1>3, <1>8, <1>10

LEMMA SizeInit == Init => SizeInv
<1> SUFFICES ASSUME Init PROVE SizesOK
  BY StoreInvInit DEF SizeInv
<1>1. index = {} /\ Whole = {} /\ sizeBytes = 0 /\ nbytes = [t \in Tags |-> 0] /\ budget = 0
  BY FileAssumption DEF Init, Cold, Whole
<1>2. Accounting
  BY <1>1, SumEmpty DEF Accounting
<1>3. answer \in Replies
  BY ReplyTypes DEF Init
<1> QED BY <1>1, <1>2, <1>3, FS_EmptySet DEF SizesOK

LEMMA SizeStep == SizeInv /\ [Next]_vars => SizeInv'
<1> SUFFICES ASSUME SizeInv, [Next]_vars PROVE SizesOK'
  BY StoreInvStep DEF SizeInv
<1>0. StoreInv /\ SizesOK /\ Files /\ TotalOrder(written, Whole) /\ Whole \subseteq Tags
  BY DEF SizeInv, StoreInv, Whole
<1>1. ASSUME NEW b \in Budgets, WarmStart(b) PROVE SizesOK'
  <2>1. /\ index' \subseteq Whole /\ Whole' = Whole
        /\ nbytes' = [t \in Tags |-> IF t \in index' THEN Size[disk[t]] ELSE 0]
        /\ sizeBytes' = Sum(nbytes', index')
        /\ budget' = b
        /\ answer' = Reply("none", Absent, Absent)
    BY <1>1 DEF WarmStart, Whole
  <2>2. \A t \in index' : Size[disk[t]] \in Nat /\ Size[disk[t]] > 0
    BY <2>1, SizeAssumption DEF Whole
  <2>3. nbytes' \in [Tags -> Nat] /\ index' = {t \in Tags : nbytes'[t] > 0}
    BY <1>0, <2>1, <2>2
  <2>4. IsFiniteSet(index') /\ IsFiniteSet(Whole')
    BY <1>0, <2>1, FS_Subset DEF SizesOK
  <2> QED BY <2>1, <2>3, <2>4, ReplyTypes, BudgetAssumption DEF SizesOK, Accounting
<1>2. ASSUME Stop PROVE SizesOK'
  <2>1. Gone /\ Whole' = Whole
    BY <1>2 DEF Stop, Whole
  <2> QED BY <1>0, <2>1, GoneSizes DEF SizesOK
<1>3. ASSUME NEW t \in Tags, NEW v \in Vals, Refuse(t, v) PROVE SizesOK'
  BY <1>0, <1>3, ReplyTypes DEF Refuse, memory, SizesOK, Accounting, Whole
<1>4. ASSUME NEW t \in Tags, NEW v \in Vals, Store(t, v) PROVE SizesOK'
  <2>1. PICK V \in SUBSET (index \ {t}) :
          /\ index' = (index \ V) \cup {t}
          /\ nbytes' = [u \in Tags |-> IF u = t THEN Size[v] ELSE IF u \in V THEN 0 ELSE nbytes[u]]
          /\ sizeBytes' = sizeBytes - nbytes[t] - Sum(nbytes, V) + Size[v]
          /\ disk' = [u \in Tags |-> IF u = t THEN v ELSE IF u \in V THEN Absent ELSE disk[u]]
          /\ written' = Latest(Without(written, V), Whole \ V, t)
    BY <1>4 DEF Store
  <2>2. nbytes' \in [Tags -> Nat] /\ IsFiniteSet(index') /\ Accounting'
    BY <1>0, <2>1, StoreSizes
  <2>3. Whole' = (Whole \ V) \cup {t}
    BY <1>0, <2>1, StoreFiles
  <2>4. IsFiniteSet(Whole')
    BY <1>0, <2>3, FS_Subset, FS_AddElement DEF SizesOK
  <2>5. budget' = budget /\ answer' = Reply("stored", t, v)
    BY <1>4 DEF Store
  <2> QED BY <1>0, <2>2, <2>4, <2>5, ReplyTypes DEF SizesOK
<1>5. ASSUME NEW t \in Tags, NEW v \in Vals, StoreRaises(t, v) PROVE SizesOK'
  <2>1. PICK V \in SUBSET (index \ {t}) : Spoil(t, V) /\ Forget(V \cup ({t} \cap index))
    BY <1>5 DEF StoreRaises
  <2>2. V \cup ({t} \cap index) \in SUBSET index
    OBVIOUS
  <2>3. nbytes' \in [Tags -> Nat] /\ IsFiniteSet(index') /\ Accounting'
    BY <1>0, <2>1, <2>2, ForgetSizes
  <2>4. IsFiniteSet(Whole')
    <3>1. Whole' \subseteq Whole \ V
      BY <1>0, <2>1, SpoilFiles
    <3> QED BY <1>0, <3>1, FS_Subset DEF SizesOK
  <2>5. budget' = budget /\ answer' = Reply("raised", t, Absent)
    BY <1>5 DEF StoreRaises
  <2> QED BY <1>0, <2>3, <2>4, <2>5, ReplyTypes DEF SizesOK
<1>6. ASSUME NEW t \in Tags, NEW v \in Vals, StoreDies(t, v) PROVE SizesOK'
  <2>1. Gone /\ \E V : Spoil(t, V) \/ Unlink(V)
    BY <1>6 DEF StoreDies
  <2>2. Whole' \subseteq Whole
    BY <1>0, <2>1, SpoilFiles, UnlinkFiles
  <2>3. IsFiniteSet(Whole')
    BY <1>0, <2>2, FS_Subset DEF SizesOK
  <2> QED BY <2>1, <2>3, GoneSizes
<1>7. ASSUME NEW t \in Tags, Hit(t) PROVE SizesOK'
  <2>1. /\ UNCHANGED <<budget, index, nbytes, sizeBytes>> /\ Whole' = Whole
        /\ answer' = Reply("hit", t, disk[t]) /\ disk[t] \in Vals
    BY <1>7 DEF Hit, Whole
  <2> QED BY <1>0, <2>1, ReplyTypes DEF SizesOK, Accounting
<1>8. ASSUME NEW t \in Tags, Miss(t) PROVE SizesOK'
  <2>1. Whole' = Whole /\ budget' = budget /\ answer' = Reply("miss", t, Absent)
    BY <1>8 DEF Miss, Whole
  <2>2. CASE UNCHANGED <<index, nbytes, sizeBytes>>
    BY <1>0, <2>1, <2>2, ReplyTypes DEF SizesOK, Accounting
  <2>3. CASE t \in index /\ Forget({t})
    BY <1>0, <2>1, <2>3, ForgetSizes, ReplyTypes DEF SizesOK
  <2> QED BY <1>8, <2>2, <2>3 DEF Miss
<1>9. ASSUME NEW t \in Tags, Evict(t) PROVE SizesOK'
  <2>1. budget' = budget
    BY <1>9 DEF Evict
  <2>2. CASE t \in index /\ Forget({t}) /\ Unlink({t}) /\ answer' = Reply("removed", t, Absent)
    <3>1. IsFiniteSet(Whole')
      BY <1>0, <2>2, UnlinkFiles, FS_Subset DEF SizesOK
    <3> QED BY <1>0, <2>1, <2>2, <3>1, ForgetSizes, ReplyTypes DEF SizesOK
  <2>3. CASE UNCHANGED <<index, nbytes, sizeBytes, disk>> /\ answer' = Reply("absent", t, Absent)
    BY <1>0, <2>1, <2>3, ReplyTypes DEF SizesOK, Accounting, Whole
  <2> QED BY <1>9, <2>2, <2>3 DEF Evict
<1>10. ASSUME Flush PROVE SizesOK'
  <2>1. /\ Unlink(index) /\ index' = {} /\ sizeBytes' = 0 /\ budget' = budget
        /\ nbytes' = [t \in Tags |-> 0]
        /\ answer' = Reply("flushed", Absent, Absent)
    BY <1>10 DEF Flush
  <2>2. IsFiniteSet(Whole')
    BY <1>0, <2>1, UnlinkFiles, FS_Subset DEF SizesOK
  <2>3. Sum(nbytes', {}) = 0
    BY SumEmpty
  <2>4. Accounting'
    BY <2>1, <2>3 DEF Accounting
  <2> QED BY <1>0, <2>1, <2>2, <2>4, FS_EmptySet, ReplyTypes DEF SizesOK
<1>11. ASSUME NEW t \in Tags, Damage(t) PROVE SizesOK'
  <2>1. UNCHANGED <<budget, index, nbytes, sizeBytes, answer>>
    BY <1>11 DEF Damage, memory
  <2>2. Whole' \subseteq Whole
    <3>1. PICK what \in {Absent, Torn} : disk' = [disk EXCEPT ![t] = what]
      BY <1>11 DEF Damage
    <3> QED BY <1>0, <3>1, FileAssumption DEF Files, Whole
  <2>3. IsFiniteSet(Whole')
    BY <1>0, <2>2, FS_Subset DEF SizesOK
  <2> QED BY <1>0, <2>1, <2>3 DEF SizesOK, Accounting
<1>12. ASSUME UNCHANGED vars PROVE SizesOK'
  BY <1>0, <1>12 DEF vars, memory, SizesOK, Accounting, Whole
<1>13. ASSUME NEW W \in SUBSET index, NEW F \in SUBSET index, NEW t \in Tags \cup {Absent},
              UnlinkRaises(W, F, t)
       PROVE  SizesOK'
  <2>1. Unlink(W) /\ Forget(F) /\ budget' = budget /\ answer' = Reply("raised", t, Absent)
    BY <1>13 DEF UnlinkRaises
  <2>2. nbytes' \in [Tags -> Nat] /\ IsFiniteSet(index') /\ Accounting'
    BY <1>0, <2>1, ForgetSizes
  <2>3. IsFiniteSet(Whole')
    BY <1>0, <2>1, UnlinkFiles, FS_Subset DEF SizesOK
  <2> QED BY <1>0, <2>1, <2>2, <2>3, ReplyTypes DEF SizesOK
<1>14. ASSUME \/ \E t \in Tags, v \in Vals : EvictionRaises(t, v)
              \/ \E t \in Tags : EvictRaises(t)
              \/ FlushRaises
       PROVE  SizesOK'
  BY <1>13, <1>14, RaisesForgets
<1> QED
  BY <1>1, <1>2, <1>3, <1>4, <1>5, <1>6, <1>7, <1>8, <1>9, <1>10, <1>11, <1>12, <1>14 DEF Next, Write

LEMMA SizeInvHolds == Spec => []SizeInv
BY SizeInit, SizeStep, PTL DEF Spec

\* The running total is the sum of the sizes of the entries, and every entry
\* has one, however entries come and go.
THEOREM AccountingHolds == Spec => []Accounting
<1>1. SizeInv => Accounting
  BY DEF SizeInv, SizesOK
<1> QED BY <1>1, SizeInvHolds, PTL

\* Every variable keeps its type; the total is an integer because only
\* finitely many tags are ever indexed.
THEOREM CacheTypes == Spec => []TypeOK
<1>1. SizeInv => TypeOK
  <2> SUFFICES ASSUME SizeInv PROVE TypeOK
    OBVIOUS
  <2>1. Files /\ SizesOK /\ OrderIsTotal /\ TotalOrder(written, Whole)
    BY DEF SizeInv, StoreInv
  <2>2. older \in SUBSET (Tags \X Tags)
    BY <2>1 DEF OrderIsTotal, TotalOrder, Files
  <2>3. written \in SUBSET (Tags \X Tags)
    BY <2>1 DEF TotalOrder, Whole
  <2>4. Sum(nbytes, index) \in Nat
    BY <2>1, SumType DEF SizesOK, Files
  <2>5. sizeBytes \in Int
    BY <2>1, <2>4 DEF SizesOK, Accounting
  <2> QED BY <2>1, <2>2, <2>3, <2>5 DEF TypeOK, Files, SizesOK
<1> QED BY <1>1, SizeInvHolds, PTL

-----------------------------------------------------------------------------
(* What a store evicts.                                                    *)

\* The entry a call used last is the last of the order.
LastUsed ==
  answer.what \in {"hit", "stored"} /\ answer.tag \in index =>
    \A u \in index \ {answer.tag} : <<u, answer.tag>> \in older

LEMMA ReplyFields ==
  ASSUME NEW what, NEW t, NEW v
  PROVE  Reply(what, t, v).what = what /\ Reply(what, t, v).tag = t /\ Reply(what, t, v).val = v
BY DEF Reply

\* Only a hit or a store counts as a use; a step that answers neither leaves
\* the answer, the index and the order as they are, or answers something else.
LEMMA LastUsedStep == SizeInv /\ LastUsed /\ [Next]_vars => LastUsed'
<1> SUFFICES ASSUME SizeInv, LastUsed, [Next]_vars PROVE LastUsed'
  OBVIOUS
<1>1. ASSUME UNCHANGED <<answer, index, older>> PROVE LastUsed'
  BY <1>1 DEF LastUsed
<1>2. ASSUME answer'.what \notin {"hit", "stored"} PROVE LastUsed'
  BY <1>2 DEF LastUsed
<1>3. ASSUME NEW t \in Tags, NEW v \in Vals, Store(t, v) PROVE LastUsed'
  <2>1. PICK V \in SUBSET (index \ {t}) :
          /\ index' = (index \ V) \cup {t}
          /\ older' = Latest(Without(older, V), index \ V, t)
    BY <1>3 DEF Store
  <2>2. answer'.tag = t
    BY <1>3, ReplyFields DEF Store
  <2> QED BY <2>1, <2>2 DEF LastUsed, Latest
<1>4. ASSUME NEW t \in Tags, Hit(t) PROVE LastUsed'
  <2>1. older' = Latest(older, index, t) /\ index' = index /\ answer'.tag = t
    BY <1>4, ReplyFields DEF Hit
  <2> QED BY <2>1 DEF LastUsed, Latest
<1>5. ASSUME NEW b \in Budgets, WarmStart(b) PROVE LastUsed'
  BY <1>2, <1>5, ReplyFields DEF WarmStart
<1>6. ASSUME Stop PROVE LastUsed'
  BY <1>2, <1>6, ReplyFields DEF Stop, Gone
<1>7. ASSUME NEW t \in Tags, NEW v \in Vals, Refuse(t, v) \/ StoreRaises(t, v) \/ StoreDies(t, v)
      PROVE  LastUsed'
  <2>1. answer'.what \in {"refused", "raised", "none"}
    BY <1>7, ReplyFields DEF Refuse, StoreRaises, StoreDies, Gone
  <2> QED BY <1>2, <2>1
<1>8. ASSUME NEW t \in Tags, Miss(t) \/ Evict(t) PROVE LastUsed'
  <2>1. answer'.what \in {"miss", "removed", "absent"}
    BY <1>8, ReplyFields DEF Miss, Evict
  <2> QED BY <1>2, <2>1
<1>9. ASSUME Flush PROVE LastUsed'
  BY <1>2, <1>9, ReplyFields DEF Flush
<1>10. ASSUME NEW t \in Tags, Damage(t) PROVE LastUsed'
  BY <1>1, <1>10 DEF Damage, memory
<1>11. ASSUME UNCHANGED vars PROVE LastUsed'
  BY <1>1, <1>11 DEF vars, memory
<1>12. ASSUME \/ \E t \in Tags, v \in Vals : EvictionRaises(t, v)
              \/ \E t \in Tags : EvictRaises(t)
              \/ FlushRaises
       PROVE  LastUsed'
  <2>1. answer'.what = "raised"
    BY <1>12, RaisesForgets, ReplyFields DEF UnlinkRaises
  <2> QED BY <1>2, <2>1
<1> QED
  BY <1>3, <1>4, <1>5, <1>6, <1>7, <1>8, <1>9, <1>10, <1>11, <1>12 DEF Next, Write

\* A step that answers "stored" anew is a store of the tag it names.
LEMMA StoredByStore ==
  ASSUME [Next]_vars, answer'.what = "stored", answer' # answer
  PROVE  \E t \in Tags, v \in Vals : Store(t, v) /\ answer' = Reply("stored", t, v)
<1>1. ASSUME NEW b \in Budgets, WarmStart(b) PROVE FALSE
  BY <1>1, ReplyFields DEF WarmStart
<1>2. ASSUME Stop PROVE FALSE
  BY <1>2, ReplyFields DEF Stop, Gone
<1>3. ASSUME NEW t \in Tags, NEW v \in Vals, Refuse(t, v) \/ StoreRaises(t, v) \/ StoreDies(t, v)
      PROVE  FALSE
  BY <1>3, ReplyFields DEF Refuse, StoreRaises, StoreDies, Gone
<1>4. ASSUME NEW t \in Tags, Hit(t) \/ Miss(t) \/ Evict(t) PROVE FALSE
  BY <1>4, ReplyFields DEF Hit, Miss, Evict
<1>5. ASSUME Flush PROVE FALSE
  BY <1>5, ReplyFields DEF Flush
<1>6. ASSUME NEW t \in Tags, Damage(t) PROVE FALSE
  BY <1>6 DEF Damage
<1>7. ASSUME NEW t \in Tags, NEW v \in Vals, Store(t, v)
      PROVE  answer' = Reply("stored", t, v)
  BY <1>7 DEF Store
<1>8. ~UNCHANGED vars
  BY DEF vars
<1>9. ASSUME \/ \E t \in Tags, v \in Vals : EvictionRaises(t, v)
             \/ \E t \in Tags : EvictRaises(t)
             \/ FlushRaises
      PROVE  FALSE
  BY <1>9, RaisesForgets, ReplyFields DEF UnlinkRaises
<1> QED
  BY <1>1, <1>2, <1>3, <1>4, <1>5, <1>6, <1>7, <1>8, <1>9 DEF Next, Write

\* The last entry of an order is a victim only if everything else is one and
\* the rest alone would not have made room.
LEMMA LastIsSpared ==
  ASSUME SizeInv, NEW t \in Tags, NEW n \in Nat, NEW V \in SUBSET (index \ {t}),
         Victims(V, t, n), NEW a \in index \ {t},
         \A u \in index \ {a} : <<u, a>> \in older,
         nbytes[a] + n <= budget
  PROVE  a \notin V
<1> SUFFICES ASSUME a \in V PROVE FALSE
  OBVIOUS
<1> DEFINE others == index \ {t}
           W == others \ {a}
<1>0. SizesOK /\ Files /\ TotalOrder(older, index)
  BY DEF SizeInv, StoreInv, OrderIsTotal
<1>1. AtFront(V, others)
  BY DEF Victims
<1>2. V = others
  <2>1. \A u \in others \ V : <<a, u>> \in older /\ <<u, a>> \in older
    BY <1>1 DEF AtFront
  <2>2. \A u \in others \ V : FALSE
    BY <1>0, <2>1 DEF TotalOrder
  <2> QED BY <2>2
<1>3. AtFront(W, others)
  BY DEF AtFront
<1>4. sizeBytes - nbytes[t] - Sum(nbytes, W) + n <= budget
  <2>1. sizeBytes - nbytes[t] - Sum(nbytes, W) = Sum(nbytes, others \ W)
    BY <1>0, TotalOfRest
  <2>2. others \ W = {a}
    OBVIOUS
  <2>3. Sum(nbytes, {a}) = nbytes[a]
    <3>1. a \in Tags /\ {a} \ {a} = {} /\ IsFiniteSet({a}) /\ nbytes \in [Tags -> Nat]
      BY <1>0, FS_Singleton DEF Files, SizesOK
    <3>2. Sum(nbytes, {a}) = nbytes[a] + Sum(nbytes, {})
      BY <3>1, SumWithout
    <3> QED BY <3>1, <3>2, SumEmpty
  <2> HIDE DEF W, others
  <2> QED BY <2>1, <2>2, <2>3
<1>5. W \in SUBSET V /\ W # V
  BY <1>2
<1> QED BY <1>3, <1>4, <1>5 DEF Victims

\* A value just read or written is not the one the next store evicts, if both
\* fit into the budget.
THEOREM RecentSurvivesHolds == Spec => RecentSurvives
<1> DEFINE Spared ==
      /\ answer.what \in {"hit", "stored"}
      /\ answer'.what = "stored" /\ answer' # answer
      /\ answer'.tag # answer.tag
      /\ nbytes[answer.tag] + Size[answer'.val] <= budget
      /\ answer.tag \in index
      => answer.tag \in index'
<1>1. Init => LastUsed
  BY ReplyFields DEF Init, LastUsed
<1>2. SizeInv /\ LastUsed /\ [Next]_vars => Spared
  <2> SUFFICES ASSUME SizeInv, LastUsed, [Next]_vars,
                      answer.what \in {"hit", "stored"},
                      answer'.what = "stored", answer' # answer, answer'.tag # answer.tag,
                      nbytes[answer.tag] + Size[answer'.val] <= budget,
                      answer.tag \in index
               PROVE  answer.tag \in index'
    OBVIOUS
  <2>1. PICK t \in Tags, v \in Vals : Store(t, v) /\ answer' = Reply("stored", t, v)
    BY StoredByStore
  <2>2. answer'.tag = t /\ answer'.val = v /\ Size[v] \in Nat
    BY <2>1, ReplyFields, SizeAssumption
  <2>3. PICK V \in SUBSET (index \ {t}) :
          Victims(V, t, Size[v]) /\ index' = (index \ V) \cup {t}
    BY <2>1 DEF Store
  <2>4. answer.tag \notin V
    BY <2>2, <2>3, LastIsSpared DEF LastUsed
  <2> QED BY <2>3, <2>4
<1>3. SizeInv /\ LastUsed /\ [Next]_vars => [Spared]_vars
  BY <1>2
<1> HIDE DEF Spared
<1>4. Spec => [][Spared]_vars
  BY <1>1, <1>3, SizeInvHolds, LastUsedStep, PTL DEF Spec
<1> QED BY <1>4 DEF RecentSurvives, Spared

\* A store that succeeds leaves the cache within its budget, however far a
\* warm start with a smaller budget had left it above.
THEOREM StoreFits == Spec => [][answer'.what = "stored" /\ answer' # answer => sizeBytes' <= budget']_vars
<1> DEFINE Fits == answer'.what = "stored" /\ answer' # answer => sizeBytes' <= budget'
<1>1. SizeInv /\ [Next]_vars => [Fits]_vars
  <2> SUFFICES ASSUME SizeInv, [Next]_vars, answer'.what = "stored", answer' # answer
               PROVE  sizeBytes' <= budget'
    OBVIOUS
  <2>1. PICK t \in Tags, v \in Vals : Store(t, v)
    BY StoredByStore
  <2>2. PICK V \in SUBSET (index \ {t}) :
          /\ Victims(V, t, Size[v])
          /\ sizeBytes' = sizeBytes - nbytes[t] - Sum(nbytes, V) + Size[v]
    BY <2>1 DEF Store
  <2>3. budget' = budget /\ Size[v] <= budget /\ Size[v] \in Nat /\ budget \in Nat
    BY <2>1, SizeAssumption DEF Store, SizeInv, SizesOK
  <2>4. \/ sizeBytes - nbytes[t] - Sum(nbytes, V) + Size[v] <= budget
        \/ V = index \ {t}
    BY <2>2 DEF Victims
  <2>5. CASE V = index \ {t}
    <3>1. sizeBytes - nbytes[t] - Sum(nbytes, V) = Sum(nbytes, (index \ {t}) \ V)
      BY TotalOfRest DEF SizeInv, StoreInv
    <3>2. (index \ {t}) \ V = {}
      BY <2>5
    <3>3. sizeBytes - nbytes[t] - Sum(nbytes, V) = 0
      BY <3>1, <3>2, SumEmpty
    <3> QED BY <2>2, <2>3, <3>3
  <2> QED BY <2>2, <2>3, <2>4, <2>5
<1> HIDE DEF Fits
<1>2. Spec => [][Fits]_vars
  BY <1>1, SizeInvHolds, PTL DEF Spec
<1> QED BY <1>2 DEF Fits

-----------------------------------------------------------------------------
(* Refinement: every call is a call of the lossy store, and what the       *)
(* outside world does to the files is a loss.                              *)

\* What the callers of the cache can see of a file.
Seen(u) == IF disk[u] \in Vals THEN disk[u] ELSE Absent

LEMMA LossyInit == Init => Lossy!Init
BY FileAssumption DEF Init, Cold, Lossy!Init, Reply, Lossy!Reply

\* A step that stores nothing and answers nothing new about a tag.
LEMMA LossStep ==
  ASSUME Files, \A u \in Tags : Seen(u)' \in {Seen(u), Absent},
         answer' \in {answer, Reply("none", Absent, Absent)}
  PROVE  Lossy!Next
<1>1. Lossy!Lose
  BY DEF Lossy!Lose, Lossy!Reply, Reply, Seen
<1> QED BY <1>1 DEF Lossy!Next

LEMMA LossyStep == StoreInv /\ [Next]_vars => [faults \/ Lossy!Next]_vars
<1> SUFFICES ASSUME StoreInv, Next PROVE faults \/ Lossy!Next
  BY Zenon
<1>0. Files
  BY DEF StoreInv
<1>1. ASSUME NEW b \in Budgets, WarmStart(b) PROVE Lossy!Next
  BY <1>0, <1>1, LossStep DEF WarmStart, Seen
<1>2. ASSUME Stop PROVE Lossy!Next
  BY <1>0, <1>2, LossStep DEF Stop, Gone, Seen
<1>3. ASSUME NEW t \in Tags, NEW v \in Vals, Refuse(t, v) PROVE Lossy!Next
  <2>1. Lossy!Refuse(t)
    BY <1>3 DEF Refuse, Lossy!Refuse, Reply, Lossy!Reply
  <2> QED BY <2>1 DEF Lossy!Next
<1>4. ASSUME NEW t \in Tags, NEW v \in Vals, Store(t, v) PROVE Lossy!Next
  <2>1. PICK V \in SUBSET (index \ {t}) :
          disk' = [u \in Tags |-> IF u = t THEN v ELSE IF u \in V THEN Absent ELSE disk[u]]
    BY <1>4 DEF Store
  <2>2. answer' = Reply("stored", t, v)
    BY <1>4 DEF Store
  <2>3. Lossy!Forgets(t)
    BY <2>1, FileAssumption DEF Lossy!Forgets
  <2>4. Lossy!Put(t, v)
    BY <2>1, <2>2, <2>3, <1>0, FileAssumption DEF Lossy!Put, Reply, Lossy!Reply, Files
  <2> QED BY <2>4 DEF Lossy!Next
<1>5. ASSUME NEW t \in Tags, NEW v \in Vals, StoreRaises(t, v) PROVE Lossy!Next
  <2>1. PICK V \in SUBSET (index \ {t}) : Spoil(t, V)
    BY <1>5 DEF StoreRaises
  <2>2. answer' = Reply("raised", t, Absent)
    BY <1>5 DEF StoreRaises
  <2>3. \A u \in Tags : disk'[u] \in {disk[u], Torn, Absent}
    BY <1>0, <2>1 DEF Spoil, Unlink, Files
  <2>4. \A u \in Tags : Seen(u)' \in {Seen(u), Absent}
    BY <2>3, FileAssumption DEF Seen
  <2>5. Lossy!Forgets(t)
    BY <2>4 DEF Lossy!Forgets, Seen
  <2>6. Lossy!PutFails(t)
    BY <2>2, <2>4, <2>5 DEF Lossy!PutFails, Reply, Lossy!Reply, Seen
  <2> QED BY <2>6 DEF Lossy!Next
<1>6. ASSUME NEW t \in Tags, NEW v \in Vals, StoreDies(t, v) PROVE Lossy!Next
  <2>1. answer' = Reply("none", Absent, Absent)
    BY <1>6 DEF StoreDies, Gone
  <2>2. \E V : Spoil(t, V) \/ Unlink(V)
    BY <1>6 DEF StoreDies
  <2>3. \A u \in Tags : disk'[u] \in {disk[u], Torn, Absent}
    BY <1>0, <2>2 DEF Spoil, Unlink, Files
  <2>4. \A u \in Tags : Seen(u)' \in {Seen(u), Absent}
    BY <2>3, FileAssumption DEF Seen
  <2> QED BY <1>0, <2>1, <2>4, LossStep
<1>7. ASSUME NEW t \in Tags, Hit(t) PROVE Lossy!Next
  <2>1. Lossy!Get(t)
    BY <1>7, FileAssumption DEF Hit, Whole, Lossy!Get, Reply, Lossy!Reply
  <2> QED BY <2>1 DEF Lossy!Next
<1>8. ASSUME NEW t \in Tags, Miss(t) PROVE Lossy!Next
  <2>1. Lossy!Get(t)
    BY <1>8 DEF Miss, Lossy!Get, Reply, Lossy!Reply
  <2> QED BY <2>1 DEF Lossy!Next
<1>9. ASSUME NEW t \in Tags, Evict(t), ~faults PROVE Lossy!Next
  <2>1. \/ disk' = [u \in Tags |-> IF u \in {t} THEN Absent ELSE disk[u]]
        \/ disk' = disk /\ t \notin index
    BY <1>9 DEF Evict, Unlink
  <2>2. answer' = Reply("removed", t, Absent) \/ answer' = Reply("absent", t, Absent)
    BY <1>9 DEF Evict
  <2>3. t \in Whole => t \in index
    BY <1>9 DEF Evict, StoreInv, NothingEscapes
  <2>4. Seen(t)' = Absent
    BY <2>1, <2>3, FileAssumption DEF Seen, Whole
  <2>5. \A u \in Tags \ {t} : Seen(u)' = Seen(u)
    BY <2>1 DEF Seen
  <2>6. Lossy!Remove(t)
    BY <2>2, <2>4, <2>5 DEF Lossy!Remove, Reply, Lossy!Reply, Seen
  <2> QED BY <2>6 DEF Lossy!Next
<1>10. ASSUME Flush, ~faults PROVE Lossy!Next
  <2>1. disk' = [u \in Tags |-> IF u \in index THEN Absent ELSE disk[u]]
    BY <1>10 DEF Flush, Unlink
  <2>2. Whole \subseteq index
    BY <1>10 DEF Flush, StoreInv, NothingEscapes
  <2>3. \A u \in Tags : Seen(u)' = Absent
    BY <2>1, <2>2, FileAssumption DEF Seen, Whole
  <2>4. Lossy!Clear
    BY <1>10, <2>3 DEF Flush, Lossy!Clear, Reply, Lossy!Reply, Seen
  <2> QED BY <2>4 DEF Lossy!Next
<1>11. ASSUME NEW t \in Tags, Damage(t) PROVE Lossy!Next
  <2>1. PICK what \in {Absent, Torn} : disk' = [disk EXCEPT ![t] = what]
    BY <1>11 DEF Damage
  <2>2. \A u \in Tags : Seen(u)' \in {Seen(u), Absent}
    BY <1>0, <2>1, FileAssumption DEF Seen, Files
  <2>3. answer' = answer
    BY <1>11 DEF Damage
  <2> QED BY <1>0, <2>2, <2>3, LossStep
<1>12. ASSUME \/ \E t \in Tags, v \in Vals : EvictionRaises(t, v)
              \/ \E t \in Tags : EvictRaises(t)
              \/ FlushRaises
       PROVE  faults
  BY <1>12, RaisesForgets DEF UnlinkRaises
<1> QED
  BY <1>1, <1>2, <1>3, <1>4, <1>5, <1>6, <1>7, <1>8, <1>9, <1>10, <1>11, <1>12 DEF Next, Write

\* The cache implements the lossy store: what it answers was stored under
\* that tag and has not been overwritten, evicted or flushed since, across
\* crashes in the middle of a write and restarts over old files.
THEOREM CacheIsLossyStore == Spec => IsLossyStore
<1>1. Init => Lossy!Init
  BY LossyInit
<1>2. StoreInv /\ [Next]_vars => [faults \/ Lossy!Next]_vars
  BY LossyStep
<1> QED BY <1>1, <1>2, StoreInvHolds, PTL DEF Spec, IsLossyStore

=============================================================================
