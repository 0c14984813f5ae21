------------------------------ MODULE CacheStore ------------------------------
(***************************************************************************)
(* The head-node output cache of CHIA (chia/base/cache.py).                *)
(*                                                                         *)
(* A detached actor keeps an index of the pickle files of one directory,   *)
(* in least-recently-used order, and the sum of their sizes.  Its methods  *)
(* run one at a time.  The files outlive the actor: a new one rebuilds the *)
(* index from them, in the order of their modification times.              *)
(*                                                                         *)
(* Both orders are relations: <<t, u>> \in older says that t is closer to  *)
(* the front of the OrderedDict than u.  A file holds a value, or is torn: *)
(* it cannot be unpickled.                                                 *)
(***************************************************************************)
EXTENDS Integers, Functions

CONSTANTS
  Tags,         \* cache tags; the file name is a function of the tag
  Vals,         \* values
  Size,         \* the length of a value's pickle
  Budgets,      \* the byte budgets a driver may start the cache with
  Absent, Torn  \* what a file is when it holds no value

ASSUME SizeAssumption   == Size \in [Vals -> Nat \ {0}]
ASSUME BudgetAssumption == Budgets \subseteq Nat
ASSUME FileAssumption   == Absent \notin Vals /\ Torn \notin Vals /\ Absent # Torn

VARIABLES
  faults,     \* may opening or reading an intact file fail?
  up,         \* is the actor alive?
  budget,     \* _budget
  index,      \* the keys of _index
  nbytes,     \* the size recorded for each of them, 0 for the others
  older,      \* the order of _index
  sizeBytes,  \* _size_bytes
  disk,       \* the files
  written,    \* the order of their modification times
  answer      \* the reply of the last call

memory == <<budget, index, nbytes, older, sizeBytes>>
vars   == <<faults, up, memory, disk, written, answer>>

Whole == {t \in Tags : disk[t] \in Vals}

Sum(f, S) == SumFunctionOnSet(f, S)

\* An order without the tags of V.
Without(order, V) == {p \in order : p[1] \notin V /\ p[2] \notin V}

\* An order of the tags S with t made the last of them.
Latest(order, S, t) == Without(order, {t}) \cup ((S \ {t}) \X {t})

\* Entries forgotten by the index, with their share of the size.
Forget(V) ==
  /\ index'     = index \ V
  /\ nbytes'    = [t \in Tags |-> IF t \in V THEN 0 ELSE nbytes[t]]
  /\ older'     = Without(older, V)
  /\ sizeBytes' = sizeBytes - Sum(nbytes, V)

Unlink(V) ==
  /\ disk'    = [t \in Tags |-> IF t \in V THEN Absent ELSE disk[t]]
  /\ written' = Without(written, V)

TotalOrder(R, S) ==
  /\ R \subseteq S \X S
  /\ \A t \in S : <<t, t>> \notin R
  /\ \A t, u \in S : t # u => (<<t, u>> \in R <=> <<u, t>> \notin R)
  /\ \A t, u, w \in S : <<t, u>> \in R /\ <<u, w>> \in R => <<t, w>> \in R

Reply(what, t, v) == [what |-> what, tag |-> t, val |-> v]

Replies ==
  [what : {"none", "stored", "raised", "refused", "hit", "miss", "removed", "absent", "flushed"},
   tag  : Tags \cup {Absent}, val : Vals \cup {Absent}]

TypeOK ==
  /\ faults    \in BOOLEAN
  /\ up        \in BOOLEAN
  /\ budget    \in Nat
  /\ index     \in SUBSET Tags
  /\ nbytes    \in [Tags -> Nat]
  /\ older     \in SUBSET (Tags \X Tags)
  /\ sizeBytes \in Int
  /\ disk      \in [Tags -> Vals \cup {Absent, Torn}]
  /\ written   \in SUBSET (Tags \X Tags)
  /\ answer    \in Replies

Cold ==
  /\ up        = FALSE
  /\ budget    = 0
  /\ index     = {}
  /\ nbytes    = [t \in Tags |-> 0]
  /\ older     = {}
  /\ sizeBytes = 0

Init ==
  /\ faults \in BOOLEAN
  /\ Cold
  /\ disk    = [t \in Tags |-> Absent]
  /\ written = {}
  /\ answer  = Reply("none", Absent, Absent)

-----------------------------------------------------------------------------
(* The life of the actor.                                                  *)

\* Mutant of WarmStart: a rebuilt index forgets to count what it finds.
WarmStartUncounted(b) ==
  /\ ~up
  /\ up'        = TRUE
  /\ budget'    = b
  /\ index'     = Whole
  /\ nbytes'    = [t \in Tags |-> IF t \in index' THEN Size[disk[t]] ELSE 0]
  /\ older'     = Without(written, Tags \ index')
  /\ sizeBytes' = 0
  /\ answer'    = Reply("none", Absent, Absent)
  /\ UNCHANGED <<faults, disk, written>>

\* start_cache: the new actor indexes every file it can unpickle.  Nothing is
\* evicted, whatever the new budget is.
WarmStart(b) ==
  /\ ~up
  /\ up'     = TRUE
  /\ budget' = b
  /\ \E skipped \in SUBSET (IF faults THEN Whole ELSE {}) : index' = Whole \ skipped
  /\ nbytes'    = [t \in Tags |-> IF t \in index' THEN Size[disk[t]] ELSE 0]
  /\ older'     = Without(written, Tags \ index')
  /\ sizeBytes' = Sum(nbytes', index')
  /\ answer'    = Reply("none", Absent, Absent)
  /\ UNCHANGED <<faults, disk, written>>

\* The actor is gone, and its memory with it.
Gone ==
  /\ up' = FALSE
  /\ budget' = 0
  /\ index' = {}
  /\ nbytes' = [t \in Tags |-> 0]
  /\ older' = {}
  /\ sizeBytes' = 0
  /\ answer' = Reply("none", Absent, Absent)

\* stop_cache, or the death of the actor, between two calls.
Stop ==
  /\ up
  /\ Gone
  /\ UNCHANGED <<faults, disk, written>>

-----------------------------------------------------------------------------
(* write                                                                   *)

\* V is at the front of the order of the entries S.
AtFront(V, S) == V \subseteq S /\ \A v \in V, u \in S \ V : <<v, u>> \in older

\* V is the shortest front of the other entries whose eviction makes room
\* for n bytes under t, or all of them if that is not enough.
Victims(V, t, n) ==
  LET others    == index \ {t}
      Fits(W)   == sizeBytes - nbytes[t] - Sum(nbytes, W) + n <= budget
      Enough(W) == AtFront(W, others) /\ (Fits(W) \/ W = others)
  IN  Enough(V) /\ \A W \in SUBSET V : Enough(W) => W = V

Refuse(t, v) ==
  /\ up
  /\ Size[v] > budget
  /\ answer' = Reply("refused", t, Absent)
  /\ UNCHANGED <<faults, up, memory, disk, written>>

\* Mutant of Store: the old entry of the tag stays in the sum.
StoreTwice(t, v) ==
  /\ up
  /\ Size[v] <= budget
  /\ \E V \in SUBSET (index \ {t}) :
       /\ Victims(V, t, Size[v])
       /\ index'     = (index \ V) \cup {t}
       /\ nbytes'    = [u \in Tags |-> IF u = t THEN Size[v] ELSE IF u \in V THEN 0 ELSE nbytes[u]]
       /\ older'     = Latest(Without(older, V), index \ V, t)
       /\ sizeBytes' = sizeBytes - Sum(nbytes, V) + Size[v]
       /\ disk'      = [u \in Tags |-> IF u = t THEN v ELSE IF u \in V THEN Absent ELSE disk[u]]
       /\ written'   = Latest(Without(written, V), Whole \ V, t)
  /\ answer' = Reply("stored", t, v)
  /\ UNCHANGED <<faults, up, budget>>

\* The old entry of the tag leaves the sum, the victims go, the file is
\* written, the entry becomes the most recently used one.
Store(t, v) ==
  /\ up
  /\ Size[v] <= budget
  /\ \E V \in SUBSET (index \ {t}) :
       /\ Victims(V, t, Size[v])
       /\ index'     = (index \ V) \cup {t}
       /\ nbytes'    = [u \in Tags |-> IF u = t THEN Size[v] ELSE IF u \in V THEN 0 ELSE nbytes[u]]
       /\ older'     = Latest(Without(older, V), index \ V, t)
       /\ sizeBytes' = sizeBytes - nbytes[t] - Sum(nbytes, V) + Size[v]
       /\ disk'      = [u \in Tags |-> IF u = t THEN v ELSE IF u \in V THEN Absent ELSE disk[u]]
       /\ written'   = Latest(Without(written, V), Whole \ V, t)
  /\ answer' = Reply("stored", t, v)
  /\ UNCHANGED <<faults, up, budget>>

\* The old file is gone or half overwritten when write_bytes is abandoned;
\* it is intact when the file could not even be opened.
Spoil(t, V) ==
  \/ /\ disk' = [u \in Tags |-> IF u = t THEN Torn ELSE IF u \in V THEN Absent ELSE disk[u]]
     /\ written' = Without(written, V \cup {t})
  \/ /\ faults
     /\ Unlink(V)

\* write_bytes raises: the disk is full.
StoreRaises(t, v) ==
  /\ up
  /\ Size[v] <= budget
  /\ \E V \in SUBSET (index \ {t}) :
       Victims(V, t, Size[v]) /\ Spoil(t, V) /\ Forget(V \cup ({t} \cap index))
  /\ answer' = Reply("raised", t, Absent)
  /\ UNCHANGED <<faults, up, budget>>

\* _unlink raises: it puts up with a missing file and with nothing else.  The
\* files of W went before, the entries of F are forgotten.
UnlinkRaises(W, F, t) ==
  /\ up
  /\ faults
  /\ Unlink(W)
  /\ Forget(F)
  /\ answer' = Reply("raised", t, Absent)
  /\ UNCHANGED <<faults, up, budget>>

\* ... in the middle of the evictions, at the victim u: its entry and the old
\* entry of the tag are gone, their files are not.
EvictionRaises(t, v) ==
  /\ Size[v] <= budget
  /\ \E V \in SUBSET (index \ {t}) :
       /\ Victims(V, t, Size[v])
       /\ \E W \in SUBSET V, u \in V :
            /\ u \notin W /\ AtFront(W, V) /\ AtFront(W \cup {u}, V)
            /\ UnlinkRaises(W, W \cup {u} \cup ({t} \cap index), t)

\* The actor is killed in the middle of write: during the evictions or while
\* the file is written.
StoreDies(t, v) ==
  /\ up
  /\ Size[v] <= budget
  /\ \E V \in SUBSET (index \ {t}) :
       /\ Victims(V, t, Size[v])
       /\ \/ Spoil(t, V)
          \/ \E W \in SUBSET V : AtFront(W, V) /\ Unlink(W)
  /\ Gone
  /\ UNCHANGED faults

-----------------------------------------------------------------------------
(* read, evict, flush                                                      *)

\* Mutant of Hit: a file that cannot be unpickled is served.
HitUnchecked(t) ==
  /\ up
  /\ t \in index
  /\ older'  = Latest(older, index, t)
  /\ answer' = Reply("hit", t, disk[t])
  /\ UNCHANGED <<faults, up, budget, index, nbytes, sizeBytes, disk, written>>

\* Mutant of Hit: a lookup does not count as a use.
HitUntouched(t) ==
  /\ up
  /\ t \in index \cap Whole
  /\ answer' = Reply("hit", t, disk[t])
  /\ UNCHANGED <<faults, up, memory, disk, written>>

Hit(t) ==
  /\ up
  /\ t \in index \cap Whole
  /\ older'  = Latest(older, index, t)
  /\ answer' = Reply("hit", t, disk[t])
  /\ UNCHANGED <<faults, up, budget, index, nbytes, sizeBytes, disk, written>>

\* No entry; or the file vanished, is torn or cannot be read, and the entry
\* is dropped while the file, if there is one, stays.
Miss(t) ==
  /\ up
  /\ \/ t \notin index /\ UNCHANGED <<index, nbytes, older, sizeBytes>>
     \/ t \in index /\ (t \notin Whole \/ faults) /\ Forget({t})
  /\ answer' = Reply("miss", t, Absent)
  /\ UNCHANGED <<faults, up, budget, disk, written>>

\* Mutant of Evict: the entry goes, the file stays.
EvictEntryOnly(t) ==
  /\ up
  /\ t \in index
  /\ Forget({t})
  /\ answer' = Reply("removed", t, Absent)
  /\ UNCHANGED <<faults, up, budget, disk, written>>

Evict(t) ==
  /\ up
  /\ \/ /\ t \in index
        /\ Forget({t})
        /\ Unlink({t})
        /\ answer' = Reply("removed", t, Absent)
     \/ /\ t \notin index
        /\ answer' = Reply("absent", t, Absent)
        /\ UNCHANGED <<index, nbytes, older, sizeBytes, disk, written>>
  /\ UNCHANGED <<faults, up, budget>>

EvictRaises(t) == t \in index /\ UnlinkRaises({}, {t}, t)

\* flush forgets nothing before the last file is gone.
FlushRaises ==
  \E W \in SUBSET index :
    W # index /\ AtFront(W, index) /\ UnlinkRaises(W, {}, Absent)

\* flush: the files the index names, then the index.
Flush ==
  /\ up
  /\ Unlink(index)
  /\ index'     = {}
  /\ nbytes'    = [t \in Tags |-> 0]
  /\ older'     = {}
  /\ sizeBytes' = 0
  /\ answer'    = Reply("flushed", Absent, Absent)
  /\ UNCHANGED <<faults, up, budget>>

\* Somebody deletes or damages a file of the directory.
Damage(t) ==
  /\ t \in Whole
  /\ \E what \in {Absent, Torn} : disk' = [disk EXCEPT ![t] = what]
  /\ written' = Without(written, {t})
  /\ UNCHANGED <<faults, up, memory, answer>>

-----------------------------------------------------------------------------
Write(t, v) ==
  Refuse(t, v) \/ Store(t, v) \/ StoreRaises(t, v) \/ EvictionRaises(t, v) \/ StoreDies(t, v)

Next ==
  \/ \E b \in Budgets : WarmStart(b)
  \/ Stop
  \/ \E t \in Tags, v \in Vals : Write(t, v)
  \/ \E t \in Tags : Hit(t) \/ Miss(t) \/ Evict(t) \/ EvictRaises(t) \/ Damage(t)
  \/ Flush \/ FlushRaises

Spec == Init /\ [][Next]_vars

-----------------------------------------------------------------------------
(* Properties.                                                             *)

\* The running total is the sum of the entries' sizes, however entries come
\* and go: overwritten, evicted, dropped by a failed read or a failed write.
Accounting ==
  /\ sizeBytes = Sum(nbytes, index)
  /\ index = {t \in Tags : nbytes[t] > 0}

\* The order of the index is a strict total order: there is one victim to
\* take next, whatever was moved, dropped or loaded from disk.
OrderIsTotal == TotalOrder(older, index)

\* A running cache knows every intact pickle of its directory.  Were one to
\* escape, its bytes would not count, flush would leave it behind and a
\* restart would bring it back.
NothingEscapes ==
  ~faults /\ up => Whole \subseteq index

\* The entry used last is not the one a store evicts, if both fit.
RecentSurvives ==
  [][/\ answer.what \in {"hit", "stored"}
     /\ answer'.what = "stored" /\ answer' # answer
     /\ answer'.tag # answer.tag
     /\ nbytes[answer.tag] + Size[answer'.val] <= budget
     /\ answer.tag \in index
     => answer.tag \in index']_vars

\* While files can be opened and read, the cache is a lossy store whose
\* entries are the intact files: no call, crash or restart returns a value
\* that was overwritten, evicted or flushed.
Lossy == INSTANCE LossyStore WITH
           store   <- [t \in Tags |-> IF disk[t] \in Vals THEN disk[t] ELSE Absent],
           Nothing <- Absent

IsLossyStore == Lossy!Init /\ [][faults \/ Lossy!Next]_vars

=============================================================================
