------------------------------ MODULE LossyStore ------------------------------
(***************************************************************************)
(* What the output cache promises to its callers (chia/base/cache.py): a   *)
(* map from tags to values that may forget an entry at any time, never     *)
(* makes one up, and answers a lookup with the last value stored or with a *)
(* miss.  Forgetting is final: an entry that was evicted, flushed or lost  *)
(* does not come back, not even when the cache is restarted over the files *)
(* of an earlier one.                                                      *)
(***************************************************************************)
CONSTANTS Tags, Vals, Nothing

VARIABLES store, answer

Reply(what, t, v) == [what |-> what, tag |-> t, val |-> v]

\* Everything but t may be forgotten on the way.
Forgets(t) ==
  \A u \in Tags \ {t} : store'[u] \in {store[u], Nothing}

Init == store = [t \in Tags |-> Nothing] /\ answer = Reply("none", Nothing, Nothing)

Put(t, v) ==
  /\ store' \in [Tags -> Vals \cup {Nothing}]
  /\ store'[t] = v
  /\ Forgets(t)
  /\ answer' = Reply("stored", t, v)

\* A store that raises keeps the old value of the tag or loses it.
PutFails(t) ==
  /\ store' \in [Tags -> Vals \cup {Nothing}]
  /\ store'[t] \in {store[t], Nothing}
  /\ Forgets(t)
  /\ answer' = Reply("raised", t, Nothing)

Refuse(t) == UNCHANGED store /\ answer' = Reply("refused", t, Nothing)

Get(t) ==
  /\ UNCHANGED store
  /\ \/ store[t] # Nothing /\ answer' = Reply("hit", t, store[t])
     \/ answer' = Reply("miss", t, Nothing)

Remove(t) ==
  /\ store' = [store EXCEPT ![t] = Nothing]
  /\ \E what \in {"removed", "absent"} : answer' = Reply(what, t, Nothing)

Clear ==
  /\ store' = [t \in Tags |-> Nothing]
  /\ answer' = Reply("flushed", Nothing, Nothing)

\* A crash, a restart, a damaged file.
Lose ==
  /\ store' \in [Tags -> Vals \cup {Nothing}]
  /\ \A u \in Tags : store'[u] \in {store[u], Nothing}
  /\ answer' \in {answer, Reply("none", Nothing, Nothing)}

Next ==
  \/ \E t \in Tags, v \in Vals : Put(t, v)
  \/ \E t \in Tags : PutFails(t) \/ Refuse(t) \/ Get(t) \/ Remove(t)
  \/ Clear
  \/ Lose

Spec == Init /\ [][Next]_<<store, answer>>

=============================================================================
