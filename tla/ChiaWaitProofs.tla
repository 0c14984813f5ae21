---------------------------- MODULE ChiaWaitProofs ----------------------------
(***************************************************************************)
(* Theorems about Dispatch and ChiaWait, for any nodes, tunnels, calls and *)
(* bounds.  What a call was judged by goes with it: a direct call that was *)
(* judged is directly reachable in its snapshot, one of the relay is the   *)
(* head's, and a call hangs at a node it fits.  None of the steps of Ray,  *)
(* of the proxy and of chia_wait changes that, although they place a call  *)
(* anew, restart the proxy or make the call again.                         *)
(*                                                                         *)
(* Nor do they leave a slot of the proxy or a blocked caller behind: only  *)
(* Serve takes a slot, and what forgets a call ends or wakes its caller.   *)
(***************************************************************************)
EXTENDS ChiaWait, FiniteSetTheorems, TLAPS

WantType == (UNION {Wants[c] : c \in Calls}) \cup {Anywhere}
States   == {"idle", "over"} \cup InFlight

\* What was decided about a call in flight, and what it hangs at.
Sound(r) ==
  r.st \in InFlight =>
    /\ r.route \in {"relay", "direct"}
    /\ r.route = "relay" => r.owner = Head
    /\ r.route = "direct" /\ ~r.want.unchecked /\ r.saw = None => r.owner \notin Remote
    /\ r.route = "direct" /\ r.saw # None => DirectlyReachable(r.owner, r.want, r.saw)
    /\ r.st = "hung" => Fits(r.want, r.at)

\* A step of a call that is not sent: it rests or goes on as it was sent.
Moved(r, s) ==
  /\ s \in CallType
  /\ s.st \in InFlight =>
       /\ r.st \in InFlight
       /\ s.want = r.want /\ s.route = r.route /\ s.owner = r.owner /\ s.saw = r.saw
       /\ s.st = "hung" => Fits(s.want, s.at)

CallsSound == call \in [Calls -> CallType] /\ \A c \in Calls : Sound(call[c])

NetInv ==
  /\ up \subseteq Nodes /\ gone \subseteq Nodes \ up /\ silent \subseteq up /\ Head \in up
  /\ snap \in [Top \cup {NoCall} -> [nodes : SUBSET Nodes, used : SUBSET Calls]]
  /\ restarts \in 0 .. MaxRestarts

\* Only a call the driver waits for is in flight, and only one with a retry
\* left is made again.
WaitInv ==
  /\ phase \in {"out", "waiting", "blocked", "woken", "acting", "crashed"}
  /\ pend \subseteq Top /\ aged \subseteq Top /\ stuck \subseteq pend
  /\ retries \in [Top -> 0 .. MaxRetries]
  /\ stuck # {} => phase \in {"acting", "crashed"}
  /\ \A t \in Top \ pend : call[t].st \in {"idle", "over"}
  /\ \A t \in stuck : call[t].st = "idle" => retries[t] < MaxRetries

Inv == NetInv /\ CallsSound /\ WaitInv

\* A call the driver made is left alone while it rests, and not sent back.
LeftAlone(t) ==
  /\ call[t].st \in {"idle", "over"} => call'[t] = call[t]
  /\ call'[t].st = "idle" => call[t].st = "idle"

-----------------------------------------------------------------------------
(* Records.                                                                  *)

LEMMA CallTypeDef ==
  CallType = [st : States, want : WantType, route : {"none", "direct", "relay"},
              owner : Nodes \cup {NoNode}, at : Nodes \cup {NoNode}, saw : SUBSET Nodes]
BY DEF CallType, States, WantType

LEMMA IdleType == Idle \in CallType /\ Idle.st = "idle"
<1>1. Anywhere \in WantType /\ None \in SUBSET Nodes /\ "idle" \in States
  BY DEF WantType, None, States
<1> HIDE DEF WantType, States, None
<1> QED BY <1>1, CallTypeDef DEF Idle

\* A call that is over, or cancelled, keeps its options.
LEMMA RestingType ==
  ASSUME NEW r \in CallType, NEW st \in {"idle", "over"}
  PROVE  LET s == [Idle EXCEPT !.st = st, !.want = r.want]
         IN  s \in CallType /\ s.st = st
<1>1. st \in States
  BY DEF States
<1>2. r.want \in WantType
  BY CallTypeDef
<1> HIDE DEF States, WantType
<1> QED BY <1>1, <1>2, IdleType, CallTypeDef DEF Idle

LEMMA SetState ==
  ASSUME NEW r \in CallType, NEW st \in States
  PROVE  LET s == [r EXCEPT !.st = st]
         IN  /\ s \in CallType /\ s.st = st
             /\ s.want = r.want /\ s.route = r.route /\ s.owner = r.owner
             /\ s.saw = r.saw /\ s.at = r.at
<1> HIDE DEF States, WantType
<1> QED BY CallTypeDef

LEMMA StatesAre ==
  /\ {"queued", "pending", "hung", "running", "asking"} = InFlight
  /\ States = {"idle", "over", "queued", "pending", "hung", "running", "asking"}
BY DEF InFlight, States

LEMMA MovedSound ==
  ASSUME NEW r, NEW s, Sound(r), Moved(r, s)
  PROVE  Sound(s)
BY DEF Sound, Moved

LEMMA AllMovedSound ==
  ASSUME CallsSound, call' \in [Calls -> CallType],
         \A c \in Calls : Moved(call[c], call'[c]) \/ Sound(call'[c])
  PROVE  CallsSound'
<1>1. ASSUME NEW c \in Calls PROVE Sound(call'[c])
  BY <1>1, MovedSound DEF CallsSound
<1>2. \A c \in Calls : Sound(call[c])'
  BY <1>1 DEF Sound, DirectlyReachable, TargetReachable, Targets, Fits
<1> QED BY <1>2 DEF CallsSound

-----------------------------------------------------------------------------
(* chia_remote.                                                              *)

LEMMA ViewIsNotEmpty ==
  ASSUME NetInv, NEW p \in Top \cup {NoCall}
  PROVE  AliveNodes(p) \in SUBSET Nodes /\ AliveNodes(p) # None
BY DEF NetInv, AliveNodes, None

LEMMA NodeOfType ==
  ASSUME CallsSound, NEW c \in Calls
  PROVE  NodeOf(c) \in Nodes \cup {NoNode}
<1>1. CASE Parent[c] = NoCall
  BY <1>1, NodeAssumption DEF NodeOf
<1>2. CASE Parent[c] # NoCall
  <2>1. call[Parent[c]] \in CallType
    BY <1>2, CallAssumption DEF CallsSound
  <2> QED BY <1>2, <2>1, CallTypeDef DEF NodeOf
<1> QED BY <1>1, <1>2

\* The new record, and the caller's.
LEMMA SendFacts ==
  ASSUME CallsSound, NEW c \in Calls, NEW w \in WantType,
         NEW route \in {"direct", "relay"}, NEW saw \in SUBSET Nodes,
         Send(c, w, route, saw), Parent[c] # NoCall => call[Parent[c]].st = "running"
  PROVE  /\ call' \in [Calls -> CallType]
         /\ \A d \in Calls \ {c} : Moved(call[d], call'[d])
         /\ \A d \in Top \ {c} : call'[d] = call[d] \/ call'[d].st = "asking"
         /\ \A d \in Calls \ {c} : call[d].st \in {"idle", "over"} => call'[d] = call[d]
         /\ call'[c].st # "hung" /\ call'[c].st \in InFlight
         /\ call'[c].want = w /\ call'[c].route = route /\ call'[c].saw = saw
         /\ call'[c].owner = IF route = "relay" THEN Head ELSE NodeOf(c)
<1> DEFINE st    == IF route = "relay" THEN "queued" ELSE "pending"
           owner == IF route = "relay" THEN Head ELSE NodeOf(c)
           new   == [st |-> st, want |-> w, route |-> route, owner |-> owner,
                     at |-> NoNode, saw |-> saw]
<1>1. new \in CallType
  <2>1. owner \in Nodes \cup {NoNode}
    BY NodeOfType, NodeAssumption
  <2>2. st \in States
    BY StatesAre
  <2> HIDE DEF owner, st, States, WantType
  <2> QED BY <2>1, <2>2, CallTypeDef
<1>2. ASSUME NEW d \in Calls \ {c}
      PROVE  call'[d] = IF d = Parent[c] THEN [call[d] EXCEPT !.st = "asking"] ELSE call[d]
  BY DEF Send
<1>3. call'[c] = new
  BY DEF Send
<1>4. ASSUME NEW d \in Calls \ {c} PROVE Moved(call[d], call'[d])
  <2>1. CASE d = Parent[c]
    <3>1. call[d] \in CallType /\ call[d].st = "running"
      BY <2>1, NodeAssumption DEF CallsSound
    <3>2. call'[d] = [call[d] EXCEPT !.st = "asking"]
      BY <1>2, <2>1
    <3>3. "asking" \in States /\ "running" \in InFlight
      BY StatesAre
    <3>4. /\ call'[d] \in CallType /\ call'[d].st = "asking"
          /\ call'[d].want = call[d].want /\ call'[d].route = call[d].route
          /\ call'[d].owner = call[d].owner /\ call'[d].saw = call[d].saw
      BY <3>1, <3>2, <3>3, SetState
    <3> QED BY <3>1, <3>3, <3>4 DEF Moved
  <2>2. CASE d # Parent[c]
    <3>1. call[d] \in CallType /\ Sound(call[d]) /\ call'[d] = call[d]
      BY <1>2, <2>2 DEF CallsSound
    <3> QED BY <3>1 DEF Moved, Sound
  <2> QED BY <2>1, <2>2
<1>5. ASSUME NEW d \in Calls PROVE call'[d] \in CallType
  <2>1. CASE d = c
    BY <2>1, <1>1, <1>3
  <2>2. CASE d # c
    BY <2>2, <1>4 DEF Moved
  <2> QED BY <2>1, <2>2
<1>6. call' \in [Calls -> CallType]
  <2>1. DOMAIN call' = Calls /\ call' = [d \in Calls |-> call'[d]]
    BY DEF Send
  <2> QED BY <2>1, <1>5
<1>7. ASSUME NEW d \in Calls \ {c} PROVE call'[d] = call[d] \/ call'[d].st = "asking"
  <2>1. call[d] \in CallType /\ "asking" \in States
    BY StatesAre DEF CallsSound
  <2>2. [call[d] EXCEPT !.st = "asking"].st = "asking"
    BY <2>1, SetState
  <2> QED BY <2>2, <1>2
<1>8. ASSUME NEW d \in Calls \ {c}, call[d].st \in {"idle", "over"} PROVE call'[d] = call[d]
  <2>1. d # Parent[c]
    BY <1>8, NodeAssumption
  <2> QED BY <1>2, <2>1
<1>9. /\ call'[c].st = st /\ call'[c].want = w /\ call'[c].route = route
      /\ call'[c].saw = saw /\ call'[c].owner = owner
  BY <1>3
<1>10. st # "hung" /\ st \in InFlight
  BY StatesAre
<1>11. Top \subseteq Calls
  BY DEF Top
<1> HIDE DEF st, new
<1> QED BY <1>4, <1>6, <1>7, <1>8, <1>9, <1>10, <1>11

\* Whatever decides, the decision is sound, and the snapshot a proper one.
LEMMA RemoteFacts ==
  ASSUME NetInv, CallsSound, NEW c \in Calls, NEW w \in WantType, ChiaRemote(c, w),
         Parent[c] # NoCall => call[Parent[c]].st = "running"
  PROVE  /\ call' \in [Calls -> CallType]
         /\ Sound(call'[c]) /\ call'[c].st \in InFlight
         /\ \A d \in Calls \ {c} : Moved(call[d], call'[d])
         /\ \A d \in Top \ {c} : call'[d] = call[d] \/ call'[d].st = "asking"
         /\ \A d \in Calls \ {c} : call[d].st \in {"idle", "over"} => call'[d] = call[d]
         /\ snap' \in [Top \cup {NoCall} -> [nodes : SUBSET Nodes, used : SUBSET Calls]]
<1> DEFINE Goal ==
      /\ call' \in [Calls -> CallType]
      /\ Sound(call'[c]) /\ call'[c].st \in InFlight
      /\ \A d \in Calls \ {c} : Moved(call[d], call'[d])
      /\ \A d \in Top \ {c} : call'[d] = call[d] \/ call'[d].st = "asking"
      /\ \A d \in Calls \ {c} : call[d].st \in {"idle", "over"} => call'[d] = call[d]
<1>1. Parent[c] \in Top \cup {NoCall} /\ None \in SUBSET Nodes
  BY CallAssumption DEF Top, None
<1>2. ASSUME NEW route \in {"direct", "relay"}, NEW saw \in SUBSET Nodes,
             Send(c, w, route, saw),
             route = "direct" /\ ~w.unchecked /\ saw = None => NodeOf(c) \notin Remote,
             route = "direct" /\ saw # None => DirectlyReachable(NodeOf(c), w, saw)
      PROVE  Goal
  <2>1. /\ call'[c].st # "hung" /\ call'[c].st \in InFlight
        /\ call'[c].want = w /\ call'[c].route = route /\ call'[c].saw = saw
        /\ call'[c].owner = IF route = "relay" THEN Head ELSE NodeOf(c)
    BY <1>2, SendFacts
  <2>2. Sound(call'[c])
    BY <1>2, <2>1 DEF Sound
  <2> QED BY <1>2, <2>1, <2>2, SendFacts
<1> HIDE DEF Goal
<1>3. CASE SendUnchecked(c, w)
  <2>1. Goal
    BY <1>1, <1>2, <1>3 DEF SendUnchecked
  <2> QED BY <2>1, <1>3 DEF SendUnchecked, NetInv, Goal
<1>4. CASE SendByEnv(c, w)
  <2>1. Goal
    BY <1>1, <1>2, <1>4 DEF SendByEnv
  <2> QED BY <2>1, <1>4 DEF SendByEnv, NetInv, Goal
<1>5. CASE SendJudged(c, w)
  <2> DEFINE view == AliveNodes(Parent[c])
             route == IF DirectlyReachable(NodeOf(c), w, view) THEN "direct" ELSE "relay"
  <2>1. view \in SUBSET Nodes /\ view # None
    BY <1>1, ViewIsNotEmpty
  <2>2. Send(c, w, route, view) /\ route \in {"direct", "relay"}
        /\ (route = "direct" => DirectlyReachable(NodeOf(c), w, view))
    BY <1>5 DEF SendJudged
  <2>3. snap' = [snap EXCEPT ![Parent[c]] =
                   [nodes |-> view, used |-> snap[Parent[c]].used \cup {c}]]
    BY <1>5 DEF SendJudged
  <2> HIDE DEF view, route
  <2>4. Goal
    BY <2>1, <2>2, <1>2
  <2>5. snap' \in [Top \cup {NoCall} -> [nodes : SUBSET Nodes, used : SUBSET Calls]]
    BY <1>1, <2>1, <2>3 DEF NetInv
  <2> QED BY <2>4, <2>5 DEF Goal
<1> QED BY <1>3, <1>4, <1>5 DEF ChiaRemote

-----------------------------------------------------------------------------
(* The proxy, Ray and the nodes.                                             *)

\* Every record moves, or rests as it is; none of the driver's is sent back.
LEMMA RecordsMove ==
  ASSUME CallsSound, call' = [c \in Calls |-> call'[c]],
         \A c \in Calls : \/ call'[c] = call[c]
                          \/ /\ Moved(call[c], call'[c]) /\ call[c].st \in InFlight
                             /\ c \in Top => call'[c].st # "idle"
  PROVE  CallsSound' /\ \A t \in Top : LeftAlone(t)
<1>1. \A c \in Calls : Moved(call[c], call'[c])
  BY DEF Moved, CallsSound, Sound
<1>2. call' \in [Calls -> CallType]
  BY <1>1 DEF Moved
<1>3. CallsSound'
  BY <1>1, <1>2, AllMovedSound
<1>4. ASSUME NEW t \in Top PROVE LeftAlone(t)
  <2>1. t \in Calls
    BY DEF Top
  <2>2. CASE call'[t] = call[t]
    BY <2>1, <2>2 DEF LeftAlone
  <2>3. CASE call[t].st \in InFlight /\ call'[t].st # "idle"
    BY <2>1, <2>3, StatesAre DEF LeftAlone
  <2> QED BY <2>1, <2>2, <2>3
<1> QED BY <1>3, <1>4

LEMMA SameCalls ==
  ASSUME CallsSound, UNCHANGED call
  PROVE  CallsSound' /\ \A t \in Top : LeftAlone(t)
BY RecordsMove DEF CallsSound

LEMMA ServeStep ==
  ASSUME CallsSound, NEW c \in Calls, Serve(c)
  PROVE  CallsSound' /\ \A t \in Top : LeftAlone(t)
<1>1. call' = [call EXCEPT ![c] = [call[c] EXCEPT !.st = "pending"]]
  BY DEF Serve
<1>2. call[c] \in CallType /\ call[c].st = "queued"
  BY DEF Serve, CallsSound
<1>3. "pending" \in States /\ "queued" \in InFlight
  BY StatesAre
<1>4. call'[c] = [call[c] EXCEPT !.st = "pending"] /\ \A d \in Calls \ {c} : call'[d] = call[d]
  BY <1>1 DEF CallsSound
<1>5. call'[c].st = "pending" /\ Moved(call[c], call'[c])
  BY <1>2, <1>3, <1>4, SetState DEF Moved
<1>6. call' = [d \in Calls |-> call'[d]]
  BY <1>1 DEF CallsSound
<1> QED BY <1>2, <1>3, <1>4, <1>5, <1>6, RecordsMove

LEMMA PlaceStep ==
  ASSUME CallsSound, NetInv, NEW c \in Calls, NEW n \in Nodes, Place(c, n)
  PROVE  CallsSound' /\ \A t \in Top : LeftAlone(t)
<1> DEFINE st == IF n \notin silent /\ CanReach(call[c].owner, n) THEN "running" ELSE "hung"
<1>1. call' = [call EXCEPT ![c] = [call[c] EXCEPT !.at = n, !.st = st]]
  BY DEF Place
<1>2. call[c] \in CallType /\ call[c].st = "pending" /\ Fits(call[c].want, n)
  BY DEF Place, Landing, CallsSound
<1>3. st \in States /\ "pending" \in InFlight /\ st # "idle"
  BY StatesAre
<1> HIDE DEF st
<1>4. call'[c] = [call[c] EXCEPT !.st = st, !.at = n] /\ \A d \in Calls \ {c} : call'[d] = call[d]
  BY <1>1, <1>2, CallTypeDef DEF CallsSound
<1>5. /\ call'[c] \in CallType /\ call'[c].st = st /\ call'[c].at = n
      /\ call'[c].want = call[c].want /\ call'[c].route = call[c].route
      /\ call'[c].owner = call[c].owner /\ call'[c].saw = call[c].saw
  <2>1. n \in Nodes \cup {NoNode}
    OBVIOUS
  <2> HIDE DEF States, CallType
  <2>2. call[c] \in CallType /\ call'[c] = [call[c] EXCEPT !.st = st, !.at = n]
    BY <1>2, <1>4
  <2> HIDE DEF WantType
  <2> QED BY <2>1, <2>2, <1>3, CallTypeDef
<1>6. call' = [d \in Calls |-> call'[d]]
  BY <1>1 DEF CallsSound
<1>7. Moved(call[c], call'[c])
  BY <1>2, <1>3, <1>5 DEF Moved
<1> QED BY <1>2, <1>3, <1>4, <1>5, <1>6, <1>7, RecordsMove

LEMMA FinishStep ==
  ASSUME CallsSound, NEW c \in Calls, Finish(c)
  PROVE  CallsSound' /\ \A t \in Top : LeftAlone(t)
<1> DEFINE over == [Idle EXCEPT !.st = "over", !.want = call[c].want]
<1>1. call' = [d \in Calls |->
        IF d = c THEN over
        ELSE IF d = Parent[c] /\ call[d].st = "asking" /\ Nested(d) \subseteq {c}
          THEN [call[d] EXCEPT !.st = "running"] ELSE call[d]]
  BY DEF Finish, Over
<1>2. call[c] \in CallType /\ call[c].st \in InFlight
  BY StatesAre DEF Finish, CallsSound
<1>3. over \in CallType /\ over.st = "over"
  BY <1>2, RestingType
<1>4. "over" \notin InFlight /\ {"asking", "running"} \subseteq InFlight /\ "running" \in States
  BY StatesAre
<1> HIDE DEF over
<1>5. call'[c] = over /\ Moved(call[c], call'[c]) /\ call'[c].st # "idle"
  BY <1>1, <1>3, <1>4 DEF Moved
<1>6. ASSUME NEW d \in Calls \ {c}
      PROVE  \/ call'[d] = call[d]
             \/ Moved(call[d], call'[d]) /\ call[d].st \in InFlight /\ call'[d].st # "idle"
  <2>1. CASE d = Parent[c] /\ call[d].st = "asking" /\ Nested(d) \subseteq {c}
    <3>1. call'[d] = [call[d] EXCEPT !.st = "running"] /\ call[d] \in CallType
      BY <1>1, <2>1 DEF CallsSound
    <3>2. /\ call'[d] \in CallType /\ call'[d].st = "running"
          /\ call'[d].want = call[d].want /\ call'[d].route = call[d].route
          /\ call'[d].owner = call[d].owner /\ call'[d].saw = call[d].saw
      BY <3>1, <1>4, SetState
    <3> QED BY <3>2, <1>4, <2>1 DEF Moved
  <2>2. CASE ~(d = Parent[c] /\ call[d].st = "asking" /\ Nested(d) \subseteq {c})
    BY <1>1, <2>2
  <2> QED BY <2>1, <2>2
<1>7. call' = [d \in Calls |-> call'[d]]
  BY <1>1
<1> QED BY <1>2, <1>5, <1>6, <1>7, RecordsMove

\* Of two kinds of calls a fault sends the ones back and forgets the others:
\* it forgets no call of the driver.
LEMMA FaultStep ==
  ASSUME CallsSound, NEW Back \in SUBSET Calls, NEW Lost \in SUBSET Calls,
         NEW st \in {"pending", "queued"},
         call' = [c \in Calls |-> IF c \in Back THEN [call[c] EXCEPT !.st = st, !.at = NoNode]
                                  ELSE IF c \in Lost THEN Idle ELSE call[c]],
         \A c \in Back \cup Lost : call[c].st \in InFlight,
         Lost \cap Top = {}
  PROVE  CallsSound' /\ \A t \in Top : LeftAlone(t)
<1>1. ASSUME NEW c \in Calls
      PROVE  \/ call'[c] = call[c]
             \/ /\ Moved(call[c], call'[c]) /\ call[c].st \in InFlight
                /\ c \in Top => call'[c].st # "idle"
  <2>1. CASE c \in Back
    <3>1. call'[c] = [call[c] EXCEPT !.st = st, !.at = NoNode] /\ call[c] \in CallType
      BY <2>1 DEF CallsSound
    <3>2. st \in States /\ st # "hung" /\ st # "idle" /\ NoNode \in Nodes \cup {NoNode}
      BY StatesAre
    <3> HIDE DEF States, WantType
    <3>3. /\ call'[c] \in CallType /\ call'[c].st = st
          /\ call'[c].want = call[c].want /\ call'[c].route = call[c].route
          /\ call'[c].owner = call[c].owner /\ call'[c].saw = call[c].saw
      BY <3>1, <3>2, CallTypeDef
    <3> QED BY <3>2, <3>3, <2>1 DEF Moved
  <2>2. CASE c \notin Back /\ c \in Lost
    <3>1. call'[c] = Idle /\ "idle" \notin InFlight
      BY <2>2, StatesAre
    <3> QED BY <2>2, <3>1, IdleType DEF Moved
  <2>3. CASE c \notin Back /\ c \notin Lost
    BY <2>3
  <2> QED BY <2>1, <2>2, <2>3
<1> QED BY <1>1, RecordsMove

LEMMA NodeDiesStep ==
  ASSUME CallsSound, NetInv, NEW n \in Nodes, NodeDies(n)
  PROVE  CallsSound' /\ NetInv' /\ \A t \in Top : LeftAlone(t)
<1> DEFINE lost   == {c \in In({"hung"} \cup OnNode) : call[c].at = n}
           orphan == {c \in Calls : /\ Parent[c] \in lost
                                    /\ call[c].st \in InFlight /\ call[c].route = "direct"}
<1>1. lost \in SUBSET Calls /\ \A c \in lost : call[c].st \in InFlight
  BY StatesAre DEF In, OnNode
<1>2. orphan \in SUBSET Calls /\ \A c \in orphan : call[c].st \in InFlight
  OBVIOUS
<1>3. orphan \cap Top = {}
  BY <1>1, NodeAssumption DEF Top
<1>4. call' = [c \in Calls |-> IF c \in lost THEN [call[c] EXCEPT !.st = "pending", !.at = NoNode]
                              ELSE IF c \in orphan THEN Idle ELSE call[c]]
  BY DEF NodeDies
<1>5. snap' = [p \in DOMAIN snap |-> IF p \in lost THEN NoSnap ELSE snap[p]]
  BY DEF NodeDies
<1>6. NoSnap \in [nodes : SUBSET Nodes, used : SUBSET Calls]
  BY DEF NoSnap, None
<1> HIDE DEF lost, orphan
<1>7. CallsSound' /\ \A t \in Top : LeftAlone(t)
  BY <1>1, <1>2, <1>3, <1>4, FaultStep
<1>8. snap' \in [Top \cup {NoCall} -> [nodes : SUBSET Nodes, used : SUBSET Calls]]
  BY <1>5, <1>6 DEF NetInv
<1>9. /\ up' = up \ {n} /\ gone' = gone \cup {n} /\ silent' = silent \ {n}
      /\ restarts' = restarts /\ n # Head
  BY NodeAssumption DEF NodeDies
<1> QED BY <1>7, <1>8, <1>9 DEF NetInv

LEMMA ProxyRestartsStep ==
  ASSUME CallsSound, NetInv, ProxyRestarts
  PROVE  CallsSound' /\ NetInv' /\ \A t \in Top : LeftAlone(t)
<1> DEFINE lost == {c \in Calls : Parent[c] \in Held /\ call[c].st \in InFlight}
           back == Relayed \ lost
<1>1. back \in SUBSET Calls /\ lost \in SUBSET Calls
      /\ \A c \in back \cup lost : call[c].st \in InFlight
  BY DEF Relayed, In
<1>2. lost \cap Top = {}
  BY NodeAssumption DEF Top, Held, Relayed, In
<1>3. call' = [c \in Calls |-> IF c \in back THEN [call[c] EXCEPT !.st = "queued", !.at = NoNode]
                              ELSE IF c \in lost THEN Idle ELSE call[c]]
  BY DEF ProxyRestarts
<1>4. snap' = [p \in DOMAIN snap |-> IF p \in Held THEN NoSnap ELSE snap[p]]
      /\ restarts < MaxRestarts /\ restarts' = restarts + 1 /\ UNCHANGED netVars
  BY DEF ProxyRestarts
<1>5. NoSnap \in [nodes : SUBSET Nodes, used : SUBSET Calls]
  BY DEF NoSnap, None
<1> HIDE DEF lost, back
<1>6. CallsSound' /\ \A t \in Top : LeftAlone(t)
  BY <1>1, <1>2, <1>3, FaultStep
<1>7. snap' \in [Top \cup {NoCall} -> [nodes : SUBSET Nodes, used : SUBSET Calls]]
  BY <1>4, <1>5 DEF NetInv
<1>8. restarts' \in 0 .. MaxRestarts
  BY <1>4, BoundAssumption DEF NetInv
<1> QED BY <1>4, <1>6, <1>7, <1>8 DEF NetInv, netVars

LEMMA NestStep ==
  ASSUME CallsSound, NetInv, NEW c \in Calls, NEW w \in Wants[c], Nest(c, w)
  PROVE  CallsSound' /\ NetInv' /\ \A t \in Top : LeftAlone(t)
<1>1. w \in WantType /\ c \notin Top /\ ChiaRemote(c, w)
      /\ (Parent[c] # NoCall => call[Parent[c]].st = "running")
  BY DEF Nest, WantType, Top
<1>2. /\ call' \in [Calls -> CallType] /\ Sound(call'[c])
      /\ \A d \in Calls \ {c} : Moved(call[d], call'[d])
      /\ \A d \in Top \ {c} : call'[d] = call[d] \/ call'[d].st = "asking"
      /\ \A d \in Calls \ {c} : call[d].st \in {"idle", "over"} => call'[d] = call[d]
      /\ snap' \in [Top \cup {NoCall} -> [nodes : SUBSET Nodes, used : SUBSET Calls]]
  BY <1>1, RemoteFacts
<1>3. CallsSound'
  BY <1>2, AllMovedSound
<1>4. ASSUME NEW t \in Top PROVE LeftAlone(t)
  BY <1>1, <1>2 DEF LeftAlone, Top
<1>5. UNCHANGED <<netVars, restarts>>
  BY DEF Nest
<1> QED BY <1>2, <1>3, <1>4, <1>5 DEF NetInv, netVars

\* What goes on around the driver.
LEMMA AroundStep ==
  ASSUME CallsSound, NetInv, Work \/ Surroundings
  PROVE  CallsSound' /\ NetInv' /\ \A t \in Top : LeftAlone(t)
<1>1. ASSUME NEW c \in Calls, Serve(c) PROVE CallsSound' /\ NetInv' /\ \A t \in Top : LeftAlone(t)
  BY <1>1, ServeStep DEF Serve, NetInv, netVars
<1>2. ASSUME NEW c \in Calls, Finish(c) PROVE CallsSound' /\ NetInv' /\ \A t \in Top : LeftAlone(t)
  BY <1>2, FinishStep DEF Finish, NetInv, netVars
<1>3. ASSUME NEW c \in Calls, NEW n \in Nodes, Place(c, n)
      PROVE  CallsSound' /\ NetInv' /\ \A t \in Top : LeftAlone(t)
  BY <1>3, PlaceStep DEF Place, NetInv, netVars
<1>4. ASSUME NEW p \in DOMAIN snap, Expire(p)
      PROVE  CallsSound' /\ NetInv' /\ \A t \in Top : LeftAlone(t)
  <2>1. NoSnap \in [nodes : SUBSET Nodes, used : SUBSET Calls]
    BY DEF NoSnap, None
  <2>2. snap' \in [Top \cup {NoCall} -> [nodes : SUBSET Nodes, used : SUBSET Calls]]
    BY <1>4, <2>1 DEF Expire, NetInv
  <2> QED BY <1>4, <2>2, SameCalls DEF Expire, NetInv, netVars
<1>5. ASSUME NEW n \in Nodes, NodeJoins(n) \/ NodeFallsSilent(n)
      PROVE  CallsSound' /\ NetInv' /\ \A t \in Top : LeftAlone(t)
  BY <1>5, SameCalls DEF NodeJoins, NodeFallsSilent, NetInv
<1> QED BY <1>1, <1>2, <1>3, <1>4, <1>5, NodeDiesStep, ProxyRestartsStep, NestStep
        DEF Work, Surroundings

-----------------------------------------------------------------------------
(* The driver.                                                               *)

LEMMA WaitInvAround ==
  ASSUME WaitInv, UNCHANGED waitVars, \A t \in Top : LeftAlone(t)
  PROVE  WaitInv'
BY DEF WaitInv, waitVars, LeftAlone

LEMMA InitInv == Init => Inv
<1> SUFFICES ASSUME Init PROVE Inv
  OBVIOUS
<1>1. NetInv
  <2>1. NoSnap \in [nodes : SUBSET Nodes, used : SUBSET Calls]
    BY DEF NoSnap, None
  <2>2. snap \in [Top \cup {NoCall} -> [nodes : SUBSET Nodes, used : SUBSET Calls]]
    BY <2>1 DEF Init, DispatchInit
  <2> QED BY <2>2, NodeAssumption, BoundAssumption DEF Init, DispatchInit, NetInv
<1>2. CallsSound
  <2>1. "idle" \notin InFlight
    BY StatesAre
  <2> QED BY <2>1, IdleType DEF Init, DispatchInit, CallsSound, Sound
<1>3. WaitInv
  BY WaitAssumption, IdleType DEF Init, DispatchInit, WaitInv, Top
<1> QED BY <1>1, <1>2, <1>3 DEF Inv

\* What chia_wait returned as ready rests.
Kept == \A t \in Top \ pend : call[t].st = "over" => call'[t] = call[t]

LEMMA CancelledFacts ==
  ASSUME CallsSound, NEW t \in Top, NEW st \in {"idle", "over"}, call' = Cancelled(t, st)
  PROVE  /\ CallsSound'
         /\ call'[t].st = st /\ call'[t].want = call[t].want
         /\ \A u \in Top \ {t} : call'[u] = call[u]
<1> DEFINE new == [Idle EXCEPT !.st = st, !.want = call[t].want]
<1>1. t \in Calls /\ Top \subseteq Calls /\ \A c \in Nested(t) : c \notin Top
  BY NodeAssumption DEF Top, Nested
<1>2. call[t] \in CallType
  BY <1>1 DEF CallsSound
<1>3. new \in CallType /\ new.st = st
  BY <1>2, RestingType
<1>4. new.want = call[t].want
  BY DEF Idle
<1>5. call' = [c \in Calls |-> IF c = t THEN new ELSE IF c \in Nested(t) THEN Idle ELSE call[c]]
  BY DEF Cancelled
<1> HIDE DEF new
<1>6. {"idle", "over"} \cap InFlight = {}
  BY StatesAre
<1>7. ASSUME NEW c \in Calls PROVE Moved(call[c], call'[c])
  <2>1. CASE c = t
    BY <1>3, <1>5, <1>6, <2>1 DEF Moved
  <2>2. CASE c # t /\ c \in Nested(t)
    BY <1>5, <1>6, <2>2, IdleType DEF Moved
  <2>3. CASE c # t /\ c \notin Nested(t)
    BY <1>5, <2>3 DEF Moved, CallsSound, Sound
  <2> QED BY <2>1, <2>2, <2>3
<1>8. call' \in [Calls -> CallType]
  <2>1. call' = [c \in Calls |-> call'[c]]
    BY <1>5
  <2> QED BY <2>1, <1>7 DEF Moved
<1>9. CallsSound'
  BY <1>7, <1>8, AllMovedSound
<1>10. \A u \in Top \ {t} : call'[u] = call[u]
  BY <1>1, <1>5
<1> QED BY <1>1, <1>3, <1>4, <1>5, <1>9, <1>10

\* A call of the driver is sent, the first time or again.
LEMMA TopRemote ==
  ASSUME NetInv, CallsSound, NEW t \in Top, NEW w \in WantType, ChiaRemote(t, w),
         UNCHANGED <<netVars, restarts>>
  PROVE  /\ CallsSound' /\ NetInv'
         /\ call'[t].st \in InFlight
         /\ \A u \in Top \ {t} : call'[u] = call[u]
<1>1. t \in Calls /\ Parent[t] = NoCall /\ Top \subseteq Calls
  BY DEF Top
<1>2. /\ call' \in [Calls -> CallType] /\ Sound(call'[t]) /\ call'[t].st \in InFlight
      /\ \A d \in Calls \ {t} : Moved(call[d], call'[d])
      /\ snap' \in [Top \cup {NoCall} -> [nodes : SUBSET Nodes, used : SUBSET Calls]]
  BY <1>1, RemoteFacts
<1>3. CallsSound'
  BY <1>2, AllMovedSound
<1>4. ASSUME NEW u \in Top \ {t} PROVE call'[u] = call[u]
  <2>1. u \in Calls /\ u # Parent[t]
    BY <1>1, NodeAssumption
  <2> QED BY <2>1 DEF ChiaRemote, SendUnchecked, SendByEnv, SendJudged, Send
<1> QED BY <1>2, <1>3, <1>4 DEF NetInv, netVars

LEMMA DriverWaits ==
  ASSUME Inv,
         \/ Wait \/ WaitTimesOut \/ Classify \/ ClassifyFails \/ ResubmitFails
         \/ \E t \in Top : Age(t) \/ WaitReady(t)
  PROVE  Inv' /\ Kept
<1>1. UNCHANGED vars
  BY DEF Age, Wait, WaitReady, WaitTimesOut, Classify, ClassifyFails, ResubmitFails
<1>2. CallsSound' /\ NetInv' /\ Kept
  <2>1. UNCHANGED call
    BY <1>1 DEF vars
  <2> QED BY <1>1, <2>1, SameCalls DEF Inv, NetInv, Kept, vars
<1>3. WaitInv'
  <2>1. ASSUME UNCHANGED <<pend, retries, stuck>>, aged' \subseteq Top, UNCHANGED call,
               phase' \in {"out", "waiting", "blocked", "woken", "acting", "crashed"},
               stuck # {} => phase' \in {"acting", "crashed"}
        PROVE  WaitInv'
    BY <2>1 DEF Inv, WaitInv
  <2>2. ASSUME NEW t \in Top, Age(t) PROVE WaitInv'
    BY <2>1, <2>2 DEF Age, Inv, WaitInv, vars
  <2>3. CASE Wait \/ WaitTimesOut \/ ClassifyFails \/ ResubmitFails
    BY <2>1, <2>3 DEF Wait, WaitTimesOut, ClassifyFails, ResubmitFails, Inv, WaitInv, vars
  <2>4. ASSUME NEW t \in Top, WaitReady(t) PROVE WaitInv'
    <3>1. /\ pend' = pend \ {t} /\ call[t].st = "over" /\ phase' \in {"out", "woken"}
          /\ stuck = {} /\ UNCHANGED <<call, aged, retries, stuck>>
      BY <2>4 DEF WaitReady, Inv, WaitInv, vars
    <3> QED BY <3>1 DEF Inv, WaitInv
  <2>5. CASE Classify
    <3>1. /\ stuck' \subseteq pend /\ UNCHANGED <<call, pend, aged, retries>>
          /\ phase' = IF stuck' = {} THEN "out" ELSE "acting"
          /\ \A u \in stuck' : call[u].st # "idle"
      BY <2>5 DEF Classify, IsStuck, vars
    <3> QED BY <3>1 DEF Inv, WaitInv
  <2> QED BY <2>2, <2>3, <2>4, <2>5
<1> QED BY <1>2, <1>3 DEF Inv

LEMMA TrackStep ==
  ASSUME Inv, NEW t \in Top, NEW w \in Wants[t], Track(t, w)
  PROVE  Inv' /\ Kept
<1>1. w \in WantType /\ t \in Calls
  BY DEF WantType, Top
<1>2. ChiaRemote(t, w) /\ UNCHANGED <<netVars, restarts>>
  BY DEF Track
<1>3. /\ CallsSound' /\ NetInv' /\ call'[t].st \in InFlight
      /\ \A u \in Top \ {t} : call'[u] = call[u]
  BY <1>1, <1>2, TopRemote DEF Inv
<1>4. /\ phase = "out" /\ call[t].st = "idle" /\ pend' = pend \cup {t}
      /\ UNCHANGED <<phase, aged, retries, stuck>>
  BY DEF Track
<1>5. WaitInv'
  BY <1>3, <1>4 DEF Inv, WaitInv
<1> QED BY <1>3, <1>4, <1>5 DEF Inv, Kept

LEMMA CancelStep ==
  ASSUME Inv, NEW t \in Top, Cancel(t)
  PROVE  Inv' /\ Kept
<1>1. /\ call' = Cancelled(t, "idle") /\ t \in stuck /\ retries[t] < MaxRetries
      /\ UNCHANGED <<netVars, snap, restarts>> /\ UNCHANGED waitVars
  BY DEF Cancel
<1>2. CallsSound' /\ call'[t].st = "idle" /\ \A u \in Top \ {t} : call'[u] = call[u]
  BY <1>1, CancelledFacts DEF Inv
<1>3. NetInv' /\ WaitInv'
  BY <1>1, <1>2 DEF Inv, NetInv, WaitInv, waitVars, netVars
<1> QED BY <1>1, <1>2, <1>3 DEF Inv, WaitInv, Kept

LEMMA ResubmitStep ==
  ASSUME Inv, NEW t \in Top, Resubmit(t)
  PROVE  Inv' /\ Kept
<1>1. /\ phase = "acting" /\ t \in stuck /\ call[t].st = "idle"
      /\ ChiaRemote(t, call[t].want) /\ UNCHANGED <<netVars, restarts>>
      /\ retries' = [retries EXCEPT ![t] = @ + 1] /\ aged' = aged \ {t}
      /\ stuck' = stuck \ {t} /\ UNCHANGED pend
      /\ phase' = IF stuck' = {} THEN "out" ELSE "acting"
  BY DEF Resubmit, Resending, Handled
<1>2. call[t].want \in WantType
  <2>1. call[t] \in CallType
    BY DEF Inv, CallsSound, Top
  <2> QED BY <2>1, CallTypeDef
<1>3. /\ CallsSound' /\ NetInv' /\ call'[t].st \in InFlight
      /\ \A u \in Top \ {t} : call'[u] = call[u]
  BY <1>1, <1>2, TopRemote DEF Inv
<1>4. retries' \in [Top -> 0 .. MaxRetries] /\ \A u \in Top \ {t} : retries'[u] = retries[u]
  BY <1>1, WaitAssumption DEF Inv, WaitInv
<1>5. WaitInv'
  BY <1>1, <1>3, <1>4 DEF Inv, WaitInv
<1> QED BY <1>1, <1>3, <1>5 DEF Inv, WaitInv, Kept

LEMMA GiveUpStep ==
  ASSUME Inv, NEW t \in Top, GiveUp(t)
  PROVE  Inv' /\ Kept
<1>1. /\ t \in stuck /\ stuck' = stuck \ {t} /\ phase = "acting"
      /\ phase' = IF stuck' = {} THEN "out" ELSE "acting"
      /\ UNCHANGED <<netVars, snap, restarts, pend, aged, retries>>
  BY DEF GiveUp, Handled
<1>2. CallsSound' /\ \A u \in Top \ {t} : call'[u] = call[u]
  <2>1. CASE CancelOnStuck
    BY <2>1, CancelledFacts DEF GiveUp, Inv
  <2>2. CASE ~CancelOnStuck
    <3>1. UNCHANGED call
      BY <2>2 DEF GiveUp
    <3> QED BY <3>1, SameCalls DEF Inv
  <2> QED BY <2>1, <2>2
<1>3. NetInv' /\ WaitInv'
  BY <1>1, <1>2 DEF Inv, NetInv, WaitInv, netVars
<1> QED BY <1>1, <1>2, <1>3 DEF Inv, WaitInv, Kept

LEMMA InvStep == Inv /\ [Next]_allVars => Inv' /\ (Kept \/ UNCHANGED allVars)
<1> SUFFICES ASSUME Inv, [Next]_allVars PROVE Inv' /\ (Kept \/ UNCHANGED allVars)
  OBVIOUS
<1>1. CASE (Work \/ Surroundings) /\ UNCHANGED waitVars
  <2>1. CallsSound' /\ NetInv' /\ \A t \in Top : LeftAlone(t)
    BY <1>1, AroundStep DEF Inv
  <2>2. WaitInv'
    BY <1>1, <2>1, WaitInvAround DEF Inv
  <2> QED BY <2>1, <2>2 DEF Inv, Kept, LeftAlone
<1>2. CASE Driver
  BY <1>2, DriverWaits, CancelStep, ResubmitStep, GiveUpStep DEF Driver
<1>3. CASE \E t \in Top : Age(t) \/ \E w \in Wants[t] : Track(t, w)
  BY <1>3, DriverWaits, TrackStep
<1>4. CASE UNCHANGED allVars
  BY <1>4, SameCalls DEF allVars, vars, waitVars, Inv, NetInv, WaitInv
<1> QED BY <1>1, <1>2, <1>3, <1>4 DEF Next

LEMMA InvHolds == Spec => []Inv
BY InitInv, InvStep, PTL DEF Spec

-----------------------------------------------------------------------------
\* The model of the dispatch and of chia_wait is type correct.
THEOREM TypeCorrect == Spec => []TypeOK
<1>1. Inv => TypeOK
  BY DEF Inv, NetInv, CallsSound, WaitInv, TypeOK
<1> QED BY <1>1, InvHolds, PTL

\* should_proxy is fail-safe for any tunnels, nodes, options of the calls and
\* ages of the snapshots: a relayed or judged call hangs for want of a link
\* only at a node that joined after the snapshot, however often it is placed
\* anew, sent back or made again.
THEOREM HangsOnlyOnNewcomersHolds == Spec => []HangsOnlyOnNewcomers
<1>1. Inv => HangsOnlyOnNewcomers
  <2> SUFFICES ASSUME Inv, NEW c \in Calls, Unreachable(c), ~call[c].want.unchecked
               PROVE  \/ call[c].route = "direct" /\ call[c].saw = None /\ call[c].owner \notin Remote
                      \/ /\ call[c].route = "direct" /\ call[c].saw # None
                         /\ call[c].at \notin call[c].saw
    BY DEF HangsOnlyOnNewcomers
  <2> DEFINE r == call[c]
  <2>1. r.st = "hung" /\ ~CanReach(r.owner, r.at) /\ Sound(r)
    BY DEF Unreachable, Inv, CallsSound
  <2>2. /\ r.route \in {"relay", "direct"} /\ Fits(r.want, r.at)
        /\ (r.route = "relay" => r.owner = Head)
        /\ (r.route = "direct" /\ r.saw = None => r.owner \notin Remote)
        /\ (r.route = "direct" /\ r.saw # None => DirectlyReachable(r.owner, r.want, r.saw))
    BY <2>1, StatesAre DEF Sound
  <2>3. r.owner # Head /\ r.route = "direct"
    BY <2>1, <2>2 DEF CanReach
  <2>4. CASE r.saw = None
    BY <2>2, <2>3, <2>4
  <2>5. CASE r.saw # None
    <3>1. SUFFICES ASSUME r.at \in r.saw PROVE FALSE
      BY <2>3, <2>5
    <3>2. /\ Targets(r.want, r.saw) # None
          /\ \A t \in Targets(r.want, r.saw) : TargetReachable(r.owner, t, r.saw)
      BY <2>2, <2>3, <2>5 DEF DirectlyReachable
    <3>3. r.at \in Targets(r.want, r.saw)
      BY <2>2, <3>1, <3>2 DEF Targets, Fits, None
    <3>4. TargetReachable(r.owner, r.at, r.saw)
      BY <3>2, <3>3
    <3> QED BY <2>1, <2>3, <3>4 DEF TargetReachable, CanReach
  <2> QED BY <2>4, <2>5
<1> QED BY <1>1, InvHolds, PTL

\* chia_wait forgets no call that runs, and no step of it, of Ray or of a fault
\* touches a call it has returned as ready.
THEOREM ReadyIsFinalHolds == Spec => ReadyIsFinal
<1> DEFINE Final == \A t \in Top : t \notin pend /\ call[t].st # "idle" =>
                      call[t].st = "over" /\ call'[t] = call[t]
<1>1. Inv /\ [Next]_allVars => [Final]_allVars
  <2> SUFFICES ASSUME Inv, [Next]_allVars, ~UNCHANGED allVars PROVE Final
    BY Zenon
  <2>1. Kept
    BY InvStep
  <2> QED BY <2>1 DEF Kept, Inv, WaitInv
<1>2. Spec => [][Final]_allVars
  BY <1>1, InvHolds, PTL DEF Spec
<1> QED BY <1>2 DEF ReadyIsFinal

-----------------------------------------------------------------------------
(* The slots of the proxy, and the calls that are blocked by their own.      *)

\* The proxy never works on more calls than max_concurrency, also when its
\* callers send their calls again to a new one.
SlotsKept == IsFiniteSet(Held) /\ Cardinality(Held) <= Slots

\* A body blocked in the get() of a nested call has such a call in flight: none
\* waits for a call that was forgotten with a node or with the proxy.
BlockedHasCallee == \A c \in Calls : call[c].st = "asking" => Nested(c) # {}

AtWork  == InFlight \ {"queued"}
Works(r) == r.st \in AtWork /\ r.route = "relay"

\* No call takes a slot in this step.
NoSlotTaken == \A c \in Calls : Works(call'[c]) => Works(call[c])

LEMMA HeldIs == Held = {c \in Calls : Works(call[c])}
BY DEF Held, Relayed, In, Works, AtWork

LEMMA NestedIs == \A c : Nested(c) = {d \in Calls : call[d].st \in InFlight /\ Parent[d] = c}
BY DEF Nested, In

LEMMA SlotsStay ==
  ASSUME SlotsKept, NoSlotTaken
  PROVE  SlotsKept'
<1>1. Held' \subseteq Held
  BY HeldIs DEF NoSlotTaken, Works, AtWork, InFlight, Held, Relayed, In
<1>2. Slots \in Nat /\ Cardinality(Held) \in Nat /\ IsFiniteSet(Held)
  BY BoundAssumption, FS_CardinalityType DEF SlotsKept
<1>3. IsFiniteSet(Held') /\ Cardinality(Held') <= Cardinality(Held) /\ Cardinality(Held') \in Nat
  BY <1>1, <1>2, FS_Subset, FS_CardinalityType
<1> QED BY <1>2, <1>3 DEF SlotsKept

\* A step in which only calls that rest or wait for a node change, and stay in
\* flight if they were.
LEMMA CalleeStays ==
  ASSUME BlockedHasCallee,
         \A c \in Calls : call'[c].st = "asking" => call[c].st = "asking",
         \A c \in Calls : call[c].st \in InFlight /\ call'[c].st \notin InFlight
                            => Parent[c] \notin Calls \/ call'[Parent[c]].st # "asking"
  PROVE  BlockedHasCallee'
<1> SUFFICES ASSUME NEW c \in Calls, call'[c].st = "asking" PROVE (Nested(c) # {})'
  BY DEF BlockedHasCallee
<1>1. PICK d \in Calls : call[d].st \in InFlight /\ Parent[d] = c
  BY NestedIs DEF BlockedHasCallee
<1>2. call'[d].st \in InFlight
  BY <1>1
<1> QED BY <1>1, <1>2 DEF Nested, In, InFlight

LEMMA SendBlocks ==
  ASSUME CallsSound, BlockedHasCallee, NEW c \in Calls, NEW w \in WantType,
         NEW route \in {"direct", "relay"}, NEW saw \in SUBSET Nodes,
         Send(c, w, route, saw), Parent[c] # NoCall => call[Parent[c]].st = "running"
  PROVE  NoSlotTaken /\ BlockedHasCallee'
<1>1. /\ call'[c].st = (IF route = "relay" THEN "queued" ELSE "pending")
      /\ call'[c].route = route
  BY DEF Send
<1>2. ASSUME NEW d \in Calls \ {c}
      PROVE  \/ call'[d] = call[d]
             \/ d = Parent[c] /\ call[d].st = "running" /\ call'[d].st = "asking"
                /\ call'[d].route = call[d].route
  <2>1. call'[d] = IF d = Parent[c] THEN [call[d] EXCEPT !.st = "asking"] ELSE call[d]
    BY DEF Send
  <2>2. CASE d = Parent[c]
    <3>1. call[d] \in CallType /\ "asking" \in States /\ call[d].st = "running"
      BY <2>2, StatesAre, NodeAssumption DEF CallsSound
    <3> QED BY <2>1, <2>2, <3>1, SetState
  <2> QED BY <2>1, <2>2
<1>3. NoSlotTaken
  <2> SUFFICES ASSUME NEW d \in Calls, Works(call'[d]) PROVE Works(call[d])
    BY DEF NoSlotTaken
  <2> QED BY <1>1, <1>2 DEF Works, AtWork, InFlight
<1>4. ASSUME NEW b \in Calls, call'[b].st = "asking" PROVE (Nested(b) # {})'
  <2>1. CASE b = Parent[c]
    BY <1>1, <2>1 DEF Nested, In, InFlight
  <2>2. CASE b # Parent[c]
    <3>1. call[b].st = "asking"
      BY <1>1, <1>2, <1>4, <2>2
    <3>2. PICK d \in Calls : call[d].st \in InFlight /\ Parent[d] = b
      BY <3>1, NestedIs DEF BlockedHasCallee
    <3>3. call'[d].st \in InFlight
      BY <1>2, <2>2, <3>2 DEF InFlight
    <3> QED BY <3>2, <3>3 DEF Nested, In, InFlight
  <2> QED BY <2>1, <2>2
<1> QED BY <1>3, <1>4 DEF BlockedHasCallee

LEMMA RemoteBlocks ==
  ASSUME NetInv, CallsSound, BlockedHasCallee, NEW c \in Calls, NEW w \in WantType,
         ChiaRemote(c, w), Parent[c] # NoCall => call[Parent[c]].st = "running"
  PROVE  NoSlotTaken /\ BlockedHasCallee'
<1>0. None \in SUBSET Nodes
  BY DEF None
<1>1. CASE SendUnchecked(c, w)
  BY <1>0, <1>1, SendBlocks DEF SendUnchecked
<1>2. CASE SendByEnv(c, w)
  BY <1>0, <1>2, SendBlocks DEF SendByEnv
<1>3. CASE SendJudged(c, w)
  <2>1. Parent[c] \in Top \cup {NoCall}
    BY CallAssumption
  <2>2. AliveNodes(Parent[c]) \in SUBSET Nodes
    BY <2>1, ViewIsNotEmpty
  <2> QED BY <1>3, <2>2, SendBlocks DEF SendJudged
<1> QED BY <1>1, <1>2, <1>3 DEF ChiaRemote

\* What the end of a call, or its cancellation, makes of it.
LEMMA RestingState ==
  ASSUME NEW r, NEW st \in {"idle", "over"}
  PROVE  LET s == [Idle EXCEPT !.st = st, !.want = r.want]
         IN  s.st = st /\ s.st \notin InFlight /\ ~Works(s)
BY DEF Idle, InFlight, AtWork, Works

LEMMA PlaceBlocks ==
  ASSUME CallsSound, BlockedHasCallee, NEW c \in Calls, NEW n \in Nodes, Place(c, n)
  PROVE  NoSlotTaken /\ BlockedHasCallee'
<1> DEFINE st == IF n \notin silent /\ CanReach(call[c].owner, n) THEN "running" ELSE "hung"
<1>1. call' = [call EXCEPT ![c] = [call[c] EXCEPT !.at = n, !.st = st]] /\ call[c].st = "pending"
  BY DEF Place
<1>2. call[c] \in CallType /\ \A d \in Calls \ {c} : call'[d] = call[d]
  BY <1>1 DEF CallsSound
<1>3. st \in {"running", "hung"}
  OBVIOUS
<1> HIDE DEF st
<1>4. call'[c].st = st /\ call'[c].route = call[c].route
  <2>1. call'[c] = [call[c] EXCEPT !.at = n, !.st = st]
    BY <1>1 DEF CallsSound
  <2> HIDE DEF WantType, States
  <2> QED BY <1>2, <2>1, CallTypeDef
<1>5. NoSlotTaken
  BY <1>1, <1>2, <1>3, <1>4 DEF NoSlotTaken, Works, AtWork, InFlight
<1>6. \A d \in Calls : /\ call'[d].st = "asking" => call[d].st = "asking"
                       /\ call[d].st \in InFlight => call'[d].st \in InFlight
  BY <1>1, <1>2, <1>3, <1>4 DEF InFlight
<1> QED BY <1>5, <1>6, CalleeStays

LEMMA FinishBlocks ==
  ASSUME CallsSound, BlockedHasCallee, NEW c \in Calls, Finish(c)
  PROVE  NoSlotTaken /\ BlockedHasCallee'
<1> DEFINE Last(d) == d = Parent[c] /\ call[d].st = "asking" /\ Nested(d) \subseteq {c}
           over    == [Idle EXCEPT !.st = "over", !.want = call[c].want]
<1>1. call' = [d \in Calls |-> IF d = c THEN over
                               ELSE IF Last(d) THEN [call[d] EXCEPT !.st = "running"]
                               ELSE call[d]]
  BY DEF Finish, Over
<1>2. over.st = "over" /\ over.st \notin InFlight /\ ~Works(over)
  BY RestingState
<1>3. call'[c] = over
  BY <1>1
<1> HIDE DEF over
<1>4. ASSUME NEW d \in Calls \ {c}
      PROVE  \/ ~Last(d) /\ call'[d] = call[d]
             \/ Last(d) /\ call'[d].st = "running" /\ call'[d].route = call[d].route
  <2>1. CASE Last(d)
    <3>1. call[d] \in CallType /\ "running" \in States
      BY StatesAre DEF CallsSound
    <3>2. call'[d] = [call[d] EXCEPT !.st = "running"]
      BY <1>1, <2>1
    <3> QED BY <2>1, <3>1, <3>2, SetState
  <2>2. CASE ~Last(d)
    BY <1>1, <2>2
  <2> QED BY <2>1, <2>2
<1>5. NoSlotTaken
  <2> SUFFICES ASSUME NEW d \in Calls, Works(call'[d]) PROVE Works(call[d])
    BY DEF NoSlotTaken
  <2>1. d # c
    BY <1>2, <1>3
  <2> QED BY <1>4, <2>1 DEF Works, AtWork, InFlight
<1>6. ASSUME NEW b \in Calls, call'[b].st = "asking" PROVE (Nested(b) # {})'
  <2>1. b # c /\ ~Last(b) /\ call[b].st = "asking"
    BY <1>2, <1>3, <1>4, <1>6
  <2>2. PICK d \in Calls : call[d].st \in InFlight /\ Parent[d] = b /\ d # c
    <3>1. CASE b = Parent[c]
      <4>1. PICK d \in Nested(b) : d # c
        BY <2>1, <3>1
      <4> QED BY <4>1, NestedIs
    <3>2. CASE b # Parent[c]
      BY <2>1, <3>2, NestedIs DEF BlockedHasCallee
    <3> QED BY <3>1, <3>2
  <2>3. call'[d].st \in InFlight
    BY <1>4, <2>2 DEF InFlight
  <2> QED BY <2>2, <2>3 DEF Nested, In, InFlight
<1> QED BY <1>5, <1>6 DEF BlockedHasCallee

\* A fault sends the calls of Back back and forgets those of Lost.  None of
\* Back is at work at the proxy afterwards unless it was, and the callers of
\* what is forgotten are not blocked any more.
LEMMA FaultBlocks ==
  ASSUME CallsSound, BlockedHasCallee, NEW Back \in SUBSET Calls, NEW Lost \in SUBSET Calls,
         NEW st \in {"pending", "queued"},
         call' = [c \in Calls |-> IF c \in Back THEN [call[c] EXCEPT !.st = st, !.at = NoNode]
                                  ELSE IF c \in Lost THEN Idle ELSE call[c]],
         \A c \in Back : st = "pending" => call[c].st \in AtWork,
         \A c \in Lost : Parent[c] \in Calls =>
           \/ Parent[c] \in Back
           \/ Parent[c] \in Lost
  PROVE  NoSlotTaken /\ BlockedHasCallee'
<1>1. ASSUME NEW c \in Calls
      PROVE  \/ c \in Back /\ call'[c].st = st /\ call'[c].route = call[c].route
             \/ c \notin Back /\ c \in Lost /\ call'[c] = Idle
             \/ c \notin Back \cup Lost /\ call'[c] = call[c]
  <2>1. CASE c \in Back
    <3>1. call'[c] = [call[c] EXCEPT !.st = st, !.at = NoNode] /\ call[c] \in CallType
      BY <2>1 DEF CallsSound
    <3> HIDE DEF States, WantType
    <3> QED BY <2>1, <3>1, CallTypeDef
  <2> QED BY <2>1
<1>2. Idle.st = "idle" /\ st \in InFlight /\ st # "asking" /\ "idle" \notin InFlight
  BY IdleType DEF InFlight
<1>3. NoSlotTaken
  <2> SUFFICES ASSUME NEW d \in Calls, Works(call'[d]) PROVE Works(call[d])
    BY DEF NoSlotTaken
  <2> QED BY <1>1, <1>2 DEF Works, AtWork
<1>4. \A d \in Calls : call'[d].st = "asking" => d \notin Back \cup Lost /\ call[d].st = "asking"
  BY <1>1, <1>2
<1>5. ASSUME NEW d \in Calls, call[d].st \in InFlight, call'[d].st \notin InFlight, Parent[d] \in Calls
      PROVE  call'[Parent[d]].st # "asking"
  <2>1. d \in Lost
    BY <1>1, <1>2, <1>5
  <2> QED BY <1>4, <1>5, <2>1
<1> QED BY <1>3, <1>4, <1>5, CalleeStays

LEMMA NodeDiesBlocks ==
  ASSUME CallsSound, BlockedHasCallee, NEW n \in Nodes, NodeDies(n)
  PROVE  NoSlotTaken /\ BlockedHasCallee'
<1> DEFINE lost   == {c \in In({"hung"} \cup OnNode) : call[c].at = n}
           orphan == {c \in Calls : /\ Parent[c] \in lost
                                    /\ call[c].st \in InFlight /\ call[c].route = "direct"}
<1>1. lost \in SUBSET Calls /\ orphan \in SUBSET Calls /\ \A c \in lost : call[c].st \in AtWork
  BY DEF In, OnNode, AtWork, InFlight
<1>2. \A c \in orphan : Parent[c] \in lost
  OBVIOUS
<1>3. call' = [c \in Calls |-> IF c \in lost THEN [call[c] EXCEPT !.st = "pending", !.at = NoNode]
                              ELSE IF c \in orphan THEN Idle ELSE call[c]]
  BY DEF NodeDies
<1> HIDE DEF lost, orphan
<1> QED BY <1>1, <1>2, <1>3, FaultBlocks

LEMMA ProxyRestartsBlocks ==
  ASSUME CallsSound, BlockedHasCallee, ProxyRestarts
  PROVE  NoSlotTaken /\ BlockedHasCallee'
<1> DEFINE lost == {c \in Calls : Parent[c] \in Held /\ call[c].st \in InFlight}
           back == Relayed \ lost
<1>1. back \in SUBSET Calls /\ lost \in SUBSET Calls
  BY DEF Relayed, In
<1>2. \A c \in lost : Parent[c] \in back \/ Parent[c] \in lost
  BY DEF Held
<1>3. call' = [c \in Calls |-> IF c \in back THEN [call[c] EXCEPT !.st = "queued", !.at = NoNode]
                              ELSE IF c \in lost THEN Idle ELSE call[c]]
  BY DEF ProxyRestarts
<1> HIDE DEF lost, back
<1> QED BY <1>1, <1>2, <1>3, FaultBlocks

LEMMA CancelledBlocks ==
  ASSUME CallsSound, BlockedHasCallee, NEW t \in Top, NEW st \in {"idle", "over"},
         call' = Cancelled(t, st)
  PROVE  NoSlotTaken /\ BlockedHasCallee'
<1> DEFINE new == [Idle EXCEPT !.st = st, !.want = call[t].want]
<1>1. call' = [c \in Calls |-> IF c = t THEN new ELSE IF c \in Nested(t) THEN Idle ELSE call[c]]
  BY DEF Cancelled
<1>2. /\ new.st = st /\ new.st \notin InFlight /\ ~Works(new)
      /\ Idle.st = "idle" /\ ~Works(Idle)
  BY RestingState DEF Idle, Works, AtWork, InFlight
<1> HIDE DEF new
<1>3. \A c \in Calls : \/ c = t /\ call'[c] = new
                       \/ c # t /\ c \in Nested(t) /\ call'[c] = Idle
                       \/ c # t /\ c \notin Nested(t) /\ call'[c] = call[c]
  BY <1>1
<1>4. NoSlotTaken
  BY <1>2, <1>3 DEF NoSlotTaken
<1>5. \A c \in Calls : call'[c].st = "asking" => c # t /\ call[c].st = "asking"
  BY <1>2, <1>3
<1>6. \A c \in Calls : call[c].st \in InFlight /\ call'[c].st \notin InFlight
                         => Parent[c] \notin Calls \/ Parent[c] = t
  <2>1. Parent[t] = NoCall /\ NoCall \notin Calls
    BY NodeAssumption DEF Top
  <2> QED BY <1>3, <2>1, NestedIs
<1> QED BY <1>4, <1>5, <1>6, CalleeStays

\* Only Serve takes a slot, and only a free one.
LEMMA ServeSlots ==
  ASSUME CallsSound, BlockedHasCallee, SlotsKept, NEW c \in Calls, Serve(c)
  PROVE  SlotsKept' /\ BlockedHasCallee'
<1>1. /\ call' = [call EXCEPT ![c] = [call[c] EXCEPT !.st = "pending"]]
      /\ call[c].st = "queued" /\ Cardinality(Held) < Slots
  BY DEF Serve
<1>2. /\ \A d \in Calls \ {c} : call'[d] = call[d]
      /\ call'[c].st = "pending" /\ call'[c].route = call[c].route
  <2>1. call[c] \in CallType /\ "pending" \in States
    BY StatesAre DEF CallsSound
  <2>2. call'[c] = [call[c] EXCEPT !.st = "pending"] /\ \A d \in Calls \ {c} : call'[d] = call[d]
    BY <1>1 DEF CallsSound
  <2> QED BY <2>1, <2>2, SetState
<1>3. Held' \subseteq Held \cup {c}
  BY <1>2 DEF Held, Relayed, In, InFlight
<1>4. Slots \in Nat /\ Cardinality(Held) \in Nat /\ IsFiniteSet(Held)
  BY BoundAssumption, FS_CardinalityType DEF SlotsKept
<1>5. IsFiniteSet(Held \cup {c}) /\ Cardinality(Held \cup {c}) <= Cardinality(Held) + 1
      /\ Cardinality(Held \cup {c}) \in Nat
  BY <1>4, FS_AddElement, FS_CardinalityType
<1>6. IsFiniteSet(Held') /\ Cardinality(Held') <= Cardinality(Held \cup {c}) /\ Cardinality(Held') \in Nat
  BY <1>3, <1>5, FS_Subset, FS_CardinalityType
<1>7. SlotsKept'
  BY <1>1, <1>4, <1>5, <1>6 DEF SlotsKept
<1>8. \A d \in Calls : /\ call'[d].st = "asking" => call[d].st = "asking"
                       /\ call[d].st \in InFlight => call'[d].st \in InFlight
  BY <1>1, <1>2 DEF InFlight
<1> QED BY <1>7, <1>8, CalleeStays

LEMMA SlotsStep ==
  ASSUME Inv, SlotsKept, BlockedHasCallee, [Next]_allVars
  PROVE  SlotsKept' /\ BlockedHasCallee'
<1>0. CallsSound /\ NetInv /\ Top \subseteq Calls /\ \A t \in Top : Parent[t] = NoCall
  BY DEF Inv, Top
<1>1. ASSUME UNCHANGED call PROVE SlotsKept' /\ BlockedHasCallee'
  BY <1>1 DEF SlotsKept, BlockedHasCallee, Held, Relayed, Nested, In
<1>2. CASE Work
  <2>1. ASSUME NEW c \in Calls, Finish(c) PROVE SlotsKept' /\ BlockedHasCallee'
    BY <1>0, <2>1, FinishBlocks, SlotsStay
  <2>2. ASSUME NEW c \in Calls, NEW n \in Nodes, Place(c, n) PROVE SlotsKept' /\ BlockedHasCallee'
    BY <1>0, <2>2, PlaceBlocks, SlotsStay
  <2> QED BY <1>0, <1>2, <2>1, <2>2, ServeSlots DEF Work
<1>3. CASE Surroundings
  <2>1. ASSUME NEW c \in Calls, NEW w \in Wants[c], Nest(c, w) PROVE SlotsKept' /\ BlockedHasCallee'
    <3>1. w \in WantType /\ ChiaRemote(c, w) /\ call[Parent[c]].st = "running"
      BY <2>1 DEF Nest, WantType
    <3> QED BY <1>0, <3>1, RemoteBlocks, SlotsStay
  <2>2. ASSUME NEW n \in Nodes, NodeDies(n) PROVE SlotsKept' /\ BlockedHasCallee'
    BY <1>0, <2>2, NodeDiesBlocks, SlotsStay
  <2>3. ASSUME ProxyRestarts PROVE SlotsKept' /\ BlockedHasCallee'
    BY <1>0, <2>3, ProxyRestartsBlocks, SlotsStay
  <2>4. ASSUME (\E p \in DOMAIN snap : Expire(p)) \/ \E n \in Nodes : NodeJoins(n) \/ NodeFallsSilent(n)
        PROVE  SlotsKept' /\ BlockedHasCallee'
    BY <1>1, <2>4 DEF Expire, NodeJoins, NodeFallsSilent
  <2> QED BY <1>3, <2>1, <2>2, <2>3, <2>4 DEF Surroundings
<1>4. CASE Driver
  <2>1. ASSUME NEW t \in Top, Cancel(t) \/ GiveUp(t) PROVE SlotsKept' /\ BlockedHasCallee'
    <3>1. \/ UNCHANGED call
          \/ \E st \in {"idle", "over"} : call' = Cancelled(t, st)
      BY <2>1 DEF Cancel, GiveUp
    <3> QED BY <1>0, <1>1, <3>1, CancelledBlocks, SlotsStay
  <2>2. ASSUME NEW t \in Top, Resubmit(t) PROVE SlotsKept' /\ BlockedHasCallee'
    <3>1. call[t] \in CallType /\ ChiaRemote(t, call[t].want)
      BY <1>0, <2>2 DEF CallsSound, Resubmit
    <3>2. call[t].want \in WantType
      BY <3>1, CallTypeDef
    <3> QED BY <1>0, <3>1, <3>2, RemoteBlocks, SlotsStay
  <2>3. ASSUME NEW t \in Top, WaitReady(t) PROVE SlotsKept' /\ BlockedHasCallee'
    BY <1>1, <2>3 DEF WaitReady, vars
  <2>4. ASSUME Wait \/ WaitTimesOut \/ Classify \/ ClassifyFails \/ ResubmitFails
        PROVE  SlotsKept' /\ BlockedHasCallee'
    BY <1>1, <2>4 DEF Wait, WaitTimesOut, Classify, ClassifyFails, ResubmitFails, vars
  <2> QED BY <1>4, <2>1, <2>2, <2>3, <2>4 DEF Driver
<1>5. CASE \E t \in Top : Age(t) \/ \E w \in Wants[t] : Track(t, w)
  <2>1. ASSUME NEW t \in Top, Age(t) PROVE SlotsKept' /\ BlockedHasCallee'
    BY <1>1, <2>1 DEF Age, vars
  <2>2. ASSUME NEW t \in Top, NEW w \in Wants[t], Track(t, w) PROVE SlotsKept' /\ BlockedHasCallee'
    <3>1. t \in Calls /\ w \in WantType /\ ChiaRemote(t, w)
      BY <1>0, <2>2 DEF Track, WantType
    <3> QED BY <1>0, <3>1, RemoteBlocks, SlotsStay
  <2> QED BY <1>5, <2>1, <2>2
<1>6. CASE UNCHANGED allVars
  BY <1>1, <1>6 DEF allVars, vars
<1> QED BY <1>2, <1>3, <1>4, <1>5, <1>6 DEF Next

LEMMA SlotsInit == Init => SlotsKept /\ BlockedHasCallee
<1> SUFFICES ASSUME Init PROVE SlotsKept /\ BlockedHasCallee
  OBVIOUS
<1>1. \A c \in Calls : call[c].st = "idle"
  BY IdleType DEF Init, DispatchInit
<1>2. Held = {}
  BY <1>1 DEF Held, Relayed, In, InFlight
<1> QED BY <1>1, <1>2, BoundAssumption, FS_EmptySet DEF SlotsKept, BlockedHasCallee

LEMMA SlotsHold == Spec => [](SlotsKept /\ BlockedHasCallee)
<1>1. Inv /\ (SlotsKept /\ BlockedHasCallee) /\ [Next]_allVars => (SlotsKept /\ BlockedHasCallee)'
  BY SlotsStep
<1> QED BY <1>1, SlotsInit, InvHolds, PTL DEF Spec

\* The relay works on at most max_concurrency calls, for any number of callers
\* and restarts of the proxy (DispatchProxy.submit, get_dispatch_proxy).
THEOREM SlotsKeptHolds == Spec => []SlotsKept
BY SlotsHold, PTL

\* No body waits for a nested call that nobody will answer: whatever ends,
\* cancels or forgets the nested call wakes or ends its caller too, however
\* nodes die, the proxy restarts and chia_wait cancels.
THEOREM BlockedHasCalleeHolds == Spec => []BlockedHasCallee
BY SlotsHold, PTL

=============================================================================
