--------------------------- MODULE DecisionProofs ---------------------------
(***************************************************************************)
(* What a decision of the hooks rests on, beside the fault engine: the     *)
(* target rule that select_best_target_rule chooses, the host name that    *)
(* the cache gives for an address, and the recording that a replay answers *)
(* from.  The three components share no state; each has its own invariant  *)
(* and theorems here.                                                      *)
(***************************************************************************)
EXTENDS RuleSelect, HostnameCache, RecordReplay, FiniteSetTheorems, SequenceTheorems, TLAPS

-----------------------------------------------------------------------------
(* Target rule selection: what select_best_target_rule returns of any      *)
(* table of rules, for any endpoint and any observed names.                *)

\* The table and the call do not change while the loop runs.
Inputs ==
  /\ rules \in Seq(RuleSpace)
  /\ count \in Nat

\* The priority and class the loop has noted are those of the rule it noted
\* them for: without this the comparison of the next rule says nothing.
Noted ==
  selected.idx > 0 =>
    /\ selected.priority = rules[selected.idx].priority
    /\ selected.class = Class(selected.idx)

\* The order the loop goes by: priority, then the class of the match, then the place in the
\* table.  Unlike MayPrecede it is transitive, so that the best of the rules looked at is
\* better than those it took the place of were.
Better(i, j) ==
  \/ rules[i].priority > rules[j].priority
  \/ rules[i].priority = rules[j].priority /\ Class(i) > Class(j)
  \/ rules[i].priority = rules[j].priority /\ Class(i) = Class(j) /\ i <= j

BestByClass ==
  IF Matching = {} THEN selected = NoneSelected
  ELSE /\ selected.idx \in Matching
       /\ \A j \in Matching : Better(selected.idx, j)

IndInv == Inputs /\ SelectTypeOK /\ Noted /\ BestByClass

\* A class is a small number whatever the rule and the call.
LEMMA ClassRange ==
  ASSUME NEW r, NEW e, NEW sem
  PROVE  RuleMatchClass(r, e, sem) \in 0 .. 5
<1>1. ASSUME NEW n, NEW c PROVE MatchNameScore(n, c) \in 0 .. 2
  BY DEF MatchNameScore
<1>2. IF HasName(r.sni) THEN MatchNameScore(r.sni, sem.sni) \in 0 .. 2
      ELSE MatchNameScore(r.hostname, sem.hostname) \in 0 .. 2
  BY <1>1
<1> QED BY <1>2 DEF RuleMatchClass

\* What a table of the specification is.
LEMMA RuleTables ==
  ASSUME rules \in UNION {[1 .. n -> RuleSpace] : n \in 0 .. MaxRules}
  PROVE  rules \in Seq(RuleSpace)
BY SeqDef, SelectAssumption

LEMMA InitInd == SelectInit => IndInv
<1> SUFFICES ASSUME SelectInit PROVE IndInv OBVIOUS
<1> USE DEF SelectInit
<1>1. Inputs BY RuleTables, SelectAssumption DEF Inputs
<1>2. Len(rules) \in Nat BY <1>1, LenProperties DEF Inputs
<1>3. SelectTypeOK BY <1>1, <1>2 DEF SelectTypeOK, Limit, NoneSelected, Inputs
<1>4. Noted BY DEF Noted, NoneSelected
<1>5. BestByClass BY DEF BestByClass, Matching
<1> QED BY <1>1, <1>3, <1>4, <1>5 DEF IndInv

LEMMA StepInd == IndInv /\ [SelectNext]_SelectVars => IndInv'
<1> SUFFICES ASSUME IndInv, [SelectNext]_SelectVars PROVE IndInv' OBVIOUS
<1> USE DEF IndInv
<1>1. CASE UNCHANGED SelectVars
  <2>1. Class(1)' = Class(1) /\ Matching' = Matching
    BY <1>1 DEF SelectVars, Class, Matching
  <2> QED BY <1>1, <2>1 DEF SelectVars, Inputs, SelectTypeOK, Noted, BestByClass, Better, Limit, Class
<1>2. CASE Consider
  <2> DEFINE k == idx + 1
  <2>1. /\ Len(rules) \in Nat /\ k \in 1 .. Len(rules) /\ idx \in Nat
        /\ \A i \in 1 .. Len(rules) : rules[i].priority \in Nat
        /\ Limit \in Nat /\ k <= Limit
    BY <1>2, LenProperties, SelectAssumption DEF Consider, Inputs, SelectTypeOK, Limit
  <2>2. \A i : Class(i) \in 0 .. 5 /\ Class(i)' = Class(i)
    BY <1>2, ClassRange DEF Consider, Class
  <2>3. Inputs' /\ Limit' = Limit /\ rules' = rules /\ idx' = k
    BY <1>2 DEF Consider, Inputs, Limit
  <2>4. /\ \A i : i \in Matching => i \in 1 .. idx /\ Class(i) > 0
        /\ Matching' = IF Class(k) > 0 THEN Matching \cup {k} ELSE Matching
    BY <2>1, <2>2, <2>3 DEF Matching
  <2>5. selected \in [idx : 0 .. Len(rules), priority : Nat, class : 0 .. 5]
    BY DEF SelectTypeOK
  <2>6. CASE Class(k) > 0 /\ ShouldReplace(rules[k], Class(k))
    <3>1. selected' = [idx |-> k, priority |-> rules[k].priority, class |-> Class(k)]
      BY <1>2, <2>6 DEF Consider
    <3>2. SelectTypeOK' BY <2>1, <2>2, <2>3, <3>1 DEF SelectTypeOK
    <3>3. Noted' BY <2>2, <2>3, <3>1 DEF Noted
    <3>4. BestByClass'
      <4>1. Matching' = Matching \cup {k} /\ selected'.idx = k
        BY <2>4, <2>6, <3>1
      <4>2. ASSUME NEW j \in Matching' PROVE Better(selected.idx, j)'
        <5>1. CASE j = k BY <5>1, <4>1, <2>1, <2>2, <2>3 DEF Better
        <5>2. CASE j \in Matching
          <6>1. j \in 1 .. Len(rules) /\ Better(selected.idx, j)
                /\ selected.idx \in Matching
            BY <5>2, <2>1, <2>4 DEF BestByClass
          <6>2. /\ selected.priority = rules[selected.idx].priority
                /\ selected.class = Class(selected.idx)
                /\ selected.idx \in 1 .. Len(rules)
            BY <6>1, <2>1, <2>4 DEF Noted
          <6>3. \/ rules[k].priority > selected.priority
                \/ rules[k].priority = selected.priority /\ Class(k) > selected.class
            BY <2>6, <6>2 DEF ShouldReplace
          <6> QED BY <6>1, <6>2, <6>3, <4>1, <2>1, <2>2, <2>3, SMTT(40) DEF Better
        <5> QED BY <4>1, <5>1, <5>2
      <4> QED BY <4>1, <4>2 DEF BestByClass
    <3> QED BY <2>3, <3>2, <3>3, <3>4
  <2>7. CASE ~(Class(k) > 0 /\ ShouldReplace(rules[k], Class(k)))
    <3>1. selected' = selected BY <1>2, <2>7 DEF Consider
    <3>2. SelectTypeOK' BY <2>1, <2>3, <2>5, <3>1 DEF SelectTypeOK
    <3>3. Noted' BY <2>2, <2>3, <3>1 DEF Noted
    <3>4. CASE Class(k) > 0
      <4>1. /\ selected.idx # 0
            /\ ~(rules[k].priority > selected.priority)
            /\ ~(rules[k].priority = selected.priority /\ Class(k) > selected.class)
        BY <2>7, <3>4 DEF ShouldReplace
      <4>2. selected.idx \in Matching /\ selected.idx \in 1 .. idx
        BY <4>1, <2>4 DEF BestByClass, NoneSelected
      <4>3. /\ selected.priority = rules[selected.idx].priority
            /\ selected.class = Class(selected.idx)
        BY <4>2 DEF Noted
      <4>4. ASSUME NEW j \in Matching' PROVE Better(selected.idx, j)'
        <5>1. CASE j = k
          BY <5>1, <4>1, <4>2, <4>3, <2>1, <2>2, <2>3, <3>1, SMTT(40) DEF Better
        <5>2. CASE j \in Matching
          <6>1. Better(selected.idx, j) BY <5>2, <4>2 DEF BestByClass
          <6> QED BY <6>1, <2>2, <2>3, <3>1 DEF Better
        <5> QED BY <2>4, <3>4, <5>1, <5>2
      <4> QED BY <2>3, <2>4, <3>1, <3>2, <3>3, <3>4, <4>2, <4>4 DEF BestByClass
    <3>5. CASE ~(Class(k) > 0)
      <4>1. Matching' = Matching BY <2>4, <3>5
      <4>2. \A i, j : Better(i, j)' = Better(i, j) BY <2>2, <2>3 DEF Better
      <4> QED BY <2>3, <3>1, <3>2, <3>3, <4>1, <4>2 DEF BestByClass
    <3> QED BY <3>4, <3>5
  <2> QED BY <2>6, <2>7
<1> QED BY <1>1, <1>2 DEF SelectNext

\* For every table of rules, every endpoint and every observed name the loop
\* has, after any number of rules, a match of the highest priority among those it has
\* looked at, and of equal ones an earlier rule has given way only to a more specific match.
THEOREM BestRule == SelectSpec => []SelectedIsBest
<1>1. IndInv => SelectedIsBest
  BY DEF IndInv, BestByClass, Better, SelectedIsBest, MayPrecede
<1> QED BY InitInd, StepInd, <1>1, PTL DEF SelectSpec

\* The loop stays inside the table and notes a rule of it, or none.
THEOREM SelectTypes == SelectSpec => []SelectTypeOK
<1>1. IndInv => SelectTypeOK BY DEF IndInv
<1> QED BY InitInd, StepInd, <1>1, PTL DEF SelectSpec

-----------------------------------------------------------------------------
(* The host-name cache: its invariant.                                     *)

\* What a thread is doing.
IdleType == [op : {"idle"}, name : RawNames \cup {None}]
WalkType == [op : {"walk"}, name : RawNames, port : Ports, items : Seq(Addrs)]
ObserveType ==
  [op : {"observe"}, stamp : 0 .. MaxNow, name : RawNames, port : Ports, items : Seq(Addrs)]
AskType == [op : {"ask"}, stamp : 0 .. MaxNow, key : Keys]
CallType == IdleType \cup WalkType \cup ObserveType \cup AskType

\* Keys are noted without a protocol; what the map holds is the last that was noted.
NotedInv ==
  /\ IsFiniteSet(DOMAIN ideal) /\ DOMAIN ideal \subseteq Keys
  /\ \A k \in DOMAIN ideal : /\ k.protocol = NoProtocol
                             /\ ideal[k] \in Observed /\ ideal[k].at <= now
  /\ DOMAIN cache \subseteq DOMAIN ideal
  /\ \A k \in DOMAIN cache : cache[k] = ideal[k]
  /\ Cardinality(DOMAIN cache) <= MaxEntries

\* A stamp is no later than the clock, and that of an observation no earlier than any the
\* same thread has made before.
StampInv ==
  \A t \in Slots :
    /\ call[t].op \in {"observe", "ask"} => call[t].stamp <= now
    /\ call[t].op = "observe" =>
         /\ call[t].items # <<>> /\ HasEndpoint(Head(call[t].items))
         /\ \A k \in DOMAIN ideal : k.slot = t => ideal[k].at <= call[t].stamp

\* Nothing of the slot that the map still holds is older.
Oldest(g) == \A k \in DOMAIN cache : k.slot = g.slot => ideal[g].at <= ideal[k].at

\* An entry is missing because it is too old, or because there was no room for it.
MissInv ==
  \A g \in DOMAIN ideal \ DOMAIN cache :
    Expired(now, ideal[g]) \/ (Crowded(g) /\ Oldest(g))

CacheInv ==
  /\ now \in 0 .. MaxNow
  /\ call \in [Slots -> CallType]
  /\ NotedInv /\ StampInv /\ MissInv

-----------------------------------------------------------------------------
(* The operators on the map.                                               *)

\* Each kind of call has fields of its own.
LEMMA CallForm ==
  ASSUME NEW c \in CallType
  PROVE  /\ c.op \in {"idle", "walk", "observe", "ask"}
         /\ c.op = "idle" => c \in IdleType
         /\ c.op = "walk" => c \in WalkType
         /\ c.op = "observe" => c \in ObserveType
         /\ c.op = "ask" => c \in AskType
<1>1. CASE c \in IdleType
  BY <1>1 DEF IdleType
<1>2. CASE c \in WalkType
  BY <1>2 DEF WalkType
<1>3. CASE c \in ObserveType
  BY <1>3 DEF ObserveType
<1>4. CASE c \in AskType
  BY <1>4 DEF AskType
<1> QED
  BY <1>1, <1>2, <1>3, <1>4 DEF CallType

\* Among finitely many entries there is a latest: an entry with the fewest above it.
LEMMA NewestExists ==
  ASSUME NEW map, NEW K, IsFiniteSet(K), K # {}, \A k \in K : map[k].at \in Int
  PROVE  Newest(map, K) # {}
<1> DEFINE Above(k) == {g \in K : map[g].at > map[k].at}
           All == {Above(k) : k \in K}
<1>1. FiniteSubsetsOf(K) = SUBSET K
  BY FS_FiniteSubsetsOfFinite
<1>2. All \subseteq FiniteSubsetsOf(K) /\ All # {}
  <2>1. All \subseteq SUBSET K
    OBVIOUS
  <2>2. PICK k \in K : TRUE
    OBVIOUS
  <2>3. Above(k) \in All
    BY <2>2
  <2> HIDE DEF All
  <2> QED
    BY <1>1, <2>1, <2>3
<1>3. IsWellFoundedOn(StrictSubsetOrdering(K), FiniteSubsetsOf(K))
  BY FS_StrictSubsetOrderingWellFounded
<1> HIDE DEF All
<1>4. PICK x \in All : \A y \in All : ~(<<y, x>> \in StrictSubsetOrdering(K))
  BY <1>2, <1>3, WFMin
<1>5. PICK k \in K : x = Above(k)
  BY <1>4 DEF All
<1>6. Above(k) = {}
  <2>1. SUFFICES ASSUME NEW g \in Above(k) PROVE FALSE
    OBVIOUS
  <2>2. Above(g) \subseteq Above(k) /\ g \in Above(k) /\ g \notin Above(g)
    BY <2>1
  <2>3. Above(g) \in All
    BY <2>1 DEF All
  <2>4. Above(g) \in SUBSET K /\ Above(k) \in SUBSET K /\ Above(g) # Above(k)
    BY <2>2
  <2> HIDE DEF Above
  <2>5. <<Above(g), Above(k)>> \in StrictSubsetOrdering(K)
    BY <2>2, <2>4 DEF StrictSubsetOrdering
  <2> QED
    BY <1>4, <1>5, <2>3, <2>5
<1>7. \A g \in K : map[g].at <= map[k].at
  BY <1>6
<1> QED
  BY <1>7 DEF Newest

\* What prune_hostname_observations takes out is too old, or no later than anything that
\* it leaves, with no room left.
LEMMA PruneForm ==
  ASSUME NEW map, IsFiniteSet(DOMAIN map), NEW stamp \in Int,
         \A k \in DOMAIN map : map[k].at \in Int,
         NEW keys \in prune_hostname_observations(map, stamp)
  PROVE  /\ keys \subseteq DOMAIN map /\ IsFiniteSet(keys) /\ Cardinality(keys) <= MaxEntries
         /\ \A g \in DOMAIN map \ keys :
              \/ Expired(stamp, map[g])
              \/ /\ Cardinality(keys) = MaxEntries
                 /\ \A k \in keys : map[g].at <= map[k].at
<1> DEFINE young == {k \in DOMAIN map : ~Expired(stamp, map[k])}
<1>0. MaxEntries \in Nat
  BY HostnameAssumption
<1>1. IsFiniteSet(young) /\ young \subseteq DOMAIN map
  BY FS_Subset
<1>2. CASE Cardinality(young) <= MaxEntries
  <2>1. keys = young
    BY <1>2 DEF prune_hostname_observations
  <2> QED
    BY <1>1, <1>2, <2>1
<1>3. CASE ~(Cardinality(young) <= MaxEntries)
  <2>1. /\ keys \subseteq young /\ Cardinality(keys) = MaxEntries
        /\ \A k \in keys, g \in young \ keys : map[g].at <= map[k].at
    BY <1>3 DEF prune_hostname_observations
  <2>2. IsFiniteSet(keys)
    BY <1>1, <2>1, FS_Subset
  <2> QED
    BY <1>0, <1>1, <2>1, <2>2
<1> QED
  BY <1>2, <1>3

-----------------------------------------------------------------------------
(* The steps.                                                              *)

\* Steps that leave the map alone and let no time pass.
LEMMA QuietKeeps ==
  ASSUME CacheInv, UNCHANGED <<now, cache, ideal>>, call' \in [Slots -> CallType], StampInv'
  PROVE  CacheInv'
BY DEF CacheInv, NotedInv, MissInv, Crowded, Oldest

\* One thread goes on, to something that is no observation.
LEMMA CallGoesOn ==
  ASSUME CacheInv, UNCHANGED <<now, cache, ideal>>, NEW t \in Slots, NEW c \in CallType,
         call' = [call EXCEPT ![t] = c],
         c.op \in {"observe", "ask"} => c.stamp = now,
         c.op = "observe" => c.items # <<>> /\ HasEndpoint(Head(c.items))
  PROVE  CacheInv'
<1>1. /\ call' \in [Slots -> CallType] /\ call'[t] = c
      /\ \A u \in Slots : u # t => call'[u] = call[u]
  BY DEF CacheInv
<1>2. now \in Int
  BY HostnameAssumption DEF CacheInv
<1>3. StampInv'
  <2>1. SUFFICES ASSUME NEW u \in Slots
                 PROVE  /\ call'[u].op \in {"observe", "ask"} => call'[u].stamp <= now
                        /\ call'[u].op = "observe" =>
                             /\ call'[u].items # <<>> /\ HasEndpoint(Head(call'[u].items))
                             /\ \A k \in DOMAIN ideal : k.slot = u => ideal[k].at <= call'[u].stamp
    BY DEF StampInv
  <2>2. CASE u = t
    BY <1>1, <1>2, <2>2 DEF CacheInv, NotedInv
  <2>3. CASE u # t
    BY <1>1, <2>3 DEF CacheInv, StampInv
  <2> QED
    BY <2>2, <2>3
<1> QED
  BY <1>1, <1>3, QuietKeeps

LEMMA ResolveKeeps ==
  ASSUME CacheInv, NEW t \in Slots, Resolve(t)
  PROVE  CacheInv'
<1> USE HostnameAssumption
<1>1. PICK raw \in RawNames, port \in Ports, n \in 1 .. MaxResults :
        \E items \in [1 .. n -> Addrs] :
          /\ Normal[raw] # None
          /\ call' = [call EXCEPT ![t] = [op |-> "walk", name |-> Normal[raw],
                                           port |-> port, items |-> items]]
  BY DEF Resolve
<1>2. PICK items \in [1 .. n -> Addrs] :
        /\ Normal[raw] # None
        /\ call' = [call EXCEPT ![t] = [op |-> "walk", name |-> Normal[raw],
                                         port |-> port, items |-> items]]
  BY <1>1
<1>3. items \in Seq(Addrs)
  <2>1. n \in Nat
    OBVIOUS
  <2> QED
    BY <2>1, IsASeq
<1>4. Normal[raw] \in RawNames
  BY <1>2
<1> DEFINE c == [op |-> "walk", name |-> Normal[raw], port |-> port, items |-> items]
<1>5. c \in WalkType /\ c.op = "walk" /\ call' = [call EXCEPT ![t] = c]
  BY <1>2, <1>3, <1>4 DEF WalkType
<1> HIDE DEF c
<1>6. UNCHANGED <<now, cache, ideal>>
  BY DEF Resolve
<1>7. c \in CallType
  BY <1>5 DEF CallType
<1> QED
  BY <1>5, <1>6, <1>7, CallGoesOn

LEMMA ResolvedKeeps ==
  ASSUME CacheInv, NEW t \in Slots, Resolved(t)
  PROVE  CacheInv'
<1>1. /\ Idle(None) \in CallType /\ Idle(None).op = "idle"
      /\ call' = [call EXCEPT ![t] = Idle(None)] /\ UNCHANGED <<now, cache, ideal>>
  BY DEF Resolved, CallType, IdleType, Idle
<1> QED
  BY <1>1, CallGoesOn

LEMMA StampKeeps ==
  ASSUME CacheInv, NEW t \in Slots, Stamp(t)
  PROVE  CacheInv'
<1> USE HostnameAssumption
<1>1. PICK c \in WalkType : c = call[t] /\ c.items # <<>>
  BY CallForm DEF Stamp, CacheInv
<1>2. /\ c.name \in RawNames /\ c.port \in Ports /\ c.items \in Seq(Addrs)
      /\ c.op = "walk" /\ now \in 0 .. MaxNow
  BY DEF WalkType, CacheInv
<1>3. Tail(c.items) \in Seq(Addrs)
  BY <1>1, <1>2, HeadTailProperties
<1>4. UNCHANGED <<now, cache, ideal>>
  BY DEF Stamp
<1>5. CASE HasEndpoint(Head(c.items)) /\ Normal[c.name] # None
  <2>1. Normal[c.name] \in RawNames
    BY <1>2, <1>5
  <2>2. call' = [call EXCEPT ![t] = [op |-> "observe", stamp |-> now, name |-> Normal[c.name],
                                     port |-> c.port, items |-> c.items]]
    BY <1>1, <1>5 DEF Stamp
  <2> DEFINE d == [op |-> "observe", stamp |-> now, name |-> Normal[c.name],
                   port |-> c.port, items |-> c.items]
  <2>3. /\ d \in ObserveType /\ d.op = "observe" /\ d.stamp = now /\ d.items = c.items
        /\ call' = [call EXCEPT ![t] = d]
    BY <1>2, <2>1, <2>2 DEF ObserveType
  <2> HIDE DEF d
  <2>4. d \in CallType
    BY <2>3 DEF CallType
  <2> QED
    BY <1>1, <1>4, <1>5, <2>3, <2>4, CallGoesOn
<1>6. CASE ~(HasEndpoint(Head(c.items)) /\ Normal[c.name] # None)
  <2>1. call' = [call EXCEPT ![t] = [c EXCEPT !.items = Tail(c.items)]]
    BY <1>1, <1>6 DEF Stamp
  <2>2. /\ [c EXCEPT !.items = Tail(c.items)] \in WalkType
        /\ [c EXCEPT !.items = Tail(c.items)].op = "walk"
    BY <1>3 DEF WalkType
  <2>3. PICK d \in CallType : call' = [call EXCEPT ![t] = d] /\ d.op = "walk"
    BY <2>1, <2>2 DEF CallType
  <2> QED
    BY <1>4, <2>3, CallGoesOn
<1> QED
  BY <1>5, <1>6

LEMMA LookUpKeeps ==
  ASSUME CacheInv, NEW t \in Slots, LookUp(t)
  PROVE  CacheInv'
<1>1. PICK key \in Keys : call' = [call EXCEPT ![t] = [op |-> "ask", stamp |-> now, key |-> key]]
  BY DEF LookUp
<1>2. UNCHANGED <<now, cache, ideal>> /\ now \in 0 .. MaxNow
  BY DEF LookUp, CacheInv
<1> DEFINE c == [op |-> "ask", stamp |-> now, key |-> key]
<1>3. c \in AskType /\ c.op = "ask" /\ c.stamp = now /\ call' = [call EXCEPT ![t] = c]
  BY <1>1, <1>2 DEF AskType
<1> HIDE DEF c
<1>4. c \in CallType
  BY <1>3 DEF CallType
<1> QED
  BY <1>2, <1>3, <1>4, CallGoesOn

\* Time passes.
LEMMA TickKeeps ==
  ASSUME CacheInv, Tick
  PROVE  CacheInv'
<1> USE HostnameAssumption
<1>1. now \in Int /\ now' = now + 1 /\ now' \in 0 .. MaxNow /\ UNCHANGED <<cache, ideal, call>>
  BY DEF Tick, CacheInv
<1>2. \A k \in DOMAIN ideal : ideal[k].at \in Int /\ (Expired(now, ideal[k]) => Expired(now', ideal[k]))
  BY <1>1 DEF CacheInv, NotedInv, Observed, Expired
<1>3. NotedInv'
  BY <1>1, <1>2 DEF CacheInv, NotedInv
<1>4. \A t \in Slots : call[t].op \in {"observe", "ask"} => call[t].stamp \in Int
  BY CallForm DEF CacheInv, ObserveType, AskType
<1>5. StampInv'
  BY <1>1, <1>4 DEF CacheInv, StampInv
<1>6. MissInv'
  BY <1>1, <1>2 DEF CacheInv, MissInv, Crowded, Oldest
<1> QED
  BY <1>1, <1>3, <1>5, <1>6 DEF CacheInv

\* An entry stays crowded out when another is noted, or noted again later.
LEMMA CrowdedStays ==
  ASSUME CacheInv, NEW key, NEW item, ideal' = With(ideal, key, item),
         item.at \in Int, key \in DOMAIN ideal => ideal[key].at <= item.at,
         NEW g \in DOMAIN ideal, g # key, Crowded(g)
  PROVE  Crowded(g)'
<1> DEFINE S == {k \in DOMAIN ideal \ {g} : ideal[k].at >= ideal[g].at}
           N == {k \in DOMAIN ideal' \ {g} : ideal'[k].at >= ideal'[g].at}
<1>1. /\ DOMAIN ideal' = DOMAIN ideal \cup {key} /\ ideal'[key] = item
      /\ \A k \in DOMAIN ideal : k # key => ideal'[k] = ideal[k]
  BY DEF With
<1>2. \A k \in DOMAIN ideal : ideal[k].at \in Int
  BY DEF CacheInv, NotedInv, Observed
<1>3. S \subseteq N
  <2>1. SUFFICES ASSUME NEW k \in S PROVE k \in N
    OBVIOUS
  <2>2. k \in DOMAIN ideal' \ {g} /\ ideal[k].at >= ideal[g].at /\ ideal'[g] = ideal[g]
    BY <1>1, <2>1
  <2>3. ideal'[k].at >= ideal[k].at /\ ideal'[k].at \in Int
    BY <1>1, <1>2, <2>1
  <2>4. ideal'[k].at >= ideal'[g].at
    BY <1>2, <2>1, <2>2, <2>3
  <2> QED
    BY <2>2, <2>4
<1>4. IsFiniteSet(DOMAIN ideal')
  BY <1>1, FS_AddElement DEF CacheInv, NotedInv
<1>5. IsFiniteSet(N)
  <2>1. N \in SUBSET DOMAIN ideal'
    OBVIOUS
  <2> QED
    BY <1>4, <2>1, FS_Subset
<1>6. Cardinality(S) <= Cardinality(N)
  BY <1>3, <1>5, FS_Subset
<1>7. IsFiniteSet(S)
  BY <1>3, <1>5, FS_Subset
<1>8. Cardinality(S) \in Nat /\ Cardinality(N) \in Nat /\ MaxEntries \in Nat
  BY <1>5, <1>7, FS_CardinalityType, HostnameAssumption
<1>9. Cardinality(S) >= MaxEntries
  BY DEF Crowded
<1>10. Cardinality(N) >= MaxEntries
  BY <1>6, <1>8, <1>9
<1> QED
  BY <1>10 DEF Crowded

LEMMA ObserveKeeps ==
  ASSUME CacheInv, NEW t \in Slots, Observe(t)
  PROVE  CacheInv'
<1> USE HostnameAssumption
<1>1. PICK c \in ObserveType : /\ c = call[t] /\ c.op = "observe" /\ c.stamp <= now
                               /\ c.items # <<>> /\ HasEndpoint(Head(c.items))
                               /\ \A k \in DOMAIN ideal : k.slot = t => ideal[k].at <= c.stamp
  BY CallForm DEF Observe, CacheInv, StampInv
<1>2. /\ c.stamp \in 0 .. MaxNow /\ c.name \in RawNames /\ c.port \in Ports
      /\ c.items \in Seq(Addrs) /\ now \in 0 .. MaxNow
  BY DEF ObserveType, CacheInv
<1> DEFINE key == hostname_observation_key(t, Head(c.items), c.port)
           item == [name |-> c.name, at |-> c.stamp]
           map == With(cache, key, item)
<1>3. key \in Keys /\ key.slot = t /\ key.protocol = NoProtocol
  BY <1>1, <1>2 DEF hostname_observation_key, Keys, HasEndpoint, NoProtocol
<1>4. item \in Observed /\ item.at = c.stamp /\ item.at \in Int
  BY <1>2 DEF Observed
<1>5. PICK keys \in prune_hostname_observations(map, c.stamp) : cache' = Only(map, keys)
  BY <1>1 DEF Observe
<1>6. ideal' = With(ideal, key, item) /\ now' = now
  BY <1>1 DEF Observe
<1>7. call' = [call EXCEPT ![t] = [op |-> "walk", name |-> c.name, port |-> c.port,
                                   items |-> Tail(c.items)]]
  BY <1>1 DEF Observe
<1> HIDE DEF key, item
<1>8. /\ DOMAIN ideal' = DOMAIN ideal \cup {key} /\ ideal'[key] = item
      /\ \A k \in DOMAIN ideal : k # key => ideal'[k] = ideal[k]
  BY <1>6 DEF With
<1>9. /\ DOMAIN map = DOMAIN cache \cup {key} /\ map[key] = item
      /\ \A k \in DOMAIN cache : k # key => map[k] = cache[k]
  BY DEF With
<1> HIDE DEF map
<1>10. /\ IsFiniteSet(DOMAIN ideal) /\ IsFiniteSet(DOMAIN cache) /\ DOMAIN cache \subseteq DOMAIN ideal
       /\ \A k \in DOMAIN ideal : ideal[k] \in Observed /\ ideal[k].at <= now
       /\ \A k \in DOMAIN cache : cache[k] = ideal[k]
  BY FS_Subset DEF CacheInv, NotedInv
<1>11. \A k \in DOMAIN map : k \in DOMAIN ideal' /\ map[k] = ideal'[k]
  BY <1>8, <1>9, <1>10
<1>12. \A k \in DOMAIN ideal' : ideal'[k] \in Observed /\ ideal'[k].at <= now
  BY <1>1, <1>4, <1>8, <1>10
<1>13. \A k \in DOMAIN ideal' : ideal'[k].at \in Int
  BY <1>12 DEF Observed
<1>14. IsFiniteSet(DOMAIN ideal') /\ IsFiniteSet(DOMAIN map)
  BY <1>8, <1>9, <1>10, FS_AddElement
<1>15. /\ keys \subseteq DOMAIN map /\ IsFiniteSet(keys) /\ Cardinality(keys) <= MaxEntries
       /\ \A g \in DOMAIN map \ keys :
            \/ Expired(c.stamp, map[g])
            \/ /\ Cardinality(keys) = MaxEntries
               /\ \A k \in keys : map[g].at <= map[k].at
  <2>1. c.stamp \in Int /\ \A k \in DOMAIN map : map[k].at \in Int
    BY <1>2, <1>11, <1>13
  <2> QED
    BY <1>14, <2>1, PruneForm
<1>16. DOMAIN cache' = keys /\ \A k \in keys : cache'[k] = ideal'[k]
  BY <1>5, <1>11, <1>15 DEF Only
<1>17. NotedInv'
  <2>1. DOMAIN ideal' \subseteq Keys /\ \A k \in DOMAIN ideal' : k.protocol = NoProtocol
    BY <1>3, <1>8 DEF CacheInv, NotedInv
  <2>2. DOMAIN cache' \subseteq DOMAIN ideal'
    BY <1>11, <1>15, <1>16
  <2>3. Cardinality(DOMAIN cache') <= MaxEntries /\ \A k \in DOMAIN cache' : cache'[k] = ideal'[k]
    BY <1>15, <1>16
  <2> QED
    BY <1>6, <1>12, <1>14, <2>1, <2>2, <2>3 DEF NotedInv
\* The calls.
<1> DEFINE d == [op |-> "walk", name |-> c.name, port |-> c.port, items |-> Tail(c.items)]
<1>18. d \in WalkType /\ d.op = "walk"
  BY <1>1, <1>2, HeadTailProperties DEF WalkType
<1>19. call' = [call EXCEPT ![t] = d]
  BY <1>7
<1> HIDE DEF d
<1>20. /\ call' \in [Slots -> CallType] /\ call'[t] = d
       /\ \A u \in Slots : u # t => call'[u] = call[u]
  BY <1>18, <1>19 DEF CallType, CacheInv
<1>21. StampInv'
  <2>1. SUFFICES ASSUME NEW u \in Slots
                 PROVE  /\ call'[u].op \in {"observe", "ask"} => call'[u].stamp <= now
                        /\ call'[u].op = "observe" =>
                             /\ call'[u].items # <<>> /\ HasEndpoint(Head(call'[u].items))
                             /\ \A k \in DOMAIN ideal' : k.slot = u => ideal'[k].at <= call'[u].stamp
    BY <1>6 DEF StampInv
  <2>2. CASE u = t
    BY <1>18, <1>20, <2>2
  <2>3. CASE u # t
    <3>1. \A k \in DOMAIN ideal' : k.slot = u => k \in DOMAIN ideal /\ ideal'[k] = ideal[k]
      BY <1>3, <1>8, <2>3
    <3> QED
      BY <1>20, <2>3, <3>1 DEF CacheInv, StampInv
  <2> QED
    BY <2>2, <2>3
\* The entries that are missing.
<1>22. ASSUME NEW g \in DOMAIN ideal' \ DOMAIN cache'
       PROVE  Expired(now, ideal'[g]) \/ (Crowded(g)' /\ Oldest(g)')
  <2>1. CASE g \in DOMAIN map
    <3>1. ideal'[g] = map[g] /\ g \in DOMAIN map \ keys
      BY <1>11, <1>16, <1>22, <2>1
    <3>2. CASE Expired(c.stamp, map[g])
      BY <1>1, <1>2, <1>13, <1>22, <3>1, <3>2 DEF Expired
    <3>3. CASE Cardinality(keys) = MaxEntries /\ \A k \in keys : map[g].at <= map[k].at
      <4>1. \A k \in keys : ideal'[g].at <= ideal'[k].at /\ k \in DOMAIN ideal' /\ k # g
        BY <1>11, <1>15, <3>1, <3>3
      <4> DEFINE N == {k \in DOMAIN ideal' \ {g} : ideal'[k].at >= ideal'[g].at}
      <4>2. keys \subseteq N
        BY <1>13, <4>1
      <4>3. IsFiniteSet(N)
        <5>1. N \in SUBSET DOMAIN ideal'
          OBVIOUS
        <5> QED
          BY <1>14, <5>1, FS_Subset
      <4>4. Cardinality(keys) <= Cardinality(N) /\ Cardinality(N) \in Nat
        BY <4>2, <4>3, FS_Subset, FS_CardinalityType
      <4>5. Cardinality(N) >= MaxEntries
        BY <3>3, <4>4
      <4>6. Crowded(g)'
        BY <4>5 DEF Crowded
      <4>7. Oldest(g)'
        BY <1>16, <4>1 DEF Oldest
      <4> QED
        BY <4>6, <4>7
    <3> QED
      BY <1>15, <3>1, <3>2, <3>3
  <2>2. CASE g \notin DOMAIN map
    <3>1. g \in DOMAIN ideal \ DOMAIN cache /\ g # key /\ ideal'[g] = ideal[g]
      BY <1>8, <1>9, <1>22, <2>2
    <3>2. CASE Expired(now, ideal[g])
      BY <3>1, <3>2
    <3>3. CASE Crowded(g) /\ Oldest(g)
      <4>1. key \in DOMAIN ideal => ideal[key].at <= item.at
        BY <1>1, <1>3, <1>4
      <4>2. Crowded(g)'
        BY <1>4, <1>6, <3>1, <3>3, <4>1, CrowdedStays
      <4>3. ASSUME NEW k \in keys, k.slot = g.slot PROVE ideal'[g].at <= ideal'[k].at
        <5>1. CASE k = key
          BY <1>1, <1>3, <1>4, <1>8, <3>1, <4>3, <5>1
        <5>2. CASE k # key
          <6>1. k \in DOMAIN cache /\ ideal'[k] = ideal[k]
            BY <1>8, <1>9, <1>10, <1>15, <5>2
          <6> QED
            BY <3>1, <3>3, <4>3, <6>1 DEF Oldest
        <5> QED
          BY <5>1, <5>2
      <4>4. Oldest(g)'
        BY <1>16, <4>3 DEF Oldest
      <4> QED
        BY <4>2, <4>4
    <3> QED
      BY <3>1, <3>2, <3>3 DEF CacheInv, MissInv
  <2> QED
    BY <2>1, <2>2
<1>23. MissInv'
  BY <1>6, <1>22 DEF MissInv
<1> QED
  BY <1>2, <1>6, <1>17, <1>20, <1>21, <1>23 DEF CacheInv

\* What an answer does: a name that is not too old is given, an entry that is goes.
Answered(t, c) ==
  /\ c = call[t] /\ c.op = "ask" /\ c.stamp <= now /\ c.stamp \in Int
  /\ Selected(cache, c.key) \subseteq SameAddress(cache, c.key)
  /\ \/ /\ Selected(cache, c.key) = {} /\ call' = [call EXCEPT ![t] = Idle(None)]
        /\ cache' = cache
     \/ \E k \in Selected(cache, c.key) :
          /\ Expired(c.stamp, cache[k]) /\ call' = [call EXCEPT ![t] = Idle(None)]
          /\ cache' = Only(cache, DOMAIN cache \ {k})
     \/ \E k \in Selected(cache, c.key) :
          /\ ~Expired(c.stamp, cache[k])
          /\ call' = [call EXCEPT ![t] = Idle(cache[k].name)] /\ cache' = cache

LEMMA AnswerForm ==
  ASSUME CacheInv, NEW t \in Slots, Answer(t)
  PROVE  \E c \in AskType : Answered(t, c)
<1>1. PICK c \in AskType : c = call[t] /\ c.op = "ask" /\ c.stamp <= now
  BY CallForm DEF Answer, CacheInv, StampInv
<1>2. c.stamp \in Int
  BY HostnameAssumption DEF AskType
<1>3. Selected(cache, c.key) \subseteq SameAddress(cache, c.key)
  BY DEF Selected, SameAddress, Newest
<1>4. Answered(t, c)
  BY <1>1, <1>2, <1>3 DEF Answer, Answered
<1> QED
  BY <1>4

LEMMA AnswerKeeps ==
  ASSUME CacheInv, NEW t \in Slots, Answer(t)
  PROVE  CacheInv'
<1> USE HostnameAssumption
<1>1. PICK c \in AskType : Answered(t, c)
  BY AnswerForm
<1>2. UNCHANGED <<now, ideal>> /\ now \in Int /\ now \in 0 .. MaxNow
  BY DEF Answer, CacheInv
<1>3. \A k \in DOMAIN cache : /\ k \in DOMAIN ideal /\ cache[k] = ideal[k]
                              /\ cache[k].name \in RawNames /\ cache[k].at \in Int
  BY DEF CacheInv, NotedInv, Observed
<1>4. Idle(None) \in IdleType /\ \A n \in RawNames : Idle(n) \in IdleType
  BY DEF Idle, IdleType
<1>5. SameAddress(cache, c.key) \subseteq DOMAIN cache
  BY DEF SameAddress
<1>6. PICK d \in IdleType : call' = [call EXCEPT ![t] = d]
  BY <1>1, <1>3, <1>4, <1>5 DEF Answered
<1>7. d.op = "idle" /\ d \in CallType
  BY DEF IdleType, CallType
<1>8. CASE cache' = cache
  BY <1>2, <1>6, <1>7, <1>8, CallGoesOn
<1>9. CASE cache' # cache
  <2>1. PICK k \in DOMAIN cache : /\ Expired(c.stamp, cache[k])
                                  /\ cache' = Only(cache, DOMAIN cache \ {k})
    BY <1>1, <1>5, <1>9 DEF Answered
  <2>2. DOMAIN cache' = DOMAIN cache \ {k} /\ \A g \in DOMAIN cache' : cache'[g] = cache[g]
    BY <2>1 DEF Only
  <2>3. IsFiniteSet(DOMAIN cache)
    BY FS_Subset DEF CacheInv, NotedInv
  <2>4. Cardinality(DOMAIN cache') <= MaxEntries
    <3>1. /\ Cardinality(DOMAIN cache') <= Cardinality(DOMAIN cache)
          /\ IsFiniteSet(DOMAIN cache')
      BY <2>2, <2>3, FS_Subset
    <3>2. Cardinality(DOMAIN cache') \in Nat /\ Cardinality(DOMAIN cache) \in Nat
      BY <2>3, <3>1, FS_CardinalityType
    <3> QED
      BY <3>1, <3>2 DEF CacheInv, NotedInv
  <2>5. NotedInv'
    BY <1>2, <1>3, <2>2, <2>4 DEF CacheInv, NotedInv
  <2>6. Expired(now, ideal[k])
    BY <1>1, <1>2, <1>3, <2>1 DEF Expired, Answered
  <2>7. \A g \in DOMAIN ideal : (Crowded(g) => Crowded(g)') /\ (Oldest(g) => Oldest(g)')
    BY <1>2, <2>2 DEF Crowded, Oldest
  <2>8. MissInv'
    BY <1>2, <2>2, <2>6, <2>7 DEF CacheInv, MissInv
  <2>9. /\ call' \in [Slots -> CallType] /\ call'[t] = d
        /\ \A u \in Slots : u # t => call'[u] = call[u]
    BY <1>6, <1>7 DEF CacheInv
  <2>10. StampInv'
    <3>1. SUFFICES ASSUME NEW u \in Slots
                   PROVE  /\ call'[u].op \in {"observe", "ask"} => call'[u].stamp <= now
                          /\ call'[u].op = "observe" =>
                               /\ call'[u].items # <<>> /\ HasEndpoint(Head(call'[u].items))
                               /\ \A g \in DOMAIN ideal : g.slot = u => ideal[g].at <= call'[u].stamp
      BY <1>2 DEF StampInv
    <3>2. CASE u = t
      BY <1>7, <2>9, <3>2
    <3>3. CASE u # t
      BY <2>9, <3>3 DEF CacheInv, StampInv
    <3> QED
      BY <3>2, <3>3
  <2> QED
    BY <1>2, <2>5, <2>8, <2>9, <2>10 DEF CacheInv
<1> QED
  BY <1>8, <1>9

LEMMA CacheInvInit == CacheInit => CacheInv
<1> SUFFICES ASSUME CacheInit PROVE CacheInv
  OBVIOUS
<1> USE HostnameAssumption
<1>1. DOMAIN cache = {} /\ DOMAIN ideal = {} /\ now = 0
  BY DEF CacheInit
<1>2. IsFiniteSet({}) /\ Cardinality({}) = 0
  BY FS_EmptySet
<1>3. NotedInv /\ MissInv
  BY <1>1, <1>2 DEF NotedInv, MissInv
<1>4. Idle(None) \in CallType /\ Idle(None).op = "idle"
  BY DEF Idle, CallType, IdleType
<1>5. call \in [Slots -> CallType] /\ \A t \in Slots : call[t].op = "idle"
  BY <1>4 DEF CacheInit
<1>6. StampInv
  BY <1>5 DEF StampInv
<1> QED
  BY <1>1, <1>3, <1>5, <1>6 DEF CacheInv

LEMMA CacheInvNext == CacheInv /\ [CacheNext]_CacheVars => CacheInv'
<1> SUFFICES ASSUME CacheInv, [CacheNext]_CacheVars PROVE CacheInv'
  OBVIOUS
<1>1. CASE UNCHANGED CacheVars
  <2>1. StampInv'
    BY <1>1 DEF CacheVars, CacheInv, StampInv
  <2> QED
    BY <1>1, <2>1, QuietKeeps DEF CacheVars, CacheInv
<1>2. CASE Tick
  BY <1>2, TickKeeps
<1>3. ASSUME NEW t \in Slots,
             Resolve(t) \/ Resolved(t) \/ Stamp(t) \/ Observe(t) \/ LookUp(t) \/ Answer(t)
      PROVE  CacheInv'
  BY <1>3, ResolveKeeps, ResolvedKeeps, StampKeeps, ObserveKeeps, LookUpKeeps, AnswerKeeps
<1> QED
  BY <1>1, <1>2, <1>3 DEF CacheNext

LEMMA CacheInvAlways == CacheSpec => []CacheInv
<1> QED
  BY CacheInvInit, CacheInvNext, PTL DEF CacheSpec

\* Only an answer ends a lookup.
LEMMA AnswersByAnswer ==
  ASSUME CacheInv, [CacheNext]_CacheVars, NEW t \in Slots, Answers(t)
  PROVE  Answer(t)
<1>1. call[t].op = "ask" /\ call'[t].op = "idle" /\ call \in [Slots -> CallType]
  BY DEF Answers, CacheInv
<1>2. CASE UNCHANGED CacheVars \/ Tick
  BY <1>1, <1>2 DEF CacheVars, Tick
<1>3. ASSUME NEW u \in Slots,
             Resolve(u) \/ Resolved(u) \/ Stamp(u) \/ Observe(u) \/ LookUp(u) \/ Answer(u)
      PROVE  Answer(t)
  <2>1. CASE u = t
    BY <1>1, <1>3, <2>1 DEF Resolve, Resolved, Stamp, Observe, LookUp
  <2>2. CASE u # t
    <3>1. \E c : call' = [call EXCEPT ![u] = c]
      BY <1>3 DEF Resolve, Resolved, Stamp, Observe, LookUp, Answer
    <3> QED
      BY <1>1, <2>2, <3>1
  <2> QED
    BY <2>1, <2>2
<1> QED
  BY <1>2, <1>3 DEF CacheNext

\* A missing entry of the address is too old, or crowded out and no later than what is held.
LEMMA MissingForm ==
  ASSUME CacheInv, NEW key, NEW g \in SameAddress(ideal, key), g \notin DOMAIN cache
  PROVE  Expired(now, ideal[g])
         \/ (Crowded(g) /\ \A k \in SameAddress(cache, key) : ideal[g].at <= ideal[k].at)
BY DEF CacheInv, MissInv, Oldest, SameAddress

\* The map holds at most HOSTNAME_OBSERVATION_MAX_ENTRIES entries, each for an endpoint that
\* getaddrinfo() noted and no later than the clock, whatever threads note and look up.
THEOREM CacheBounded == CacheSpec => []CacheTypeOK
<1>1. CacheInv => CacheTypeOK
  <2>1. SUFFICES ASSUME CacheInv PROVE CacheTypeOK
    OBVIOUS
  <2>2. \A t \in Slots : call[t].op \in {"idle", "walk", "observe", "ask"}
    BY <2>1, CallForm DEF CacheInv
  <2> QED
    BY <2>1, <2>2 DEF CacheInv, NotedInv, CacheTypeOK
<1> QED
  BY <1>1, CacheInvAlways, PTL

LEMMA NameStep ==
  ASSUME CacheInv, NEW t \in Slots, Answer(t), call'[t].name # None
  PROVE  \E k \in SameAddress(ideal, call[t].key) :
           /\ call'[t].name = ideal[k].name
           /\ ~Expired(call[t].stamp, ideal[k])
           /\ \/ k = call[t].key
              \/ \A g \in SameAddress(ideal, call[t].key) :
                   ideal[g].at <= ideal[k].at \/ Expired(now, ideal[g])
<1>0. PICK c \in AskType : Answered(t, c)
  BY AnswerForm
<1>1. /\ c = call[t]
      /\ Selected(cache, c.key) \subseteq SameAddress(cache, c.key)
      /\ \/ call' = [call EXCEPT ![t] = Idle(None)]
         \/ \E k \in Selected(cache, c.key) :
              ~Expired(c.stamp, cache[k]) /\ call' = [call EXCEPT ![t] = Idle(cache[k].name)]
  BY <1>0 DEF Answered
<1>2. \A n : call' = [call EXCEPT ![t] = Idle(n)] => call'[t].name = n
  BY DEF CacheInv, Idle
<1>3. PICK k \in Selected(cache, c.key) : ~Expired(c.stamp, cache[k]) /\ call'[t].name = cache[k].name
  BY <1>1, <1>2
<1>4. /\ k \in SameAddress(cache, c.key) /\ k \in DOMAIN cache /\ k \in SameAddress(ideal, c.key)
      /\ cache[k] = ideal[k]
  BY <1>1, <1>3 DEF SameAddress, CacheInv, NotedInv
<1>5. ASSUME k # c.key, NEW g \in SameAddress(ideal, c.key)
      PROVE  ideal[g].at <= ideal[k].at \/ Expired(now, ideal[g])
  <2>1. CASE g \in DOMAIN cache
    <3>1. g \in SameAddress(cache, c.key) /\ cache[g] = ideal[g]
      BY <1>5, <2>1 DEF SameAddress, CacheInv, NotedInv
    <3>2. k \in Newest(cache, SameAddress(cache, c.key))
      BY <1>3, <1>5 DEF Selected
    <3> QED
      BY <1>4, <3>1, <3>2 DEF Newest
  <2>2. CASE g \notin DOMAIN cache
    BY <1>4, <1>5, <2>2, MissingForm
  <2> QED
    BY <2>1, <2>2
<1> QED
  BY <1>1, <1>3, <1>4, <1>5

\* observed_hostname_for_slot_endpoint answers with what the slot noted for the endpoint, or
\* last for the address, for any number of threads, entries and addresses.
THEOREM NamesCurrent == CacheSpec => NameCurrent
<1>1. CacheInv /\ [CacheNext]_CacheVars =>
        [\A t \in Slots :
           LET c == call[t] IN
           Answers(t) /\ call'[t].name # None =>
             \E k \in SameAddress(ideal, c.key) :
               /\ call'[t].name = ideal[k].name
               /\ ~Expired(c.stamp, ideal[k])
               /\ \/ k = c.key
                  \/ \A g \in SameAddress(ideal, c.key) :
                       ideal[g].at <= ideal[k].at \/ Expired(now, ideal[g])]_CacheVars
  BY AnswersByAnswer, NameStep
<1> QED
  BY <1>1, CacheInvAlways, PTL DEF CacheSpec, NameCurrent

LEMMA MissStep ==
  ASSUME CacheInv, NEW t \in Slots, Answer(t), call'[t].name = None,
         NEW k \in SameAddress(ideal, call[t].key)
  PROVE  \/ Expired(now, ideal[k])
         \/ Crowded(k)
         \/ call[t].key.protocol = NoProtocol /\ Hidden(call[t])
<1> USE HostnameAssumption
<1>0. PICK c \in AskType : Answered(t, c)
  BY AnswerForm
<1>1. /\ c = call[t] /\ c.stamp <= now /\ c.stamp \in Int
      /\ Selected(cache, c.key) \subseteq SameAddress(cache, c.key)
      /\ \/ Selected(cache, c.key) = {}
         \/ \E g \in Selected(cache, c.key) : Expired(c.stamp, cache[g])
         \/ \E g \in Selected(cache, c.key) : call' = [call EXCEPT ![t] = Idle(cache[g].name)]
  BY <1>0 DEF Answered
<1>2. \A n : call' = [call EXCEPT ![t] = Idle(n)] => call'[t].name = n
  BY DEF CacheInv, Idle
<1>3. /\ now \in Int /\ IsFiniteSet(DOMAIN ideal) /\ \A g \in DOMAIN ideal : ideal[g].at \in Int
      /\ \A g \in DOMAIN cache : /\ cache[g] = ideal[g] /\ g \in DOMAIN ideal
                                 /\ cache[g].name \in RawNames /\ g.protocol = NoProtocol
  BY DEF CacheInv, NotedInv, Observed
<1>4. SameAddress(cache, c.key) \subseteq DOMAIN cache
  BY DEF SameAddress
<1>5. Selected(cache, c.key) = {} \/ \E g \in Selected(cache, c.key) : Expired(c.stamp, cache[g])
  BY <1>1, <1>2, <1>3, <1>4
<1>6. CASE k \notin DOMAIN cache
  BY <1>1, <1>6, MissingForm
<1>7. CASE k \in DOMAIN cache
  <2>1. k \in SameAddress(cache, c.key)
    BY <1>1, <1>7 DEF SameAddress
  <2>2. CASE c.key \in DOMAIN cache
    <3>1. Expired(c.stamp, cache[c.key])
      BY <1>5, <2>2 DEF Selected
    <3> QED
      BY <1>1, <1>3, <2>2, <3>1 DEF Hidden
  <2>3. CASE c.key \notin DOMAIN cache
    <3>1. Selected(cache, c.key) = Newest(cache, SameAddress(cache, c.key))
      BY <2>3 DEF Selected
    <3>2. IsFiniteSet(SameAddress(cache, c.key))
      <4>1. SameAddress(cache, c.key) \in SUBSET DOMAIN ideal
        BY <1>3, <1>4
      <4> QED
        BY <1>3, <4>1, FS_Subset
    <3>3. \A g \in SameAddress(cache, c.key) : cache[g].at \in Int
      BY <1>3, <1>4
    <3>4. Newest(cache, SameAddress(cache, c.key)) # {}
      BY <2>1, <3>2, <3>3, NewestExists
    <3>5. PICK g \in Newest(cache, SameAddress(cache, c.key)) : Expired(c.stamp, cache[g])
      BY <1>5, <3>1, <3>4
    <3>6. cache[k].at <= cache[g].at /\ g \in DOMAIN cache
      BY <1>4, <2>1, <3>5 DEF Newest
    <3>7. Expired(now, ideal[k])
      BY <1>1, <1>3, <1>7, <3>5, <3>6 DEF Expired
    <3> QED
      BY <3>7
  <2> QED
    BY <2>2, <2>3
<1> QED
  BY <1>6, <1>7

\* A lookup that finds no name has none to find: what the slot noted for the address is too
\* old, was crowded out by enough later notes, or is hidden by an old note of a raw socket.
THEOREM MissesJustified == CacheSpec => MissJustified
<1>1. CacheInv /\ [CacheNext]_CacheVars =>
        [\A t \in Slots :
           Answers(t) /\ call'[t].name = None =>
             \A k \in SameAddress(ideal, call[t].key) :
               \/ Expired(now, ideal[k])
               \/ Crowded(k)
               \/ call[t].key.protocol = NoProtocol /\ Hidden(call[t])]_CacheVars
  BY AnswersByAnswer, MissStep
<1> QED
  BY <1>1, CacheInvAlways, PTL DEF CacheSpec, MissJustified

-----------------------------------------------------------------------------
(* Record and replay: the invariant.                                       *)

SessionType == [up : BOOLEAN, path : BOOLEAN, fail_fast : BOOLEAN, events : Seq(Events)]
JobType == [site : Sites \cup {"none"}, event : Events \cup {NoEvent}]
PartType == [event : Events, part : {"head", "body"}]
MadeType == {m \in [site : Sites, decision : Decisions] : m.decision \in Possible(m.site)}
ReplyType == [site : Sites, decision : [kind : Kinds, value : Nat]]
StepType == {"idle", "lock", "head", "body"}

RecordTypes ==
  /\ mode \in {"Record", "Replay"} /\ home \in [Threads -> Processes]
  /\ session \in [Processes -> SessionType]
  /\ pc \in [Threads -> StepType] /\ job \in [Threads -> JobType]
  /\ file \in Seq(PartType) /\ made \in Seq(MadeType)
  /\ answers \in [Processes -> Seq(ReplyType)] /\ failed \in BOOLEAN

Writing(t) == pc[t] \in {"head", "body"}

\* A thread at work has a session; one that writes has a file, an event and the lock.
WriteInv ==
  /\ \A t \in Threads : pc[t] # "idle" => session[home[t]].up
  /\ \A t \in Threads : pc[t] = "lock" => job[t].site \in Sites
  /\ \A t \in Threads :
       Writing(t) => mode = "Record" /\ session[home[t]].path /\ job[t].event \in Events
  /\ \A t, u \in Threads : Writing(t) /\ Writing(u) /\ home[t] = home[u] => t = u

\* The event of the n-th decision.
EventOf(n) == from_decision(made[n].site, made[n].decision)

\* The file has both parts of every decision's event, in order, but for those that the one
\* thread that writes has yet to write, or a crash has cost.
FileInv ==
  /\ mode = "Record" /\ made # <<>> => \A t \in Threads : session[home[t]].up
  /\ Len(file) \in {2 * Len(made) - 2, 2 * Len(made) - 1, 2 * Len(made)}
  /\ \A n \in 1 .. Len(made) :
       /\ 2 * n - 1 <= Len(file) => file[2 * n - 1] = [event |-> EventOf(n), part |-> "head"]
       /\ 2 * n <= Len(file) => file[2 * n] = [event |-> EventOf(n), part |-> "body"]
  /\ mode = "Record" /\ (\A t \in Threads : ~Writing(t)) => Len(file) = 2 * Len(made)
  /\ \A t \in Threads :
       Writing(t) => /\ made # <<>> /\ job[t].event = EventOf(Len(made))
                     /\ Len(file) = 2 * Len(made) - (IF pc[t] = "head" THEN 2 ELSE 1)

\* The first i questions of a process are those of the recording.
Agrees(p, i) == i <= Len(Loadable) /\ \A j \in 1 .. i : answers[p][j].site = Loadable[j].site

\* A session has the events left that come after those it has answered with, or has failed
\* for good.
Faithful(p) ==
  /\ \A i \in DOMAIN answers[p] :
       answers[p][i].decision = IF Agrees(p, i) THEN to_decision(Loadable[i]) ELSE Fail
  /\ ~session[p].up => answers[p] = <<>> /\ ~session[p].fail_fast
  /\ session[p].up /\ ~session[p].fail_fast =>
       /\ Agrees(p, Len(answers[p]))
       /\ Len(session[p].events) = Len(Loadable) - Len(answers[p])
       /\ \A i \in 1 .. Len(session[p].events) :
            session[p].events[i] = Loadable[Len(answers[p]) + i]
  /\ session[p].fail_fast => ~Agrees(p, Len(answers[p]))

ReplayInv ==
  /\ mode = "Record" => \A p \in Processes : /\ answers[p] = <<>> /\ session[p].events = <<>>
                                             /\ ~session[p].fail_fast
  /\ mode = "Replay" => \A p \in Processes : Faithful(p)

RecordInv ==
  /\ RecordTypes /\ WriteInv /\ ReplayInv
  /\ OneProcess /\ ~failed => FileInv

-----------------------------------------------------------------------------
(* Events and the recording.                                               *)

LEMMA EventForm ==
  ASSUME NEW s \in Sites, NEW d \in Decisions
  PROVE  /\ from_decision(s, d) \in Events
         /\ from_decision(s, d).site = s
         /\ d.kind # "Mutate" => Effect(to_decision(from_decision(s, d))) = Effect(d)
<1>1. from_decision(s, d) \in Events
  BY DEF Events
<1>2. from_decision(s, d).site = s
  BY DEF from_decision
<1>3. ASSUME d.kind # "Mutate"
      PROVE  Effect(to_decision(from_decision(s, d))) = Effect(d)
  <2>1. PICK v : v = (IF d.kind \in Numbered THEN d.value ELSE 0)
    OBVIOUS
  <2>2. to_decision(from_decision(s, d)) = [kind |-> d.kind, value |-> v]
    BY <1>3, <2>1 DEF from_decision, to_decision
  <2>3. Effect(to_decision(from_decision(s, d)))
          = [kind |-> d.kind, value |-> IF d.kind \in Numbered THEN v ELSE 0]
    BY <2>2 DEF Effect
  <2> QED
    BY <2>1, <2>3 DEF Effect
<1> QED
  BY <1>1, <1>2, <1>3

LEMMA PossibleForm ==
  ASSUME NEW s \in Sites, NEW d \in Possible(s)
  PROVE  /\ d \in Decisions
         /\ [site |-> s, decision |-> d] \in MadeType
         /\ s \notin MutationSites => d.kind # "Mutate"
BY DEF Possible, MadeType

\* What an event replays as is a decision.
LEMMA ReplayForm ==
  ASSUME NEW e \in Events
  PROVE  e.site \in Sites /\ to_decision(e) \in [kind : Kinds, value : Nat]
<1>1. PICK s \in Sites, d \in Decisions : e = from_decision(s, d)
  BY DEF Events
<1>2. d \in [kind : Kinds, value : Nat]
  BY RecordReplayAssumption
<1>3. e = [site |-> s, kind |-> d.kind, value |-> IF d.kind \in Numbered THEN d.value ELSE 0]
  BY <1>1 DEF from_decision
<1>4. e.kind \in Kinds /\ e.value \in Nat /\ e.site \in Sites
  BY <1>2, <1>3
<1>5. [kind |-> e.kind, value |-> e.value] \in [kind : Kinds, value : Nat]
  BY <1>4
<1>6. [kind |-> "Continue", value |-> 0] \in [kind : Kinds, value : Nat]
  BY DEF Kinds
<1> QED
  BY <1>4, <1>5, <1>6 DEF to_decision

\* A recording that is read is a sequence of events, from the second parts of its members.
LEMMA LoadForm ==
  ASSUME NEW f \in Seq(PartType)
  PROVE  /\ load_replay_events(f) \in Seq(Events)
         /\ 2 * Len(load_replay_events(f)) <= Len(f)
         /\ \A i \in 1 .. Len(load_replay_events(f)) : load_replay_events(f)[i] = f[2 * i].event
<1> DEFINE h == Len(f) \div 2
           S == {k \in 1 .. h : Whole(f, k)}
           n == Cardinality(S)
<1>1. Len(f) \in Nat /\ h \in Nat /\ 2 * h <= Len(f)
  BY LenProperties
<1>2. IsFiniteSet(1 .. h) /\ Cardinality(1 .. h) = h
  BY <1>1, FS_Interval
<1>3. S \subseteq 1 .. h
  OBVIOUS
<1>4. n \in Nat /\ n <= h
  BY <1>1, <1>2, <1>3, FS_Subset, FS_CardinalityType
<1>5. load_replay_events(f) = [i \in 1 .. n |-> f[2 * i].event]
  BY DEF load_replay_events
<1> HIDE DEF n
<1>6. \A i \in 1 .. n : f[2 * i].event \in Events
  <2> SUFFICES ASSUME NEW i \in 1 .. n PROVE f[2 * i].event \in Events
    OBVIOUS
  <2>1. 2 * i \in 1 .. Len(f)
    BY <1>1, <1>4
  <2>2. f[2 * i] \in PartType
    BY <2>1, ElementOfSeq
  <2> QED
    BY <2>2 DEF PartType
<1>7. load_replay_events(f) \in Seq(Events) /\ Len(load_replay_events(f)) = n
  BY <1>4, <1>5, <1>6
<1>8. 2 * n <= Len(f)
  BY <1>1, <1>4
<1> QED
  BY <1>5, <1>7, <1>8

\* A recording that is whole is read to its end.
LEMMA LoadWhole ==
  ASSUME NEW f \in Seq(PartType), NEW m \in Nat, Len(f) \in {2 * m, 2 * m + 1}, Whole(f, m)
  PROVE  Len(load_replay_events(f)) = m
<1> DEFINE S == {k \in 1 .. Len(f) \div 2 : Whole(f, k)}
<1>1. Len(f) \div 2 = m
  BY Z3
<1>2. \A k \in 1 .. m : Whole(f, k)
  BY DEF Whole
<1>3. S = 1 .. m
  BY <1>1, <1>2
<1>4. Cardinality(S) = m
  <2>1. Cardinality(1 .. m) = IF 1 > m THEN 0 ELSE m - 1 + 1
    BY FS_Interval, Z3
  <2>2. Cardinality(1 .. m) = m
    BY <2>1
  <2> QED
    BY <1>3, <2>2, Zenon
<1>5. load_replay_events(f) = [i \in 1 .. m |-> f[2 * i].event]
  BY <1>4 DEF load_replay_events
<1> QED
  BY <1>5

-----------------------------------------------------------------------------
(* The steps keep the types.                                               *)

LEMMA NoSessionForm == NoSession \in SessionType /\ NoJob \in JobType
BY DEF NoSession, NoJob, SessionType, JobType

\* The first use of a session opens it, and no other changes.
LEMMA OpenForm ==
  ASSUME RecordTypes, NEW p \in Processes, Open(p)
  PROVE  /\ session' \in [Processes -> SessionType] /\ file' \in Seq(PartType)
         /\ session'[p].up
         /\ \A q \in Processes : session[q].up \/ q # p => session'[q] = session[q]
         /\ session[p].up \/ mode = "Replay" => file' = file
         /\ file' \in {file, <<>>}
         /\ ~session[p].up => /\ ~session'[p].fail_fast
                              /\ session'[p].events = IF mode = "Replay" THEN Loadable ELSE <<>>
<1>1. session \in [Processes -> SessionType] /\ file \in Seq(PartType)
  BY DEF RecordTypes
<1>2. CASE session[p].up
  <2>1. session' = session /\ file' = file
    BY <1>2 DEF Open
  <2> QED
    BY <1>1, <1>2, <2>1
<1>3. CASE ~session[p].up /\ mode = "Replay"
  <2> DEFINE s == [up |-> TRUE, path |-> FALSE, fail_fast |-> FALSE, events |-> Loadable]
  <2>1. session' = [session EXCEPT ![p] = s] /\ file' = file
    BY <1>3 DEF Open, Session, Loadable
  <2>2. Loadable \in Seq(Events)
    BY <1>1, LoadForm DEF Loadable
  <2>3. s \in SessionType
    BY <2>2 DEF SessionType
  <2> QED
    BY <1>1, <1>3, <2>1, <2>3
<1>4. CASE ~session[p].up /\ mode # "Replay"
  <2>1. PICK ok \in {TRUE, ~MayFail} :
          /\ session' = [session EXCEPT ![p] = Session(ok, FALSE, <<>>)]
          /\ file' = IF ok THEN <<>> ELSE file
    BY <1>4 DEF Open
  <2> DEFINE s == [up |-> TRUE, path |-> ok, fail_fast |-> FALSE, events |-> <<>>]
  <2>2. session' = [session EXCEPT ![p] = s]
    BY <2>1 DEF Session
  <2>3. ok \in BOOLEAN
    BY RecordReplayAssumption
  <2>4. s \in SessionType
    BY <2>3 DEF SessionType
  <2>5. file' \in {file, <<>>} /\ file' \in Seq(PartType)
    BY <1>1, <2>1
  <2> QED
    BY <1>1, <1>4, <2>2, <2>4, <2>5
<1> QED
  BY <1>2, <1>3, <1>4

LEMMA ReturnType ==
  ASSUME RecordTypes, NEW t \in Threads, Return(t)
  PROVE  pc' \in [Threads -> StepType] /\ job' \in [Threads -> JobType]
BY NoSessionForm DEF RecordTypes, Return, StepType

LEMMA AskTypes ==
  ASSUME RecordTypes, NEW t \in Threads, Ask(t)
  PROVE  RecordTypes'
<1>1. home[t] \in Processes
  BY DEF RecordTypes
<1>2. session' \in [Processes -> SessionType] /\ file' \in Seq(PartType)
  BY <1>1, OpenForm DEF Ask
<1>3. PICK s \in Sites : job' = [job EXCEPT ![t] = [NoJob EXCEPT !.site = s]]
  BY DEF Ask
<1>4. [NoJob EXCEPT !.site = s] \in JobType
  BY DEF NoJob, JobType
<1>5. job' \in [Threads -> JobType]
  BY <1>3, <1>4 DEF RecordTypes
<1>6. pc' \in [Threads -> StepType]
  BY DEF Ask, RecordTypes, StepType
<1> QED
  BY <1>2, <1>5, <1>6 DEF Ask, RecordTypes

LEMMA RecordKeepsTypes ==
  ASSUME RecordTypes, WriteInv, NEW t \in Threads, Record(t)
  PROVE  RecordTypes'
<1>1. job[t].site \in Sites /\ job[t] \in JobType
  BY DEF Record, WriteInv, RecordTypes
<1>2. PICK d \in Possible(job[t].site) :
        /\ made' = Append(made, [site |-> job[t].site, decision |-> d])
        /\ IF session[home[t]].path
           THEN /\ pc' = [pc EXCEPT ![t] = "head"]
                /\ job' = [job EXCEPT ![t].event = from_decision(job[t].site, d)]
                /\ UNCHANGED failed
           ELSE /\ Return(t)
                /\ failed' = TRUE
  BY DEF Record
<1>3. made' \in Seq(MadeType)
  <2>1. [site |-> job[t].site, decision |-> d] \in MadeType
    BY <1>1, PossibleForm
  <2> QED
    BY <1>2, <2>1 DEF RecordTypes
<1>4. pc' \in [Threads -> StepType] /\ job' \in [Threads -> JobType] /\ failed' \in BOOLEAN
  <2>1. CASE session[home[t]].path
    <3>1. from_decision(job[t].site, d) \in Events
      BY <1>1, EventForm, PossibleForm
    <3>2. [job[t] EXCEPT !.event = from_decision(job[t].site, d)] \in JobType
      BY <1>1, <3>1 DEF JobType
    <3>3. job' = [job EXCEPT ![t] = [job[t] EXCEPT !.event = from_decision(job[t].site, d)]]
      BY <1>2, <2>1
    <3> QED
      BY <1>2, <2>1, <3>2, <3>3 DEF RecordTypes, StepType
  <2>2. CASE ~session[home[t]].path
    BY <1>2, <2>2, ReturnType
  <2> QED
    BY <2>1, <2>2
<1> QED
  BY <1>3, <1>4 DEF Record, RecordTypes

LEMMA WriteTypes ==
  ASSUME RecordTypes, WriteInv, NEW t \in Threads, Write(t)
  PROVE  RecordTypes'
<1>1. job[t].event \in Events
  BY DEF Write, WriteInv, Writing
<1>2. [event |-> job[t].event, part |-> pc[t]] \in PartType
  BY <1>1 DEF Write, PartType
<1>3. file' \in Seq(PartType)
  BY <1>2 DEF Write, RecordTypes
<1>4. pc' \in [Threads -> StepType] /\ job' \in [Threads -> JobType]
  <2>1. CASE pc[t] = "head"
    BY <2>1 DEF Write, RecordTypes, StepType
  <2>2. CASE pc[t] # "head"
    BY <2>2, ReturnType DEF Write
  <2> QED
    BY <2>1, <2>2
<1> QED
  BY <1>3, <1>4 DEF Write, RecordTypes

LEMMA WriteFailsTypes ==
  ASSUME RecordTypes, NEW t \in Threads, WriteFails(t)
  PROVE  RecordTypes'
BY ReturnType DEF WriteFails, RecordTypes

\* Whether a replay finds its event, what it leaves of the recording, and what it answers.
Found(t) ==
  LET s == session[home[t]]
  IN  ~s.fail_fast /\ s.events # <<>> /\ Head(s.events).site = job[t].site
Left(t) ==
  LET s == session[home[t]]
  IN  IF s.fail_fast \/ s.events = <<>> THEN s.events ELSE Tail(s.events)
Reply(t) ==
  [site |-> job[t].site,
   decision |-> IF Found(t) THEN to_decision(Head(session[home[t]].events)) ELSE Fail]

LEMMA ReplayStep ==
  ASSUME RecordTypes, WriteInv, NEW t \in Threads, Replay(t)
  PROVE  /\ Left(t) \in Seq(Events) /\ Reply(t) \in ReplyType /\ Found(t) \in BOOLEAN
         /\ session' = [session EXCEPT ![home[t]] =
                                      Session(session[home[t]].path, ~Found(t), Left(t))]
         /\ answers' = [answers EXCEPT ![home[t]] = Append(answers[home[t]], Reply(t))]
<1> DEFINE s == session[home[t]]
<1>1. /\ home[t] \in Processes /\ job[t].site \in Sites
      /\ s.path \in BOOLEAN /\ s.fail_fast \in BOOLEAN /\ s.events \in Seq(Events)
  BY DEF RecordTypes, WriteInv, Replay, SessionType
<1>2. Left(t) \in Seq(Events)
  <2>1. s.events # <<>> => Tail(s.events) \in Seq(Events)
    BY <1>1, HeadTailProperties
  <2> QED
    BY <1>1, <2>1 DEF Left
<1>3. Reply(t) \in ReplyType
  <2>1. Found(t) => Head(s.events) \in Events
    BY <1>1, HeadTailProperties DEF Found
  <2>2. Found(t) => to_decision(Head(s.events)) \in [kind : Kinds, value : Nat]
    BY <2>1, ReplayForm
  <2>3. Fail \in [kind : Kinds, value : Nat]
    BY DEF Fail, Kinds
  <2>4. (IF Found(t) THEN to_decision(Head(s.events)) ELSE Fail) \in [kind : Kinds, value : Nat]
    BY <2>2, <2>3
  <2> QED
    BY <1>1, <2>4 DEF ReplyType, Reply
<1>4. session' = [session EXCEPT ![home[t]] =
        Session(s.path, ~Found(t) /\ (s.fail_fast \/ TRUE), Left(t))]
  BY DEF Replay, Diverged, Found, Left
<1>5. session' = [session EXCEPT ![home[t]] = Session(s.path, ~Found(t), Left(t))]
  <2>1. (~Found(t) /\ (s.fail_fast \/ TRUE)) = ~Found(t)
    BY Zenon
  <2> QED
    BY <1>4, <2>1, Zenon
<1>6. answers' = [answers EXCEPT ![home[t]] = Append(answers[home[t]], Reply(t))]
  BY DEF Replay, Found, Reply
<1>7. Found(t) \in BOOLEAN
  BY DEF Found
<1> QED
  BY <1>2, <1>3, <1>5, <1>6, <1>7, Zenon

LEMMA ReplayTypes ==
  ASSUME RecordTypes, WriteInv, NEW t \in Threads, Replay(t)
  PROVE  RecordTypes'
<1>1. home[t] \in Processes /\ session[home[t]].path \in BOOLEAN
  BY DEF RecordTypes, SessionType
<1>2. Left(t) \in Seq(Events) /\ Reply(t) \in ReplyType /\ (~Found(t)) \in BOOLEAN
  BY ReplayStep, Zenon
<1>3. PICK b \in BOOLEAN, e \in Seq(Events), x \in ReplyType :
        /\ session' = [session EXCEPT ![home[t]] = Session(session[home[t]].path, b, e)]
        /\ answers' = [answers EXCEPT ![home[t]] = Append(answers[home[t]], x)]
  BY <1>2, ReplayStep, Zenon
<1>4. Session(session[home[t]].path, b, e) \in SessionType
  BY <1>1 DEF Session, SessionType
<1>5. session' \in [Processes -> SessionType]
  BY <1>1, <1>3, <1>4 DEF RecordTypes
<1>6. answers' \in [Processes -> Seq(ReplyType)]
  <2>1. Append(answers[home[t]], x) \in Seq(ReplyType)
    BY <1>1 DEF RecordTypes
  <2> QED
    BY <1>1, <1>3, <2>1 DEF RecordTypes
<1> QED
  BY <1>5, <1>6, ReturnType DEF Replay, RecordTypes

LEMMA RestartTypes ==
  ASSUME RecordTypes, Restart
  PROVE  RecordTypes'
BY NoSessionForm DEF Restart, RecordTypes, StepType

-----------------------------------------------------------------------------
(* One thread of a process writes at a time.                               *)

LEMMA AskWrite ==
  ASSUME RecordTypes, WriteInv, NEW t \in Threads, Ask(t)
  PROVE  WriteInv'
<1>1. home' = home /\ mode' = mode /\ home \in [Threads -> Processes]
  BY DEF Ask, RecordTypes
<1>2. \A q \in Processes : session[q].up => session'[q] = session[q]
  BY <1>1, OpenForm DEF Ask
<1>3. session'[home[t]].up
  BY <1>1, OpenForm DEF Ask
<1>4. /\ pc[t] = "idle" /\ pc'[t] = "lock" /\ job'[t].site \in Sites
      /\ \A u \in Threads \ {t} : pc'[u] = pc[u] /\ job'[u] = job[u]
  BY DEF Ask, RecordTypes, NoJob
<1>5. \A u \in Threads : pc'[u] # "idle" => session'[home[u]].up
  BY <1>1, <1>2, <1>3, <1>4 DEF WriteInv
<1>6. \A u \in Threads : Writing(u)' => Writing(u) /\ u # t
  BY <1>4 DEF Writing
<1>7. \A u \in Threads : Writing(u) => session'[home[u]] = session[home[u]]
  BY <1>1, <1>2 DEF WriteInv, Writing
<1>8. \A u \in Threads : pc'[u] = "lock" => job'[u].site \in Sites
  BY <1>4 DEF WriteInv
<1>9. \A u \in Threads :
        Writing(u)' => mode = "Record" /\ session'[home[u]].path /\ job'[u].event \in Events
  BY <1>4, <1>6, <1>7 DEF WriteInv
<1>10. \A u, v \in Threads : Writing(u)' /\ Writing(v)' /\ home[u] = home[v] => u = v
  BY <1>6 DEF WriteInv
<1> QED
  BY <1>1, <1>5, <1>8, <1>9, <1>10 DEF WriteInv

LEMMA RecordWrite ==
  ASSUME RecordTypes, WriteInv, NEW t \in Threads, Record(t)
  PROVE  WriteInv'
<1>1. /\ home' = home /\ mode' = mode /\ session' = session /\ mode = "Record"
      /\ pc[t] = "lock" /\ job[t].site \in Sites /\ LockFree(t)
      /\ pc \in [Threads -> StepType] /\ job \in [Threads -> JobType]
  BY DEF Record, RecordTypes, WriteInv
<1>2. \A u \in Threads \ {t} : pc'[u] = pc[u] /\ job'[u] = job[u]
  BY <1>1 DEF Record, Return
<1>3. \/ /\ session[home[t]].path /\ pc'[t] = "head" /\ job'[t].event \in Events
      \/ pc'[t] = "idle"
  <2>1. PICK d \in Possible(job[t].site) :
          IF session[home[t]].path
          THEN /\ pc' = [pc EXCEPT ![t] = "head"]
               /\ job' = [job EXCEPT ![t].event = from_decision(job[t].site, d)]
          ELSE Return(t)
    BY DEF Record
  <2>2. CASE session[home[t]].path
    <3>1. from_decision(job[t].site, d) \in Events
      BY <1>1, EventForm, PossibleForm
    <3>2. job[t] \in JobType
      BY <1>1
    <3>3. job'[t].event = from_decision(job[t].site, d)
      BY <1>1, <2>1, <2>2, <3>2 DEF JobType
    <3> QED
      BY <1>1, <2>1, <2>2, <3>1, <3>3
  <2>3. CASE ~session[home[t]].path
    BY <1>1, <2>1, <2>3 DEF Return
  <2> QED
    BY <2>2, <2>3
<1>4. \A u \in Threads : pc'[u] # "idle" => session[home[u]].up
  BY <1>1, <1>2 DEF WriteInv
<1>5. \A u \in Threads : pc'[u] = "lock" => job'[u].site \in Sites
  BY <1>2, <1>3 DEF WriteInv
<1>6. \A u \in Threads :
        Writing(u)' => mode = "Record" /\ session[home[u]].path /\ job'[u].event \in Events
  BY <1>1, <1>2, <1>3 DEF WriteInv, Writing
<1>7. \A u \in Threads \ {t} : Writing(u)' => Writing(u) /\ home[u] # home[t]
  BY <1>1, <1>2 DEF Writing, LockFree
<1>8. \A u, v \in Threads : Writing(u)' /\ Writing(v)' /\ home[u] = home[v] => u = v
  BY <1>7 DEF WriteInv
<1> QED
  BY <1>1, <1>4, <1>5, <1>6, <1>8 DEF WriteInv

\* A step of a thread that ends its call, or goes on writing.
LEMMA OnWrite ==
  ASSUME RecordTypes, WriteInv, NEW t \in Threads,
         home' = home, mode' = mode, pc' \in [Threads -> StepType],
         \A p \in Processes : session'[p].up = session[p].up /\ session'[p].path = session[p].path,
         \A u \in Threads \ {t} : pc'[u] = pc[u] /\ job'[u] = job[u],
         pc'[t] = "idle" \/ (pc'[t] = "body" /\ Writing(t) /\ job'[t] = job[t])
  PROVE  WriteInv'
<1>1. home \in [Threads -> Processes]
  BY DEF RecordTypes
<1>2. \A u \in Threads : pc'[u] # "idle" => session'[home[u]].up
  BY <1>1 DEF WriteInv, Writing
<1>3. \A u \in Threads : pc'[u] = "lock" => job'[u].site \in Sites
  BY DEF WriteInv
<1>4. \A u \in Threads : Writing(u)' => Writing(u) /\ job'[u] = job[u]
  BY DEF Writing
<1>5. \A u \in Threads :
        Writing(u)' => mode = "Record" /\ session'[home[u]].path /\ job'[u].event \in Events
  BY <1>1, <1>4 DEF WriteInv
<1>6. \A u, v \in Threads : Writing(u)' /\ Writing(v)' /\ home[u] = home[v] => u = v
  BY <1>4 DEF WriteInv
<1> QED
  BY <1>2, <1>3, <1>5, <1>6 DEF WriteInv

LEMMA WriteWrite ==
  ASSUME RecordTypes, WriteInv, NEW t \in Threads, Write(t) \/ WriteFails(t) \/ Replay(t)
  PROVE  WriteInv'
<1>1. RecordTypes'
  BY WriteTypes, WriteFailsTypes, ReplayTypes
<1>2. home' = home /\ mode' = mode /\ pc' \in [Threads -> StepType]
  BY <1>1 DEF RecordTypes, Write, WriteFails, Replay
<1>3. /\ \A u \in Threads \ {t} : pc'[u] = pc[u] /\ job'[u] = job[u]
      /\ pc'[t] = "idle" \/ (pc'[t] = "body" /\ Writing(t) /\ job'[t] = job[t])
  BY DEF RecordTypes, Write, WriteFails, Replay, Return, Writing
<1>4. \A p \in Processes : session'[p].up = session[p].up /\ session'[p].path = session[p].path
  <2>1. CASE Write(t) \/ WriteFails(t)
    BY <2>1 DEF Write, WriteFails
  <2>2. CASE Replay(t)
    <3>1. session[home[t]].up /\ home[t] \in Processes
      BY <2>2 DEF Replay, WriteInv, RecordTypes
    <3>2. \E b, e : session' = [session EXCEPT ![home[t]] = Session(session[home[t]].path, b, e)]
      BY <2>2, Zenon DEF Replay
    <3>3. session[home[t]].up = TRUE
      BY <3>1 DEF RecordTypes, SessionType
    <3>4. \A p \in Processes : p # home[t] => session'[p] = session[p]
      BY <3>1, <3>2 DEF RecordTypes
    <3>5. session'[home[t]].up = TRUE /\ session'[home[t]].path = session[home[t]].path
      BY <3>1, <3>2 DEF Session, RecordTypes
    <3> QED
      BY <3>3, <3>4, <3>5
  <2> QED
    BY <2>1, <2>2
<1> QED
  BY <1>2, <1>3, <1>4, OnWrite

LEMMA RestartWrite ==
  ASSUME RecordTypes, Restart
  PROVE  WriteInv'
BY DEF Restart, WriteInv, Writing, RecordTypes

-----------------------------------------------------------------------------
(* A replay follows the recording.                                         *)

LEMMA FaithfulSame ==
  ASSUME NEW p, Faithful(p), file' = file, session'[p] = session[p], answers'[p] = answers[p]
  PROVE  Faithful(p)'
<1>1. Loadable' = Loadable
  BY DEF Loadable
<1>2. \A i : Agrees(p, i)' <=> Agrees(p, i)
  BY <1>1 DEF Agrees
<1> QED
  BY <1>1, <1>2 DEF Faithful

LEMMA AskReplay ==
  ASSUME RecordTypes, ReplayInv, NEW t \in Threads, Ask(t)
  PROVE  ReplayInv'
<1> DEFINE h == home[t]
<1>1. h \in Processes /\ Open(h) /\ mode' = mode /\ answers' = answers
  BY DEF Ask, RecordTypes
<1>2. /\ \A q \in Processes : session[q].up \/ q # h => session'[q] = session[q]
      /\ session[h].up \/ mode = "Replay" => file' = file
      /\ ~session[h].up => /\ ~session'[h].fail_fast
                           /\ session'[h].events = IF mode = "Replay" THEN Loadable ELSE <<>>
  BY <1>1, OpenForm
<1>3. CASE mode = "Record"
  <2>1. \A p \in Processes : session'[p].events = <<>> /\ ~session'[p].fail_fast
    BY <1>2, <1>3 DEF ReplayInv
  <2> QED
    BY <1>1, <1>3, <2>1 DEF ReplayInv
<1>4. CASE mode = "Replay"
  <2> SUFFICES ASSUME NEW p \in Processes PROVE Faithful(p)'
    BY <1>1, <1>4 DEF ReplayInv
  <2>1. Faithful(p) /\ file' = file
    BY <1>2, <1>4 DEF ReplayInv
  <2>2. CASE session[p].up \/ p # h
    BY <1>1, <1>2, <2>1, <2>2, FaithfulSame
  <2>3. CASE ~session[p].up /\ p = h
    <3>1. Loadable \in Seq(Events)
      BY LoadForm DEF Loadable, RecordTypes
    <3>2. Loadable' = Loadable
      BY <2>1 DEF Loadable
    <3>3. answers[p] = <<>>
      BY <2>1, <2>3 DEF Faithful
    <3>4. ~session'[p].fail_fast /\ session'[p].events = Loadable
      BY <1>2, <1>4, <2>3
    <3>5. Len(answers'[p]) = 0 /\ DOMAIN answers'[p] = {} /\ Len(Loadable) \in Nat
      BY <1>1, <3>1, <3>3, LenProperties
    <3>6. Agrees(p, 0)'
      BY <3>2, <3>5 DEF Agrees
    <3>7. /\ Len(session'[p].events) = Len(Loadable) - Len(answers'[p])
          /\ \A i \in 1 .. Len(session'[p].events) :
               session'[p].events[i] = Loadable[Len(answers'[p]) + i]
      BY <3>4, <3>5
    <3> QED
      BY <1>1, <3>2, <3>3, <3>4, <3>5, <3>6, <3>7 DEF Faithful
  <2> QED
    BY <2>2, <2>3
<1> QED
  BY <1>3, <1>4 DEF RecordTypes

LEMMA WriteReplay ==
  ASSUME RecordTypes, WriteInv, ReplayInv, NEW t \in Threads,
         Record(t) \/ Write(t) \/ WriteFails(t)
  PROVE  ReplayInv'
<1>1. mode = "Record" /\ mode' = mode /\ session' = session /\ answers' = answers
  BY DEF Record, Write, WriteFails, WriteInv, Writing
<1> QED
  BY <1>1 DEF ReplayInv

LEMMA RestartReplay ==
  ASSUME RecordTypes, ReplayInv, Restart
  PROVE  ReplayInv'
<1> SUFFICES ASSUME NEW p \in Processes PROVE Faithful(p)'
  BY DEF Restart, ReplayInv
<1>1. answers'[p] = <<>> /\ ~session'[p].fail_fast /\ ~session'[p].up
  BY DEF Restart, ReplayInv, NoSession
<1> QED
  BY <1>1 DEF Faithful

\* The n-th answer settles whether the process has followed the recording up to it; the
\* earlier ones are as they were.
LEMMA ReplayReplay ==
  ASSUME RecordTypes, WriteInv, ReplayInv, NEW t \in Threads, Replay(t)
  PROVE  ReplayInv'
<1>a. PICK h \in Processes : h = home[t]
  BY DEF RecordTypes
<1>b. PICK n \in Nat : n = Len(answers[h])
  BY LenProperties DEF RecordTypes
<1> DEFINE s == session[h]
<1>1. /\ mode = "Replay" /\ mode' = mode /\ file' = file /\ Loadable' = Loadable
      /\ s.up /\ job[t].site \in Sites
  BY <1>a DEF Replay, RecordTypes, WriteInv, Loadable
<1>2. /\ Left(t) \in Seq(Events) /\ Reply(t) \in ReplyType /\ Found(t) \in BOOLEAN
      /\ session' = [session EXCEPT ![h] = Session(s.path, ~Found(t), Left(t))]
      /\ answers' = [answers EXCEPT ![h] = Append(answers[h], Reply(t))]
  BY <1>a, ReplayStep, Zenon
<1>3. \A p \in Processes \ {h} : session'[p] = session[p] /\ answers'[p] = answers[p]
  BY <1>1, <1>2 DEF RecordTypes
<1>4. \A p \in Processes : Faithful(p)
  BY <1>1 DEF ReplayInv
<1>5. \A p \in Processes \ {h} : Faithful(p)'
  BY <1>1, <1>3, <1>4, FaithfulSame
<1>6. Loadable \in Seq(Events) /\ Len(Loadable) \in Nat
  BY LoadForm, LenProperties DEF Loadable, RecordTypes
<1>7. /\ answers[h] \in Seq(ReplyType) /\ n \in Nat /\ s.events \in Seq(Events)
      /\ DOMAIN answers[h] = 1 .. n
  BY <1>1, <1>b, LenProperties DEF RecordTypes, SessionType
<1>8. /\ answers'[h] = Append(answers[h], Reply(t))
      /\ Len(answers'[h]) = n + 1 /\ DOMAIN answers'[h] = 1 .. (n + 1)
      /\ \A i \in 1 .. n : answers'[h][i] = answers[h][i]
      /\ answers'[h][n + 1] = Reply(t)
  <2>1. answers'[h] = Append(answers[h], Reply(t))
    BY <1>1, <1>2 DEF RecordTypes
  <2> QED
    BY <1>2, <1>7, <2>1, AppendProperties
<1>9. \A i \in 0 .. n : Agrees(h, i)' <=> Agrees(h, i)
  BY <1>1, <1>7, <1>8 DEF Agrees
<1>10. /\ session'[h].up /\ (session'[h].fail_fast <=> ~Found(t))
       /\ session'[h].events = Left(t)
  <2>1. session'[h] = Session(s.path, ~Found(t), Left(t))
    BY <1>1, <1>2 DEF RecordTypes
  <2>2. /\ Session(s.path, ~Found(t), Left(t)).up = TRUE
        /\ Session(s.path, ~Found(t), Left(t)).fail_fast = ~Found(t)
        /\ Session(s.path, ~Found(t), Left(t)).events = Left(t)
    BY DEF Session
  <2> QED
    BY <2>1, <2>2, Zenon
<1>11. Agrees(h, n + 1)' <=> Found(t)
  <2>1. Agrees(h, n + 1)' <=> /\ n + 1 <= Len(Loadable) /\ Agrees(h, n)
                              /\ job[t].site = Loadable[n + 1].site
    BY <1>a, <1>b, <1>1, <1>6, <1>7, <1>8, SMTT(40) DEF Agrees, Reply
  <2>2. CASE s.fail_fast
    BY <1>a, <1>b, <1>1, <1>4, <2>1, <2>2 DEF Faithful, Found
  <2>3. CASE ~s.fail_fast
    <3>1. /\ Agrees(h, n) /\ Len(s.events) = Len(Loadable) - n
          /\ \A i \in 1 .. Len(s.events) : s.events[i] = Loadable[n + i]
      BY <1>1, <1>4, <1>b, <2>3, ZenonT(40) DEF Faithful
    <3>2. CASE s.events = <<>>
      BY <1>a, <1>b, <1>6, <1>7, <2>1, <3>1, <3>2 DEF Found
    <3>3. CASE s.events # <<>>
      <4>1. Len(s.events) \in Nat \ {0} /\ Head(s.events) = s.events[1]
        BY <1>7, <3>3, EmptySeq, LenProperties
      <4>2. Head(s.events) = Loadable[n + 1] /\ n + 1 <= Len(Loadable)
        BY <1>6, <1>7, <3>1, <4>1
      <4> QED
        BY <1>a, <1>b, <2>1, <2>3, <3>1, <3>3, <4>2 DEF Found
    <3> QED
      BY <3>2, <3>3
  <2> QED
    BY <2>2, <2>3
<1>12. \A i \in 1 .. (n + 1) :
         answers'[h][i].decision = IF Agrees(h, i)' THEN to_decision(Loadable[i]) ELSE Fail
  <2>1. \A i \in 1 .. n :
          answers'[h][i].decision = IF Agrees(h, i)' THEN to_decision(Loadable[i]) ELSE Fail
    <3> SUFFICES ASSUME NEW i \in 1 .. n
                 PROVE  answers'[h][i].decision
                          = IF Agrees(h, i)' THEN to_decision(Loadable[i]) ELSE Fail
      OBVIOUS
    <3>1. Agrees(h, i)' <=> Agrees(h, i)
      BY <1>9
    <3>2. answers[h][i].decision = IF Agrees(h, i) THEN to_decision(Loadable[i]) ELSE Fail
      <4>1. i \in DOMAIN answers[h] /\ Faithful(h)
        BY <1>4, <1>7
      <4> QED
        BY <4>1, Zenon DEF Faithful
    <3>3. answers'[h][i] = answers[h][i]
      BY <1>8
    <3> QED
      BY <3>1, <3>2, <3>3
  <2>2. Found(t) => Head(s.events) = Loadable[n + 1]
    <3> SUFFICES ASSUME Found(t) PROVE Head(s.events) = Loadable[n + 1]
      OBVIOUS
    <3>1. ~s.fail_fast /\ s.events # <<>>
      BY <1>a, <1>b DEF Found
    <3>2. \A i \in 1 .. Len(s.events) : s.events[i] = Loadable[n + i]
      BY <1>1, <1>4, <1>b, <3>1, ZenonT(40) DEF Faithful
    <3>3. Len(s.events) \in Nat \ {0} /\ Head(s.events) = s.events[1]
      BY <1>7, <3>1, EmptySeq, LenProperties
    <3> QED
      BY <3>2, <3>3
  <2>3. answers'[h][n + 1].decision
          = IF Agrees(h, n + 1)' THEN to_decision(Loadable[n + 1]) ELSE Fail
    BY <1>a, <1>b, <1>8, <1>11, <2>2 DEF Reply
  <2> QED
    BY <1>7, <2>1, <2>3
<1>13. Found(t) =>
         /\ Len(Left(t)) = Len(Loadable) - (n + 1)
         /\ \A i \in 1 .. Len(Left(t)) : Left(t)[i] = Loadable[(n + 1) + i]
  <2> SUFFICES ASSUME Found(t)
               PROVE  /\ Len(Left(t)) = Len(Loadable) - (n + 1)
                      /\ \A i \in 1 .. Len(Left(t)) : Left(t)[i] = Loadable[(n + 1) + i]
    OBVIOUS
  <2>1. ~s.fail_fast /\ s.events # <<>>
    BY <1>a, <1>b DEF Found
  <2>2. Left(t) = Tail(s.events)
    BY <1>a, <1>b, <2>1 DEF Left
  <2>3. /\ Len(s.events) = Len(Loadable) - n
        /\ \A i \in 1 .. Len(s.events) : s.events[i] = Loadable[n + i]
    BY <1>1, <1>4, <1>b, <2>1, ZenonT(40) DEF Faithful
  <2>4. /\ Len(s.events) \in Nat \ {0} /\ Len(Left(t)) = Len(s.events) - 1
        /\ \A i \in 1 .. Len(Left(t)) : Left(t)[i] = s.events[i + 1]
    BY <1>7, <2>1, <2>2, EmptySeq, LenProperties
  <2>5. \A i \in 1 .. Len(Left(t)) : i + 1 \in 1 .. Len(s.events) /\ n + (i + 1) = (n + 1) + i
    BY <1>7, <2>4
  <2>6. Len(Left(t)) = Len(Loadable) - (n + 1)
    BY <1>6, <2>3, <2>4
  <2>7. \A i \in 1 .. Len(Left(t)) : Left(t)[i] = Loadable[n + (i + 1)]
    BY <2>3, <2>4, <2>5, Zenon
  <2>8. \A i \in 1 .. Len(Left(t)) : n + (i + 1) = (n + 1) + i
    BY <2>5
  <2> QED
    BY <2>6, <2>7, <2>8, Zenon
<1>14. Faithful(h)'
  BY <1>1, <1>8, <1>10, <1>11, <1>12, <1>13 DEF Faithful
<1> QED
  BY <1>1, <1>5, <1>14 DEF ReplayInv

-----------------------------------------------------------------------------
(* The file holds the decisions made.                                      *)

LEMMA FileSame ==
  ASSUME RecordTypes, FileInv, mode' = mode, home' = home, file' = file, made' = made,
         \A p \in Processes : session[p].up => session'[p].up,
         \A u \in Threads : Writing(u)' <=> Writing(u),
         \A u \in Threads : Writing(u)' => pc'[u] = pc[u] /\ job'[u] = job[u]
  PROVE  FileInv'
<1>1. \A n : EventOf(n)' = EventOf(n)
  BY DEF EventOf
<1>2. home \in [Threads -> Processes]
  BY DEF RecordTypes
<1>3. mode = "Record" /\ made # <<>> => \A u \in Threads : session'[home[u]].up
  BY <1>2 DEF FileInv
<1>4. \A u \in Threads :
        Writing(u)' => /\ made # <<>> /\ job'[u].event = EventOf(Len(made))
                       /\ Len(file) = 2 * Len(made) - (IF pc'[u] = "head" THEN 2 ELSE 1)
  BY DEF FileInv
<1>5. EventOf(Len(made))' = EventOf(Len(made))
  BY DEF EventOf
<1> QED
  BY <1>1, <1>3, <1>4, <1>5 DEF FileInv

LEMMA AskFile ==
  ASSUME RecordTypes, WriteInv, FileInv, NEW t \in Threads, Ask(t)
  PROVE  FileInv'
<1>1. /\ home[t] \in Processes /\ Open(home[t])
      /\ mode' = mode /\ home' = home /\ made' = made /\ file \in Seq(PartType)
  BY DEF Ask, RecordTypes
<1>2. /\ session'[home[t]].up
      /\ \A q \in Processes : session[q].up \/ q # home[t] => session'[q] = session[q]
      /\ session[home[t]].up \/ mode = "Replay" => file' = file
      /\ file' \in {file, <<>>}
  BY <1>1, OpenForm
<1>3. file' = file
  <2>1. CASE session[home[t]].up \/ mode = "Replay"
    BY <1>2, <2>1
  <2>2. CASE ~session[home[t]].up /\ mode = "Record"
    <3>1. made = <<>>
      BY <2>2 DEF FileInv
    <3>2. Len(file) \in {-2, -1, 0}
      BY <3>1 DEF FileInv
    <3>3. file = <<>>
      BY <1>1, <3>2, EmptySeq, LenProperties
    <3> QED
      BY <1>2, <3>3
  <2> QED
    BY <2>1, <2>2 DEF RecordTypes
<1>4. /\ pc[t] = "idle" /\ pc'[t] = "lock"
      /\ \A u \in Threads \ {t} : pc'[u] = pc[u] /\ job'[u] = job[u]
  BY DEF Ask, RecordTypes
<1>5. \A u \in Threads : Writing(u)' <=> Writing(u)
  BY <1>4 DEF Writing
<1>6. \A u \in Threads : Writing(u)' => pc'[u] = pc[u] /\ job'[u] = job[u]
  BY <1>4 DEF Writing
<1>7. \A p \in Processes : session[p].up => session'[p].up
  BY <1>2
<1> QED
  BY <1>1, <1>3, <1>5, <1>6, <1>7, FileSame

LEMMA ReplayFile ==
  ASSUME RecordTypes, WriteInv, FileInv, NEW t \in Threads, Replay(t)
  PROVE  FileInv'
<1>1. /\ mode = "Replay" /\ mode' = mode /\ home' = home /\ file' = file /\ made' = made
      /\ pc'[t] = "idle" /\ \A u \in Threads \ {t} : pc'[u] = pc[u] /\ job'[u] = job[u]
  BY DEF Replay, Return, RecordTypes
<1>2. \A u \in Threads : ~Writing(u)
  BY <1>1 DEF WriteInv
<1>3. \A u \in Threads : ~Writing(u)'
  BY <1>1, <1>2 DEF Writing
<1>4. \A n : EventOf(n)' = EventOf(n)
  BY <1>1 DEF EventOf
<1> QED
  BY <1>1, <1>3, <1>4 DEF FileInv

LEMMA RestartFile ==
  ASSUME RecordTypes, FileInv, Restart
  PROVE  FileInv'
<1>1. mode' = "Replay" /\ file' = file /\ made' = made /\ \A u \in Threads : ~Writing(u)'
  BY DEF Restart, Writing
<1>2. \A n : EventOf(n)' = EventOf(n)
  BY <1>1 DEF EventOf
<1> QED
  BY <1>1, <1>2 DEF FileInv

\* A decision is made when all the earlier events are in the file.
LEMMA RecordFile ==
  ASSUME RecordTypes, WriteInv, FileInv, OneProcess, NEW t \in Threads, Record(t), ~failed'
  PROVE  FileInv'
<1>a. PICK m \in Nat : m = Len(made)
  BY LenProperties DEF RecordTypes
<1>1. /\ mode = "Record" /\ mode' = mode /\ home' = home /\ file' = file /\ session' = session
      /\ pc[t] = "lock" /\ LockFree(t) /\ job[t].site \in Sites /\ job[t] \in JobType
      /\ made \in Seq(MadeType) /\ file \in Seq(PartType)
  BY DEF Record, RecordTypes, WriteInv
<1>2. \A u \in Threads : ~Writing(u)
  BY <1>1 DEF LockFree, OneProcess, Writing
<1>3. Len(file) = 2 * m
  BY <1>1, <1>2, <1>a DEF FileInv
<1>4. PICK d \in Possible(job[t].site) :
        /\ made' = Append(made, [site |-> job[t].site, decision |-> d])
        /\ pc' = [pc EXCEPT ![t] = "head"]
        /\ job' = [job EXCEPT ![t].event = from_decision(job[t].site, d)]
  BY DEF Record
<1>5. [site |-> job[t].site, decision |-> d] \in MadeType
  BY <1>1, PossibleForm
<1>6. /\ Len(made') = m + 1 /\ \A n \in 1 .. m : made'[n] = made[n]
      /\ made'[m + 1] = [site |-> job[t].site, decision |-> d]
  BY <1>1, <1>4, <1>5, <1>a, AppendProperties
<1>7. \A n \in 1 .. m : EventOf(n)' = EventOf(n)
  BY <1>6 DEF EventOf
<1>8. EventOf(m + 1)' = from_decision(job[t].site, d)
  BY <1>6 DEF EventOf
<1>9. /\ pc'[t] = "head" /\ job'[t].event = EventOf(m + 1)'
      /\ \A u \in Threads \ {t} : ~Writing(u)'
  <2>1. job'[t].event = from_decision(job[t].site, d)
    BY <1>1, <1>4 DEF RecordTypes, JobType
  <2>2. pc'[t] = "head" /\ \A u \in Threads \ {t} : pc'[u] = pc[u]
    BY <1>4 DEF RecordTypes
  <2> QED
    BY <1>2, <1>8, <2>1, <2>2 DEF Writing
<1>10. made' # <<>>
  BY <1>4, <1>1, <1>5, AppendProperties
<1>11. \A u \in Threads : session[home[u]].up
  BY <1>1 DEF WriteInv, OneProcess
<1>12. \A n \in 1 .. (m + 1) :
         /\ 2 * n - 1 <= Len(file) => file[2 * n - 1] = [event |-> EventOf(n)', part |-> "head"]
         /\ 2 * n <= Len(file) => file[2 * n] = [event |-> EventOf(n)', part |-> "body"]
  <2> SUFFICES ASSUME NEW n \in 1 .. (m + 1)
      PROVE /\ 2 * n - 1 <= Len(file) => file[2 * n - 1] = [event |-> EventOf(n)', part |-> "head"]
            /\ 2 * n <= Len(file) => file[2 * n] = [event |-> EventOf(n)', part |-> "body"]
    OBVIOUS
  <2>1. CASE n <= m
    <3>1. n \in 1 .. Len(made) /\ EventOf(n)' = EventOf(n)
      BY <1>7, <1>a, <2>1
    <3> QED
      BY <3>1 DEF FileInv
  <2>2. CASE n = m + 1
    BY <1>3, <2>2
  <2> QED
    BY <2>1, <2>2
<1>13. Writing(t)'
  BY <1>9 DEF Writing
<1>14. EventOf(Len(made))' = EventOf(m + 1)'
  BY <1>6 DEF EventOf
<1>15. \A u \in Threads :
         Writing(u)' => /\ made' # <<>> /\ job'[u].event = EventOf(Len(made))'
                        /\ Len(file) = 2 * Len(made') - (IF pc'[u] = "head" THEN 2 ELSE 1)
  BY <1>3, <1>6, <1>9, <1>10, <1>14
<1>16. Len(file) = 2 * Len(made') - 2
  BY <1>3, <1>6
<1> QED
  BY <1>1, <1>6, <1>10, <1>11, <1>12, <1>13, <1>15, <1>16 DEF FileInv

\* The one thread that writes adds the next part of the last event.
LEMMA WriteFile ==
  ASSUME RecordTypes, WriteInv, FileInv, OneProcess, NEW t \in Threads, Write(t)
  PROVE  FileInv'
<1>a. PICK m \in Nat : m = Len(made)
  BY LenProperties DEF RecordTypes
<1>b. PICK k \in Nat : k = Len(file)
  BY LenProperties DEF RecordTypes
<1>c. PICK x : x = [event |-> EventOf(m), part |-> pc[t]]
  OBVIOUS
<1>1. /\ mode' = mode /\ home' = home /\ session' = session /\ made' = made
      /\ Writing(t) /\ file \in Seq(PartType) /\ pc[t] \in {"head", "body"}
  BY DEF Write, Writing, RecordTypes
<1>2. /\ made # <<>> /\ job[t].event = EventOf(m)
      /\ k = 2 * m - (IF pc[t] = "head" THEN 2 ELSE 1)
  BY <1>1, <1>a, <1>b DEF FileInv
<1>3. \A u \in Threads \ {t} : ~Writing(u)
  BY <1>1 DEF WriteInv, OneProcess
<1>4. m # 0
  BY <1>2, <1>a, EmptySeq DEF RecordTypes
<1>5. x \in PartType /\ file' = Append(file, x)
  <2>1. job[t].event \in Events
    BY <1>1 DEF WriteInv
  <2> QED
    BY <1>1, <1>2, <1>c, <2>1 DEF Write, PartType
<1>6. /\ Len(file') = k + 1 /\ file'[k + 1] = x
      /\ \A i \in 1 .. k : file'[i] = file[i]
  BY <1>1, <1>5, <1>b, AppendProperties
<1>7. \A n : EventOf(n)' = EventOf(n)
  BY <1>1 DEF EventOf
<1>8. EventOf(Len(made))' = EventOf(Len(made))
  BY <1>1 DEF EventOf
<1>9. /\ \A u \in Threads \ {t} : ~Writing(u)'
      /\ pc[t] = "head" => pc'[t] = "body" /\ job'[t] = job[t]
      /\ pc[t] = "body" => pc'[t] = "idle"
  BY <1>3 DEF Write, Return, Writing, RecordTypes
<1>10. \A n \in 1 .. m :
         /\ 2 * n - 1 <= k + 1 => file'[2 * n - 1] = [event |-> EventOf(n), part |-> "head"]
         /\ 2 * n <= k + 1 => file'[2 * n] = [event |-> EventOf(n), part |-> "body"]
  <2> SUFFICES ASSUME NEW n \in 1 .. m
      PROVE /\ 2 * n - 1 <= k + 1 => file'[2 * n - 1] = [event |-> EventOf(n), part |-> "head"]
            /\ 2 * n <= k + 1 => file'[2 * n] = [event |-> EventOf(n), part |-> "body"]
    OBVIOUS
  <2>1. /\ 2 * n - 1 <= k => file[2 * n - 1] = [event |-> EventOf(n), part |-> "head"]
        /\ 2 * n <= k => file[2 * n] = [event |-> EventOf(n), part |-> "body"]
    BY <1>a, <1>b DEF FileInv
  <2>2. 2 * n - 1 <= k => file'[2 * n - 1] = file[2 * n - 1]
    BY <1>6
  <2>3. 2 * n <= k => file'[2 * n] = file[2 * n]
    BY <1>6
  <2>4. 2 * n - 1 = k + 1 => file'[2 * n - 1] = [event |-> EventOf(n), part |-> "head"]
    <3> SUFFICES ASSUME 2 * n - 1 = k + 1
                 PROVE  file'[2 * n - 1] = [event |-> EventOf(n), part |-> "head"]
      OBVIOUS
    <3>1. pc[t] = "head" /\ n = m
      BY <1>1, <1>2
    <3> QED
      BY <1>6, <1>c, <3>1
  <2>5. 2 * n = k + 1 => file'[2 * n] = [event |-> EventOf(n), part |-> "body"]
    <3> SUFFICES ASSUME 2 * n = k + 1
                 PROVE  file'[2 * n] = [event |-> EventOf(n), part |-> "body"]
      OBVIOUS
    <3>1. pc[t] = "body" /\ n = m
      BY <1>1, <1>2
    <3> QED
      BY <1>6, <1>c, <3>1
  <2>6. 2 * n - 1 <= k + 1 => 2 * n - 1 <= k \/ 2 * n - 1 = k + 1
    OBVIOUS
  <2>7. 2 * n <= k + 1 => 2 * n <= k \/ 2 * n = k + 1
    OBVIOUS
  <2> QED
    BY <2>1, <2>2, <2>3, <2>4, <2>5, <2>6, <2>7
<1>11. Len(file') \in {2 * m - 2, 2 * m - 1, 2 * m}
  BY <1>2, <1>6
<1>12. (\A u \in Threads : ~Writing(u)') => Len(file') = 2 * m
  <2>1. CASE pc[t] = "head"
    <3>1. Writing(t)'
      BY <1>9, <2>1 DEF Writing
    <3> QED
      BY <3>1
  <2>2. CASE pc[t] = "body"
    BY <1>2, <1>6, <2>2
  <2> QED
    BY <1>1, <2>1, <2>2
<1>13. \A u \in Threads :
         Writing(u)' => /\ job'[u].event = EventOf(m)
                        /\ Len(file') = 2 * m - (IF pc'[u] = "head" THEN 2 ELSE 1)
  <2> SUFFICES ASSUME Writing(t)'
               PROVE  /\ job'[t].event = EventOf(m)
                      /\ Len(file') = 2 * m - (IF pc'[t] = "head" THEN 2 ELSE 1)
    BY <1>9
  <2>1. pc[t] = "head"
    BY <1>1, <1>9 DEF Writing
  <2> QED
    BY <1>2, <1>6, <1>9, <2>1
<1> QED
  BY <1>1, <1>2, <1>7, <1>8, <1>10, <1>11, <1>12, <1>13, <1>6, <1>a DEF FileInv

-----------------------------------------------------------------------------
(* Record and replay: the theorems.                                        *)

LEMMA RecordInitInv == RecordInit => RecordInv
<1> SUFFICES ASSUME RecordInit PROVE RecordInv
  OBVIOUS
<1>1. RecordTypes
  <2>1. session \in [Processes -> SessionType] /\ job \in [Threads -> JobType]
    BY NoSessionForm DEF RecordInit
  <2>2. pc \in [Threads -> StepType] /\ answers \in [Processes -> Seq(ReplyType)]
    BY DEF RecordInit, StepType
  <2>3. file \in Seq(PartType) /\ made \in Seq(MadeType)
    BY DEF RecordInit
  <2>5. failed \in BOOLEAN
    BY Zenon DEF RecordInit
  <2>4. mode \in {"Record", "Replay"} /\ home \in [Threads -> Processes]
    BY DEF RecordInit
  <2> QED
    BY <2>1, <2>2, <2>3, <2>4, <2>5 DEF RecordTypes
<1>2. WriteInv
  BY DEF RecordInit, WriteInv, Writing
<1>3. ReplayInv
  BY DEF RecordInit, ReplayInv, NoSession
<1>4. FileInv
  BY DEF RecordInit, FileInv, Writing
<1> QED
  BY <1>1, <1>2, <1>3, <1>4 DEF RecordInv

LEMMA RecordStepInv ==
  RecordInv /\ [RecordNext]_RecordVars => RecordInv'
<1> SUFFICES ASSUME RecordInv, [RecordNext]_RecordVars PROVE RecordInv'
  OBVIOUS
<1>1. RecordTypes /\ WriteInv /\ ReplayInv /\ (OneProcess /\ ~failed => FileInv)
  BY DEF RecordInv
<1>2. ASSUME NEW t \in Threads, Ask(t) PROVE RecordInv'
  <2>1. RecordTypes' /\ WriteInv' /\ ReplayInv'
    BY <1>1, <1>2, AskTypes, AskWrite, AskReplay
  <2>2. OneProcess' /\ ~failed' => OneProcess /\ ~failed
    BY <1>2 DEF Ask, OneProcess
  <2> QED
    BY <1>1, <1>2, <2>1, <2>2, AskFile DEF RecordInv
<1>3. ASSUME NEW t \in Threads, Record(t) PROVE RecordInv'
  <2>1. RecordTypes' /\ WriteInv' /\ ReplayInv'
    BY <1>1, <1>3, RecordKeepsTypes, RecordWrite, WriteReplay
  <2>2. OneProcess' /\ ~failed' => OneProcess /\ ~failed
    BY <1>3 DEF Record, OneProcess
  <2> QED
    BY <1>1, <1>3, <2>1, <2>2, RecordFile DEF RecordInv
<1>4. ASSUME NEW t \in Threads, Write(t) PROVE RecordInv'
  <2>1. RecordTypes' /\ WriteInv' /\ ReplayInv'
    BY <1>1, <1>4, WriteTypes, WriteWrite, WriteReplay
  <2>2. OneProcess' /\ ~failed' => OneProcess /\ ~failed
    BY <1>4 DEF Write, OneProcess
  <2> QED
    BY <1>1, <1>4, <2>1, <2>2, WriteFile DEF RecordInv
<1>5. ASSUME NEW t \in Threads, WriteFails(t) PROVE RecordInv'
  <2>1. RecordTypes' /\ WriteInv' /\ ReplayInv'
    BY <1>1, <1>5, WriteFailsTypes, WriteWrite, WriteReplay
  <2>2. failed'
    BY <1>5 DEF WriteFails
  <2> QED
    BY <2>1, <2>2 DEF RecordInv
<1>6. ASSUME NEW t \in Threads, Replay(t) PROVE RecordInv'
  <2>1. RecordTypes' /\ WriteInv' /\ ReplayInv'
    BY <1>1, <1>6, ReplayTypes, WriteWrite, ReplayReplay
  <2>2. OneProcess' /\ ~failed' => OneProcess /\ ~failed
    BY <1>6 DEF Replay, OneProcess
  <2> QED
    BY <1>1, <1>6, <2>1, <2>2, ReplayFile DEF RecordInv
<1>7. CASE Restart
  <2>1. RecordTypes' /\ WriteInv' /\ ReplayInv'
    BY <1>1, <1>7, RestartTypes, RestartWrite, RestartReplay
  <2>2. OneProcess' /\ ~failed' => OneProcess /\ ~failed
    BY <1>7 DEF Restart, OneProcess
  <2> QED
    BY <1>1, <1>7, <2>1, <2>2, RestartFile DEF RecordInv
<1>8. CASE UNCHANGED RecordVars
  BY <1>1, <1>8
  DEF RecordVars, RecordInv, RecordTypes, WriteInv, Writing, ReplayInv, Faithful, Agrees,
      Loadable, FileInv, EventOf, OneProcess
<1> QED
  BY <1>2, <1>3, <1>4, <1>5, <1>6, <1>7, <1>8 DEF RecordNext

LEMMA RecordAlways == RecordSpec => []RecordInv
BY RecordInitInv, RecordStepInv, PTL DEF RecordSpec

\* The values of the variables: an event is written only by a session with a file, and read
\* only by one that replays (RecordReplaySession::new, persist_event).
THEOREM RecordTypesHold == RecordSpec => []RecordTypeOK
<1>1. RecordInv => RecordTypeOK
  <2> SUFFICES ASSUME RecordInv PROVE RecordTypeOK
    OBVIOUS
  <2>1. RecordTypes /\ WriteInv /\ ReplayInv
    BY DEF RecordInv
  <2>2. \A p \in Processes : session[p].events # <<>> => mode = "Replay"
    BY <2>1 DEF ReplayInv, RecordTypes
  <2>3. \A p \in Processes : /\ session[p].up \in BOOLEAN /\ session[p].path \in BOOLEAN
                             /\ session[p].fail_fast \in BOOLEAN /\ session[p].events \in Seq(Events)
    BY <2>1 DEF RecordTypes, SessionType
  <2>4. \A i \in DOMAIN file : file[i].event \in Events /\ file[i].part \in {"head", "body"}
    <3> SUFFICES ASSUME NEW i \in DOMAIN file
                 PROVE  file[i].event \in Events /\ file[i].part \in {"head", "body"}
      OBVIOUS
    <3>1. file[i] \in PartType
      BY <2>1, ElementOfSeq, LenProperties DEF RecordTypes
    <3> QED
      BY <3>1 DEF PartType
  <2>5. \A t \in Threads : pc[t] \in {"head", "body"} => session[home[t]].path
    BY <2>1 DEF WriteInv, Writing
  <2> QED
    BY <2>1, <2>2, <2>3, <2>4, <2>5 DEF RecordTypeOK, RecordTypes, StepType
<1> QED
  BY <1>1, RecordAlways, PTL

\* What FileInv says of the events that are read.
LEMMA LoadedEvents ==
  ASSUME RecordTypes, FileInv
  PROVE  /\ Loadable \in Seq(Events)
         /\ Len(Loadable) \in {Len(made) - 1, Len(made)}
         /\ \A i \in 1 .. Len(Loadable) : Loadable[i] = EventOf(i)
<1>a. PICK m \in Nat : m = Len(made)
  BY LenProperties DEF RecordTypes
<1>b. PICK k \in Nat : k = Len(file)
  BY LenProperties DEF RecordTypes
<1>1. file \in Seq(PartType) /\ k \in {2 * m - 2, 2 * m - 1, 2 * m}
  BY <1>a, <1>b DEF RecordTypes, FileInv
<1>2. PICK j \in Nat : k \in {2 * j, 2 * j + 1} /\ j \in {m - 1, m}
  BY <1>1
<1>3. \A n \in 1 .. j : /\ file[2 * n - 1] = [event |-> EventOf(n), part |-> "head"]
                        /\ file[2 * n] = [event |-> EventOf(n), part |-> "body"]
  BY <1>2, <1>a, <1>b DEF FileInv
<1>4. Whole(file, j)
  <2>1. \A n \in 1 .. j : /\ file[2 * n - 1].part = "head" /\ file[2 * n].part = "body"
                          /\ file[2 * n - 1].event = EventOf(n) /\ file[2 * n].event = EventOf(n)
    <3>1. \A e : [event |-> e, part |-> "head"].event = e /\ [event |-> e, part |-> "body"].event = e
      OBVIOUS
    <3>2. \A e : /\ [event |-> e, part |-> "head"].part = "head"
                 /\ [event |-> e, part |-> "body"].part = "body"
      OBVIOUS
    <3> SUFFICES ASSUME NEW n \in 1 .. j
                 PROVE  /\ file[2 * n - 1].part = "head" /\ file[2 * n].part = "body"
                        /\ file[2 * n - 1].event = EventOf(n) /\ file[2 * n].event = EventOf(n)
      OBVIOUS
    <3>3. /\ file[2 * n - 1] = [event |-> EventOf(n), part |-> "head"]
          /\ file[2 * n] = [event |-> EventOf(n), part |-> "body"]
      BY <1>3
    <3> QED
      BY <3>1, <3>2, <3>3, Zenon
  <2> QED
    BY <2>1 DEF Whole
<1>5. Len(Loadable) = j
  BY <1>1, <1>2, <1>4, <1>b, LoadWhole DEF Loadable
<1>6. \A i \in 1 .. j : Loadable[i] = file[2 * i].event
  BY <1>1, <1>5, LoadForm DEF Loadable
<1>7. Loadable \in Seq(Events)
  BY <1>1, LoadForm DEF Loadable
<1>8. \A i \in 1 .. j : file[2 * i].event = EventOf(i)
  <2>1. \A e : [event |-> e, part |-> "body"].event = e
    OBVIOUS
  <2> QED
    BY <1>3, <2>1, Zenon
<1>9. \A i \in 1 .. j : Loadable[i] = EventOf(i)
  BY <1>6, <1>8
<1>10. Len(Loadable) \in {Len(made) - 1, Len(made)}
  BY <1>2, <1>5, <1>a
<1> QED
  BY <1>5, <1>7, <1>9, <1>10

\* RecordedPrefix: the recording of a process has the events of its decisions in order, all
\* but possibly the last, wherever it crashes.
THEOREM RecordingOrdered == RecordSpec => []RecordedPrefix
<1>1. RecordInv => RecordedPrefix
  <2> SUFFICES ASSUME RecordInv, OneProcess, ~failed
               PROVE  /\ \A i \in DOMAIN Loadable :
                           i \in DOMAIN MadeEvents /\ Loadable[i] = MadeEvents[i]
                      /\ Len(made) - Len(Loadable) <= 1
    BY DEF RecordedPrefix
  <2>1. RecordTypes /\ FileInv
    BY DEF RecordInv
  <2>2. /\ Loadable \in Seq(Events) /\ Len(Loadable) \in {Len(made) - 1, Len(made)}
        /\ \A i \in 1 .. Len(Loadable) : Loadable[i] = EventOf(i)
    BY <2>1, LoadedEvents
  <2>3. /\ Len(made) \in Nat /\ DOMAIN made = 1 .. Len(made)
        /\ Len(Loadable) \in Nat /\ DOMAIN Loadable = 1 .. Len(Loadable)
    BY <2>1, <2>2, LenProperties DEF RecordTypes
  <2>7. Len(Loadable) = Len(made) - 1 \/ Len(Loadable) = Len(made)
    BY <2>2, Zenon
  <2>8. Len(Loadable) <= Len(made) /\ Len(made) - Len(Loadable) <= 1
    <3>1. \A a, b \in Nat : b = a - 1 \/ b = a => b <= a /\ a - b <= 1
      OBVIOUS
    <3> QED
      BY <2>3, <2>7, <3>1, Zenon
  <2>4. \A i \in DOMAIN Loadable : i \in DOMAIN made /\ Loadable[i] = EventOf(i)
    <3>1. Len(Loadable) <= Len(made)
      BY <2>8
    <3>2. \A i \in 1 .. Len(Loadable) : i \in 1 .. Len(made)
      BY <2>3, <3>1
    <3> QED
      BY <2>2, <2>3, <3>2
  <2>5. DOMAIN MadeEvents = DOMAIN made /\ \A i \in DOMAIN made : MadeEvents[i] = EventOf(i)
    BY DEF MadeEvents, EventOf
  <2>6. Len(made) - Len(Loadable) <= 1
    BY <2>8
  <2> QED
    BY <2>4, <2>5, <2>6
<1> QED
  BY <1>1, RecordAlways, PTL

LEMMA FaithfulReplay == RecordInv => ReplayFaithful
<1> SUFFICES ASSUME RecordInv, NEW p \in Processes, NEW i \in DOMAIN answers[p]
             PROVE  answers[p][i].decision
                      = IF Agrees(p, i) THEN to_decision(Loadable[i]) ELSE Fail
  BY DEF ReplayFaithful, Agrees
<1>1. RecordTypes /\ ReplayInv
  BY DEF RecordInv
<1>2. CASE mode = "Record"
  <2>1. answers[p] = <<>>
    BY <1>1, <1>2 DEF ReplayInv
  <2> QED
    BY <2>1
<1>3. CASE mode = "Replay"
  BY <1>1, <1>3 DEF ReplayInv, Faithful
<1> QED
  BY <1>1, <1>2, <1>3 DEF RecordTypes

\* ReplayFaithful: a replay answers from the recording as long as the sites agree, and with
\* the fail-fast error from the first disagreement on.
THEOREM ReplayFollows == RecordSpec => []ReplayFaithful
BY RecordAlways, FaithfulReplay, PTL

\* SameDecisions: a process that asks at the same sites does, wherever the answer decides
\* about a call, what was decided in the recording, with the same numbers.
THEOREM DecisionsRepeated == RecordSpec => []SameDecisions
<1>1. RecordInv => SameDecisions
  <2> SUFFICES ASSUME RecordInv, OneProcess, ~failed, NEW p \in Processes,
                      NEW i \in DOMAIN answers[p], i < Len(made),
                      made[i].site \notin MutationSites,
                      \A j \in 1 .. i : answers[p][j].site = made[j].site
               PROVE  Effect(answers[p][i].decision) = Effect(made[i].decision)
    BY DEF SameDecisions
  <2>1. RecordTypes /\ FileInv /\ ReplayFaithful
    BY FaithfulReplay DEF RecordInv
  <2>2. /\ Loadable \in Seq(Events) /\ Len(Loadable) \in {Len(made) - 1, Len(made)}
        /\ \A j \in 1 .. Len(Loadable) : Loadable[j] = EventOf(j)
    BY <2>1, LoadedEvents
  <2>3. /\ Len(made) \in Nat /\ i \in Nat \ {0}
        /\ \A j \in 1 .. Len(made) : /\ made[j].site \in Sites /\ made[j].decision \in Decisions
                                      /\ made[j].decision \in Possible(made[j].site)
    <3>1. Len(made) \in Nat /\ DOMAIN answers[p] = 1 .. Len(answers[p]) /\ Len(answers[p]) \in Nat
      BY <2>1, LenProperties DEF RecordTypes
    <3>2. \A j \in 1 .. Len(made) : made[j] \in MadeType
      BY <2>1, ElementOfSeq DEF RecordTypes
    <3> QED
      BY <3>1, <3>2 DEF MadeType
  <2>4. i <= Len(Loadable)
    BY <2>2, <2>3
  <2>5. \A j \in 1 .. i : Loadable[j] = EventOf(j) /\ j \in 1 .. Len(made)
    BY <2>2, <2>3, <2>4
  <2>6. \A j \in 1 .. i : Loadable[j].site = made[j].site
    BY <2>3, <2>5, EventForm DEF EventOf
  <2>7. Agrees(p, i)
    BY <2>4, <2>6 DEF Agrees
  <2>8. answers[p][i].decision = to_decision(Loadable[i])
    BY <2>1, <2>7 DEF ReplayFaithful, Agrees
  <2>9. Loadable[i] = from_decision(made[i].site, made[i].decision) /\ i \in 1 .. Len(made)
    BY <2>3, <2>5 DEF EventOf
  <2>10. made[i].decision.kind # "Mutate"
    BY <2>3, <2>9 DEF Possible
  <2> QED
    BY <2>3, <2>8, <2>9, <2>10, EventForm
<1> QED
  BY <1>1, RecordAlways, PTL
=============================================================================
