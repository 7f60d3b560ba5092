------------------------- MODULE FaultEngineProofs -------------------------
(***************************************************************************)
(* Proofs about FaultEngine, for every set of threads, every policy and    *)
(* every length of the calls.                                              *)
(***************************************************************************)
EXTENDS FaultEngine, FiniteSetTheorems, TLAPS

-----------------------------------------------------------------------------
(* Maxima and minima.                                                      *)

\* A finite set of integers that is not empty has a largest element: among its
\* subsets that have none, none is smallest.
LEMMA LargestExists ==
  ASSUME NEW S \in SUBSET Int, IsFiniteSet(S), S # {}
  PROVE  \E m \in S : \A y \in S : m >= y
<1> DEFINE Bad == {U \in FiniteSubsetsOf(S) : U # {} /\ ~\E m \in U : \A y \in U : m >= y}
<1>1. SUFFICES ASSUME Bad # {} PROVE FALSE
  <2>1. S \in FiniteSubsetsOf(S)
    BY DEF FiniteSubsetsOf
  <2> QED
    BY <1>1, <2>1
<1>2. PICK U \in Bad : \A V \in Bad : ~(<<V, U>> \in StrictSubsetOrdering(S))
  <2>1. IsWellFoundedOn(StrictSubsetOrdering(S), FiniteSubsetsOf(S))
    BY FS_StrictSubsetOrderingWellFounded
  <2>2. Bad \subseteq FiniteSubsetsOf(S)
    OBVIOUS
  <2> HIDE DEF Bad
  <2> QED
    BY <1>1, <2>1, <2>2, WFMin
<1>3. U \in SUBSET S /\ IsFiniteSet(U) /\ U # {} /\ ~\E m \in U : \A y \in U : m >= y
  BY <1>2 DEF FiniteSubsetsOf
<1>4. PICK x \in U : TRUE
  BY <1>3
<1>5. U \ {x} \in FiniteSubsetsOf(S)
  BY <1>3, FS_RemoveElement DEF FiniteSubsetsOf
<1>6. U \in FiniteSubsetsOf(S)
  BY <1>2
<1>7. U \ {x} \notin Bad
  <2>1. <<U \ {x}, U>> \in StrictSubsetOrdering(S)
    BY <1>3, <1>4 DEF StrictSubsetOrdering
  <2> HIDE DEF Bad
  <2> QED
    BY <1>2, <2>1
<1>8. CASE U \ {x} = {}
  BY <1>3, <1>4, <1>8
<1>9. CASE U \ {x} # {}
  <2>1. PICK m \in U \ {x} : \A y \in U \ {x} : m >= y
    BY <1>5, <1>7, <1>9
  <2>2. m \in Int /\ x \in Int /\ U \subseteq Int
    BY <1>3, <1>4, <2>1
  <2>3. \E k \in {m, x} : \A y \in U : k >= y
    <3>1. CASE m >= x
      BY <2>1, <2>2, <3>1
    <3>2. CASE x > m
      BY <2>1, <2>2, <3>2
    <3> QED
      BY <2>2, <3>1, <3>2
  <2> QED
    BY <1>3, <1>4, <2>1, <2>3
<1> QED
  BY <1>8, <1>9

\* Max is such an element.
LEMMA MaxIsLargest ==
  ASSUME NEW S \in SUBSET Int, IsFiniteSet(S), S # {}
  PROVE  Max(S) \in S /\ \A y \in S : Max(S) >= y
BY LargestExists DEF Max

\* The smaller of two integers.
LEMMA MinOfTwo ==
  ASSUME NEW a \in Int, NEW b \in Int
  PROVE  Min({a, b}) = IF a <= b THEN a ELSE b
<1>1. \E x \in {a, b} : \A y \in {a, b} : x <= y
  OBVIOUS
<1>2. PICK m : m = CHOOSE x \in {a, b} : \A y \in {a, b} : x <= y
  OBVIOUS
<1>3. m \in {a, b} /\ m <= a /\ m <= b
  BY <1>1, <1>2
<1> QED
  BY <1>2, <1>3 DEF Min
-----------------------------------------------------------------------------
(* The configuration of a call.                                            *)

Directions == {"base", "uplink", "downlink"}

\* The parts of a policy that a call may work with.
LEMMA ConfigParts ==
  ASSUME NEW p \in Policies
  PROVE  /\ ConfigOf[p] \in Config
         /\ \A b \in Directions : ConfigOf[p][b] \in Basic
<1>1. ConfigOf[p] \in Config
  BY EngineAssumption
<1>2. ConfigOf[p].base \in Basic /\ ConfigOf[p].uplink \in Basic /\ ConfigOf[p].downlink \in Basic
  BY <1>1 DEF Config
<1>3. ConfigOf[p]["base"] \in Basic /\ ConfigOf[p]["uplink"] \in Basic
      /\ ConfigOf[p]["downlink"] \in Basic
  BY <1>2
<1> QED
  BY <1>1, <1>3 DEF Directions

\* TopRate is the highest bandwidth of any policy.
LEMMA TopRateIsTop ==
  /\ TopRate \in Nat
  /\ \A p \in Policies, b \in Directions : ConfigOf[p][b].bandwidth <= TopRate
<1> DEFINE D == Policies \X Directions
           R == {ConfigOf[p][b].bandwidth : p \in Policies, b \in Directions}
           rate == [x \in D |-> ConfigOf[x[1]][x[2]].bandwidth]
<1>1. \A p \in Policies, b \in Directions : ConfigOf[p][b].bandwidth \in Nat
  BY ConfigParts DEF Basic
<1>2. IsFiniteSet(D)
  <2>1. IsFiniteSet(Directions)
    <3>1. Directions = ({"base"} \cup {"uplink"}) \cup {"downlink"}
      BY DEF Directions
    <3> QED
      BY <3>1, FS_Singleton, FS_AddElement
  <2> QED
    BY <2>1, FS_Product, BoundAssumption
<1>3. rate \in Surjection(D, R)
  <2>1. rate \in [D -> R]
    OBVIOUS
  <2>2. ASSUME NEW y \in R PROVE \E x \in D : rate[x] = y
    <3>1. \A q \in Policies, b \in Directions :
            <<q, b>> \in D /\ rate[<<q, b>>] = ConfigOf[q][b].bandwidth
      OBVIOUS
    <3>2. PICK q \in Policies, b \in Directions : y = ConfigOf[q][b].bandwidth
      OBVIOUS
    <3>3. <<q, b>> \in D /\ rate[<<q, b>>] = y
      BY <3>1, <3>2
    <3> HIDE DEF rate, D
    <3> QED
      BY <3>3
  <2> HIDE DEF rate, D, R
  <2> QED
    BY <2>1, <2>2 DEF Surjection
<1>4. IsFiniteSet(R)
  <2> HIDE DEF D, R, rate
  <2> QED
    BY <1>2, <1>3, FS_Surjection
<1>5. R # {}
  <2>1. PICK q \in Policies : TRUE
    BY BoundAssumption
  <2>2. "base" \in Directions
    BY DEF Directions
  <2>3. ConfigOf[q]["base"].bandwidth \in R
    BY <2>1, <2>2
  <2> HIDE DEF R
  <2> QED
    BY <2>3
<1>6. R \in SUBSET Int /\ R \subseteq Nat
  BY <1>1
<1>7. TopRate = Max(R)
  BY DEF TopRate, Directions
<1>8. \A p \in Policies, b \in Directions : ConfigOf[p][b].bandwidth \in R
  OBVIOUS
<1> HIDE DEF R
<1> QED
  BY <1>4, <1>5, <1>6, <1>7, <1>8, MaxIsLargest

\* Scaling by a half or by nothing never enlarges.
LEMMA ScaleBound ==
  ASSUME NEW n \in Nat, NEW k \in 0 .. 1
  PROVE  scale_u64(n, k) \in Nat /\ scale_u64(n, k) <= n
<1>1. CASE k = 0
  BY <1>1 DEF scale_u64
<1>2. CASE k = 1
  BY <1>2 DEF scale_u64
<1> QED
  BY <1>1, <1>2

Values == [latency : Nat, jitter : Nat, packet_loss : Nat, burst_loss_len : Nat, bandwidth : Nat]

\* What the stages use of the configuration of a call: its numbers, its bandwidth,
\* which is none above the highest, and the budget of its policy, which no schedule
\* changes.
LEMMA CfgFacts ==
  ASSUME NEW c, c.policy \in Policies, c.phase \in 0 .. 2, c.op \in Operations
  PROVE  /\ Cfg(c).base \in Values
         /\ Cfg(c).base.bandwidth <= TopRate
         /\ Cfg(c).half_open_after_bytes \in Nat
         /\ Cfg(c).session = ConfigOf[c.policy].session
         /\ Cfg(c).dns.delay \in Nat
<1> DEFINE p == c.policy
           s == apply_schedule(ConfigOf[p], c.phase)
           In(b) == b \in Values /\ b.bandwidth <= TopRate
<1>0. ConfigOf[p] \in Config
  BY ConfigParts
<1>1. TopRate \in Nat
  BY TopRateIsTop
<1>2. In(ConfigOf[p].base) /\ In(ConfigOf[p].uplink) /\ In(ConfigOf[p].downlink)
  <2>1. \A b \in Directions : ConfigOf[p][b] \in Values
    BY ConfigParts DEF Basic, Values
  <2>2. \A b \in Directions : In(ConfigOf[p][b])
    BY <2>1, TopRateIsTop
  <2>3. In(ConfigOf[p]["base"]) /\ In(ConfigOf[p]["uplink"]) /\ In(ConfigOf[p]["downlink"])
    BY <2>2 DEF Directions
  <2> QED
    BY <2>3
<1>3. ASSUME NEW b, In(b), NEW k \in 0 .. 1 PROVE In(Scaled(b, k))
  <2>1. scale_u64(b.bandwidth, k) <= TopRate
    BY <1>1, <1>3, ScaleBound DEF Values
  <2> QED
    BY <1>3, <2>1, ScaleBound DEF Scaled, Values
<1>4. In(Zero)
  BY <1>1 DEF Zero, Values
<1>5. ASSUME NEW b, NEW d, In(b), In(d) PROVE In(apply_direction_overrides(b, d))
  BY <1>5 DEF apply_direction_overrides, Values
<1>6. In(s.base) /\ In(s.uplink) /\ In(s.downlink)
  <2>1. CASE c.phase = 2
    BY <1>2, <2>1 DEF apply_schedule
  <2>2. CASE c.phase # 2 /\ ConfigOf[p].schedule = "ramp"
    <3>1. c.phase \in 0 .. 1
      BY <2>2
    <3>2. /\ s.base = Scaled(ConfigOf[p].base, c.phase)
          /\ s.uplink = Scaled(ConfigOf[p].uplink, c.phase)
          /\ s.downlink = Scaled(ConfigOf[p].downlink, c.phase)
      BY <2>2, <1>0 DEF apply_schedule, scale_faults, Config
    <3> HIDE DEF In, s, p
    <3> QED
      BY <1>2, <1>3, <3>1, <3>2
  <2>3. CASE c.phase # 2 /\ ConfigOf[p].schedule # "ramp"
    <3>1. s.base = Zero /\ s.uplink = Zero /\ s.downlink = Zero
      BY <2>3, <1>0 DEF apply_schedule, zero_faults, Config
    <3> HIDE DEF In, s, p
    <3> QED
      BY <1>4, <3>1
  <2> QED
    BY <2>1, <2>2, <2>3
<1>7. s.half_open_after_bytes \in Nat /\ s.session = ConfigOf[p].session /\ s.dns.delay \in Nat
  <2>1. s.half_open_after_bytes \in Nat /\ s.session = ConfigOf[p].session
    BY <1>0 DEF apply_schedule, scale_faults, zero_faults, Config
  <2>2. s.dns.delay \in {ConfigOf[p].dns.delay, 0}
             \cup {scale_u64(ConfigOf[p].dns.delay, k) : k \in 0 .. 1}
    BY <1>0 DEF apply_schedule, scale_faults, zero_faults, Config
  <2>3. ConfigOf[p].dns.delay \in Nat
    BY <1>0 DEF Config
  <2> QED
    BY <2>1, <2>2, <2>3, ScaleBound
<1>8. Cfg(c) = effective(s, c.op)
  BY DEF Cfg, EffectiveConfig
<1>9. CASE c.op = "dns"
  BY <1>6, <1>7, <1>8, <1>9 DEF effective
<1>10. ASSUME c.op \in {"send", "connect"}
       PROVE  Cfg(c) = [s EXCEPT !.base = apply_direction_overrides(s.base, s.uplink)]
  BY <1>8, <1>10 DEF effective
<1>11. ASSUME c.op = "recv"
       PROVE  Cfg(c) = [s EXCEPT !.base = apply_direction_overrides(s.base, s.downlink)]
  BY <1>8, <1>11 DEF effective
<1>12. {"base", "session", "half_open_after_bytes", "dns"} \subseteq DOMAIN s
  BY <1>0 DEF apply_schedule, scale_faults, zero_faults, Config
<1>13. CASE c.op \in {"send", "connect"}
  <2>1. /\ Cfg(c).base = apply_direction_overrides(s.base, s.uplink)
        /\ Cfg(c).session = s.session
        /\ Cfg(c).half_open_after_bytes = s.half_open_after_bytes
        /\ Cfg(c).dns = s.dns
    <3> HIDE DEF s
    <3> QED
      BY <1>10, <1>12, <1>13
  <2> HIDE DEF In, s, p
  <2>2. In(Cfg(c).base)
    BY <1>5, <1>6, <2>1
  <2> QED
    BY <1>7, <2>1, <2>2 DEF In, p
<1>14. CASE c.op = "recv"
  <2>1. /\ Cfg(c).base = apply_direction_overrides(s.base, s.downlink)
        /\ Cfg(c).session = s.session
        /\ Cfg(c).half_open_after_bytes = s.half_open_after_bytes
        /\ Cfg(c).dns = s.dns
    <3> HIDE DEF s
    <3> QED
      BY <1>11, <1>12, <1>14
  <2> HIDE DEF In, s, p
  <2>2. In(Cfg(c).base)
    BY <1>5, <1>6, <2>1
  <2> QED
    BY <1>7, <2>1, <2>2 DEF In, p
<1> QED
  BY <1>9, <1>13, <1>14 DEF Operations, Streams
-----------------------------------------------------------------------------
(* The calls.                                                              *)

PipelineStages == {"R2", "R3", "R4", "R5", "R6"}

\* The stages follow one another in their order; a stream call meets each of R2 to R5.
LEMMA StageOrder ==
  ASSUME NEW op \in Operations, NEW i \in 1 .. 6
  PROVE  /\ StageFrom(i, op) \in PipelineStages \cup {"apply"}
         /\ op \in Streams /\ i <= 4 => StageFrom(i, op) \in {"R2", "R3", "R4", "R5"}
<1> DEFINE rest == {j \in i .. 5 : applies_to(Pipeline[j], op)}
<1>1. CASE rest = {}
  <2>1. StageFrom(i, op) = "apply"
    BY <1>1 DEF StageFrom
  <2>2. ASSUME op \in Streams, i <= 4 PROVE FALSE
    <3>1. applies_to(Pipeline[4], op)
      BY <2>2 DEF applies_to, Pipeline, Streams
    <3> QED
      BY <1>1, <2>2, <3>1
  <2> QED
    BY <2>1, <2>2
<1>2. CASE rest # {}
  <2>1. rest \subseteq 1 .. 5
    OBVIOUS
  <2>2. \E x \in rest : \A y \in rest : x <= y
    <3> HIDE DEF rest
    <3>1. CASE 1 \in rest
      BY <2>1, <3>1
    <3>2. CASE 1 \notin rest /\ 2 \in rest
      BY <2>1, <3>2
    <3>3. CASE 1 \notin rest /\ 2 \notin rest /\ 3 \in rest
      BY <2>1, <3>3
    <3>4. CASE 1 \notin rest /\ 2 \notin rest /\ 3 \notin rest /\ 4 \in rest
      BY <2>1, <3>4
    <3>5. CASE 1 \notin rest /\ 2 \notin rest /\ 3 \notin rest /\ 4 \notin rest /\ 5 \in rest
      BY <2>1, <3>5
    <3>6. PICK x \in rest : x \in 1 .. 5
      BY <1>2, <2>1
    <3>7. x = 1 \/ x = 2 \/ x = 3 \/ x = 4 \/ x = 5
      BY <3>6
    <3> QED
      BY <3>1, <3>2, <3>3, <3>4, <3>5, <3>6, <3>7
  <2>3. Min(rest) \in rest
    <3> HIDE DEF rest
    <3> QED
      BY <2>2 DEF Min
  <2>4. StageFrom(i, op) = Pipeline[Min(rest)]
    BY <1>2 DEF StageFrom
  <2>5. PICK j \in 1 .. 5 : j = Min(rest) /\ applies_to(Pipeline[j], op)
    BY <2>3
  <2>6. StageFrom(i, op) = Pipeline[j]
    BY <2>4, <2>5
  <2>7. op \in Streams => j # 5
    <3>1. Pipeline[5] = "R6"
      BY DEF Pipeline
    <3>2. applies_to("R6", op) => op = "dns"
      BY DEF applies_to
    <3> QED
      BY <2>5, <3>1, <3>2 DEF Streams
  <2> QED
    BY <2>5, <2>6, <2>7 DEF Pipeline, PipelineStages
<1> QED
  BY <1>1, <1>2

CallType ==
  [op : Operations, len : Nat, policy : Policies \cup {Unset}, phase : 0 .. 2,
   delay : Int, moved : Nat, late : BOOLEAN]

\* A thread that is not idle has a call, under a policy unless it went straight to the
\* original function.
CallInv ==
  /\ pc \in [Threads -> {"idle", "lock", "apply", "orig", "record", "again"} \cup Stages]
  /\ DOMAIN call = Threads /\ call = [t \in Threads |-> call[t]]
  /\ \A t \in Threads :
       pc[t] # "idle" =>
         /\ call[t] \in CallType
         /\ pc[t] \notin {"orig", "record"} => call[t].policy \in Policies

\* A stage that continues keeps the call.
LEMMA ContinueCall ==
  ASSUME CallInv, NEW t \in Threads, pc[t] \in Stages,
         NEW i \in 1 .. 5, NEW d \in Int, Continue(t, i, d)
  PROVE  /\ CallInv'
         /\ call'[t] = [call[t] EXCEPT !.delay = Sat(call[t].delay + d)]
         /\ pc'[t] = StageFrom(i + 1, call[t].op)
         /\ \A u \in Threads : u # t => pc'[u] = pc[u] /\ call'[u] = call[u]
<1> USE EngineAssumption
<1>1. call[t] \in CallType /\ call[t].policy \in Policies /\ call[t].op \in Operations
  BY DEF CallInv, CallType, Stages
<1>2. StageFrom(i + 1, call[t].op) \in PipelineStages \cup {"apply"}
  BY <1>1, StageOrder
<1>3. /\ pc'[t] = StageFrom(i + 1, call[t].op)
      /\ call'[t] = [call[t] EXCEPT !.delay = Sat(call[t].delay + d)]
      /\ \A u \in Threads : u # t => pc'[u] = pc[u] /\ call'[u] = call[u]
  BY DEF Continue, CallInv
<1>4. call'[t] \in CallType /\ call'[t].policy = call[t].policy /\ call'[t].op = call[t].op
  <2>1. Sat(call[t].delay + d) \in Int
    BY <1>1 DEF Sat, CallType
  <2> QED
    BY <1>1, <1>3, <2>1 DEF CallType
<1>5. pc' \in [Threads -> {"idle", "lock", "apply", "orig", "record", "again"} \cup Stages]
  BY <1>2 DEF Continue, CallInv, PipelineStages, Stages
<1>6. DOMAIN call' = Threads /\ call' = [u \in Threads |-> call'[u]]
  BY DEF Continue, CallInv
<1> QED
  BY <1>1, <1>3, <1>4, <1>5, <1>6 DEF CallInv
\* A stage that ends the call leaves the thread idle.
LEMMA TerminalCall ==
  ASSUME CallInv, NEW t \in Threads, Terminal(t)
  PROVE  /\ CallInv'
         /\ pc'[t] = "idle"
         /\ \A u \in Threads : u # t => pc'[u] = pc[u] /\ call'[u] = call[u]
BY DEF CallInv, Terminal

\* A call begins with a policy, before the stages.
LEMMA EnterCall ==
  ASSUME CallInv, NEW t \in Threads, NEW op \in Operations, NEW len \in Nat,
         NEW p \in Policies, Enter(t, op, len, p)
  PROVE  /\ CallInv'
         /\ pc'[t] = "lock"
         /\ call'[t].late = CutOff(call'[t])
         /\ \A u \in Threads : u # t => pc'[u] = pc[u] /\ call'[u] = call[u]
<1>1. PICK phase \in Phases(ConfigOf[p]) :
        LET c == [ op |-> op, len |-> len, policy |-> p, phase |-> phase,
                   delay |-> 0, moved |-> 0, late |-> FALSE ]
        IN  /\ call' = [call EXCEPT ![t] = [c EXCEPT !.late = CutOff(c)]]
            /\ pc' = [pc EXCEPT ![t] = "lock"]
  BY DEF Enter
<1> DEFINE c == [ op |-> op, len |-> len, policy |-> p, phase |-> phase,
                  delay |-> 0, moved |-> 0, late |-> FALSE ]
           d == [c EXCEPT !.late = CutOff(c)]
<1>2. phase \in 0 .. 2
  <2>1. ConfigOf[p].schedule \in {"none", "window", "ramp"}
    BY ConfigParts DEF Config
  <2> QED
    BY <2>1 DEF Phases
<1>3. CutOff(c) \in BOOLEAN /\ CutOff(d) = CutOff(c)
  BY DEF CutOff, Cfg
<1>4. d \in CallType /\ d.policy = p /\ d.late = CutOff(c)
  BY <1>2, <1>3 DEF CallType
<1>5. /\ call' = [call EXCEPT ![t] = d]
      /\ pc' = [pc EXCEPT ![t] = "lock"]
  BY <1>1
<1> HIDE DEF c, d
<1> QED
  BY <1>3, <1>4, <1>5 DEF CallInv
\* Each stage continues with some delay, or ends the call.
LEMMA StageOutcome ==
  ASSUME CallInv, bucket.tokens \in Int, bucket.age \in Int, NEW t \in Threads
  PROVE  /\ ChaosBase(t) => Terminal(t) \/ \E d \in Int : Continue(t, 1, d)
         /\ FlowControl(t) => \E d \in Int : Continue(t, 2, d)
         /\ TimingVariation(t) => \E d \in Int : Continue(t, 3, d)
         /\ TransportFaults(t) => Terminal(t) \/ Continue(t, 4, 0)
         /\ ResolverFaults(t) => Terminal(t) \/ \E d \in Int : Continue(t, 5, d)
<1> USE EngineAssumption
<1>0. ASSUME pc[t] \in Stages
      PROVE  /\ Cfg(call[t]).base \in Values /\ Cfg(call[t]).dns.delay \in Nat
             /\ call[t].len \in Nat
  <2>1. call[t] \in CallType /\ call[t].policy \in Policies
    BY <1>0 DEF CallInv, Stages
  <2> QED
    BY <2>1, CfgFacts DEF CallType
<1>1. ASSUME ChaosBase(t) PROVE Terminal(t) \/ \E d \in Int : Continue(t, 1, d)
  <2>1. Cfg(call[t]).base.latency \in Int
    BY <1>0, <1>1 DEF ChaosBase, Stages, Values
  <2> QED
    BY <1>1, <2>1 DEF ChaosBase
<1>2. ASSUME FlowControl(t) PROVE \E d \in Int : Continue(t, 2, d)
  <2> DEFINE rate == Cfg(call[t]).base.bandwidth
             b == refill(bucket, rate)
             d == ((call[t].len - b.tokens) * Second) \div rate
  <2>1. rate \in Nat /\ call[t].len \in Nat
    BY <1>0, <1>2 DEF FlowControl, Stages, Values
  <2>2. b.tokens \in Int
    <3>1. \A a \in Int, z \in Int : Min({a, z}) \in Int
      BY MinOfTwo
    <3>2. bucket.tokens + (bucket.age * rate) \div Second \in Int /\ 2 * rate \in Int
      BY <2>1
    <3> HIDE DEF rate
    <3> QED
      BY <3>1, <3>2 DEF refill
  <2>3. rate # 0 => d \in Int
    <3> HIDE DEF rate, b
    <3> QED
      BY <2>1, <2>2
  <2>4. Continue(t, 2, 0) \/ (rate # 0 /\ Continue(t, 2, d))
    <3>1. ASSUME rate = 0 PROVE Continue(t, 2, 0)
      BY <1>2, <3>1, Zenon DEF FlowControl
    <3>2. ASSUME rate # 0, b.tokens >= call[t].len PROVE Continue(t, 2, 0)
      BY <1>2, <3>2, Zenon DEF FlowControl
    <3>3. CASE rate # 0 /\ ~(b.tokens >= call[t].len)
      BY <1>2, <3>3, Zenon DEF FlowControl
    <3> HIDE DEF rate, b, d
    <3> QED
      BY <3>1, <3>2, <3>3
  <2> HIDE DEF d, rate
  <2> QED
    BY <2>3, <2>4
<1>3. ASSUME TimingVariation(t) PROVE \E d \in Int : Continue(t, 3, d)
  <2>1. Cfg(call[t]).base.jitter \in Nat
    BY <1>0, <1>3 DEF TimingVariation, Stages, Values
  <2> QED
    BY <1>3, <2>1 DEF TimingVariation
<1>4. ASSUME TransportFaults(t) PROVE Terminal(t) \/ Continue(t, 4, 0)
  BY <1>4 DEF TransportFaults
<1>5. ASSUME ResolverFaults(t) PROVE Terminal(t) \/ \E d \in Int : Continue(t, 5, d)
  <2>1. Cfg(call[t]).dns.delay \in Int
    BY <1>0, <1>5 DEF ResolverFaults, Stages
  <2> QED
    BY <1>5, <2>1 DEF ResolverFaults
<1> QED
  BY <1>1, <1>2, <1>3, <1>4, <1>5

-----------------------------------------------------------------------------
(* Bursts and waits, which one stage and one step change.                  *)

\* What is owed covers the burst that is running.
BurstInv ==
  /\ burst = Unset \/ burst \in Nat
  /\ owed \in Nat
  /\ burst # Unset => owed >= burst

\* The entry of latency_start_by_fd dates from the first EAGAIN.
WaitInv == polling = waiting /\ (waiting = Unset \/ waiting \in Nat)
\* Every step keeps both.
LEMMA BurstStep ==
  ASSUME CallInv, BurstInv, [Next]_vars
  PROVE  BurstInv'
<1> USE EngineAssumption
<1>1. ASSUME NEW t \in Threads, ChaosBase(t) PROVE BurstInv'
  <2> DEFINE len == Cfg(call[t]).base.burst_loss_len
  <2>1. len \in Nat
    <3>1. call[t] \in CallType /\ call[t].policy \in Policies
      BY <1>1 DEF CallInv, ChaosBase
    <3> QED
      BY <3>1, CfgFacts DEF CallType, Values
  <2>2. \/ /\ burst # Unset /\ burst > 0
           /\ burst' = BurstAfterDrop(burst) /\ owed' = owed - 1
        \/ /\ burst = Unset \/ burst = 0
           /\ burst' = BurstOf(len) /\ owed' = owed + (IF len > 0 THEN len - 1 ELSE 0)
        \/ UNCHANGED <<burst, owed>>
    BY <1>1 DEF ChaosBase
  <2> HIDE DEF len
  <2> QED
    BY <2>1, <2>2 DEF BurstInv, BurstAfterDrop, BurstOf
<1>2. ASSUME NEW t \in Threads, ThreadStep(t), ~ChaosBase(t) PROVE UNCHANGED <<burst, owed>>
  BY <1>2 DEF ThreadStep, Start, StartUnconfigured, Retry, Evaluate, SessionGuard, FlowControl,
     TimingVariation, TransportFaults, ResolverFaults, Apply, Original, Record, maps, history
<1>3. CASE Close \/ Tick \/ UNCHANGED vars
  BY <1>3 DEF Close, Tick, vars, BurstInv
<1> QED
  BY <1>1, <1>2, <1>3 DEF Next, BurstInv

\* The wait and its history start, pass and end together.
LEMMA WaitStep ==
  ASSUME WaitInv, [Next]_vars
  PROVE  WaitInv'
<1> USE EngineAssumption
<1>1. ASSUME NEW t \in Threads, Apply(t) PROVE WaitInv'
  BY <1>1 DEF Apply, DelayPending, WaitInv
<1>2. ASSUME NEW t \in Threads, ThreadStep(t), ~Apply(t) PROVE UNCHANGED <<waiting, polling>>
  BY <1>2 DEF ThreadStep, Start, StartUnconfigured, Retry, Evaluate, SessionGuard, ChaosBase,
     FlowControl, TimingVariation, TransportFaults, ResolverFaults, Original, Record, maps, history
<1>3. CASE Close \/ UNCHANGED vars
  BY <1>3 DEF Close, vars, WaitInv
<1>4. CASE Tick
  BY <1>4 DEF Tick, Sat, WaitInv
<1> QED
  BY <1>1, <1>2, <1>3, <1>4 DEF Next, WaitInv
-----------------------------------------------------------------------------
(* Calls keep their shape.                                                 *)

\* Every step keeps CallInv.
LEMMA CallStep ==
  ASSUME CallInv, bucket.tokens \in Int, bucket.age \in Int, [Next]_vars
  PROVE  CallInv'
<1> USE EngineAssumption
<1>0. CASE UNCHANGED vars
  BY <1>0 DEF vars, CallInv
<1>1. CASE Close
  BY <1>1 DEF Close, CallInv
<1>2. CASE Tick
  <2>1. pc' = pc /\ DOMAIN call' = Threads /\ call' = [t \in Threads |-> call'[t]]
    BY <1>2 DEF Tick
  <2>2. ASSUME NEW t \in Threads, pc[t] # "idle"
        PROVE  call'[t] \in CallType /\ call'[t].policy = call[t].policy
    <3>1. call[t] \in CallType
      BY <2>2 DEF CallInv
    <3>2. call[t].delay - 1 \in Int
      BY <3>1 DEF CallType
    <3>3. call'[t] = call[t] \/ call'[t] = [call[t] EXCEPT !.delay = call[t].delay - 1]
      BY <1>2 DEF Tick
    <3> QED
      BY <3>1, <3>2, <3>3 DEF CallType
  <2> QED
    BY <2>1, <2>2 DEF CallInv
<1>3. ASSUME NEW t \in Threads, Start(t) PROVE CallInv'
  <2>1. PICK op \in Operations, p \in Policies, len \in Nat : Enter(t, op, len, p)
    BY <1>3 DEF Start
  <2> QED
    BY <2>1, EnterCall
<1>4. ASSUME NEW t \in Threads, StartUnconfigured(t) PROVE CallInv'
  <2>1. PICK op \in Streams, len \in Lengths :
          call' = [call EXCEPT ![t] =
            [ op |-> op, len |-> len, policy |-> Unset, phase |-> 2,
              delay |-> 0, moved |-> 0, late |-> FALSE ]]
    BY <1>4 DEF StartUnconfigured
  <2>2. pc' = [pc EXCEPT ![t] = "orig"]
    BY <1>4 DEF StartUnconfigured
  <2>3. [ op |-> op, len |-> len, policy |-> Unset, phase |-> 2,
          delay |-> 0, moved |-> 0, late |-> FALSE ] \in CallType
    BY DEF CallType, Operations
  <2> QED
    BY <2>1, <2>2, <2>3 DEF CallInv
<1>5. ASSUME NEW t \in Threads, Retry(t) PROVE CallInv'
  <2>1. call[t] \in CallType /\ call[t].policy \in Policies
    BY <1>5 DEF Retry, CallInv
  <2>2. PICK op \in Operations, p \in Policies, len \in Nat : Enter(t, op, len, p)
    BY <1>5, <2>1 DEF Retry, CallType
  <2> QED
    BY <2>2, EnterCall
<1>6. ASSUME NEW t \in Threads, Evaluate(t) \/ SessionGuard(t) PROVE CallInv'
  <2>1. call[t] \in CallType /\ call[t].policy \in Policies
    BY <1>6 DEF Evaluate, SessionGuard, CallInv
  <2>2. StageFrom(1, call[t].op) \in Stages \cup {"apply"}
    BY <2>1, StageOrder DEF CallType, PipelineStages, Stages
  <2>3. ASSUME Terminal(t) PROVE CallInv'
    BY <2>3, TerminalCall
  <2>4. Terminal(t) \/ (call' = call /\ \E l \in Stages \cup {"apply"} : pc' = [pc EXCEPT ![t] = l])
    BY <1>6, <2>2 DEF Evaluate, SessionGuard, Stages
  <2> QED
    BY <2>1, <2>3, <2>4 DEF CallInv, Stages
<1>7. ASSUME NEW t \in Threads,
             \/ ChaosBase(t) \/ FlowControl(t) \/ TimingVariation(t)
             \/ TransportFaults(t) \/ ResolverFaults(t)
      PROVE  CallInv'
  <2>1. pc[t] \in Stages
    BY <1>7 DEF ChaosBase, FlowControl, TimingVariation, TransportFaults, ResolverFaults, Stages
  <2>2. Terminal(t) \/ \E i \in 1 .. 5, d \in Int : Continue(t, i, d)
    BY <1>7, StageOutcome
  <2> QED
    BY <2>1, <2>2, TerminalCall, ContinueCall
<1>8. ASSUME NEW t \in Threads, Apply(t) PROVE CallInv'
  <2>1. call' = call /\ (pc' = [pc EXCEPT ![t] = "orig"] \/ pc' = [pc EXCEPT ![t] = "again"])
    BY <1>8 DEF Apply
  <2>2. call[t] \in CallType /\ call[t].policy \in Policies
    BY <1>8 DEF Apply, CallInv
  <2> QED
    BY <2>1, <2>2 DEF CallInv
<1>9. ASSUME NEW t \in Threads, Original(t) PROVE CallInv'
  <2>1. call[t] \in CallType
    BY <1>9 DEF Original, CallInv
  <2>2. CASE call' = [call EXCEPT ![t] = NoCall] /\ pc' = [pc EXCEPT ![t] = "idle"]
    BY <2>2 DEF CallInv
  <2>3. CASE call[t].op \in Streams
    <3>1. PICK n \in 0 .. call[t].len : /\ call' = [call EXCEPT ![t].moved = n]
                                        /\ pc' = [pc EXCEPT ![t] = "record"]
      BY <1>9, <2>3 DEF Original
    <3>2. n \in Nat
      BY <2>1 DEF CallType
    <3>3. call'[t] \in CallType
      BY <2>1, <3>1, <3>2 DEF CallType, CallInv
    <3> QED
      BY <3>1, <3>3 DEF CallInv
  <2> QED
    BY <1>9, <2>2, <2>3 DEF Original
<1>10. ASSUME NEW t \in Threads, Record(t) PROVE CallInv'
  BY <1>10 DEF Record, CallInv
<1> QED
  BY <1>0, <1>1, <1>2, <1>3, <1>4, <1>5, <1>6, <1>7, <1>8, <1>9, <1>10 DEF Next, ThreadStep
-----------------------------------------------------------------------------
(* Half-open connections.                                                  *)

\* The bytes R5 looks at are the ones the calls have returned, and a call that began
\* too late still is, and has not passed R5.
CutInv ==
  /\ seen \in 0 .. Cap /\ settled = seen
  /\ \A t \in Threads :
       pc[t] # "idle" /\ call[t].late =>
         CutOff(call[t]) /\ pc[t] \in {"lock", "R1", "R2", "R3", "R4", "R5"}

\* What is cut off stays so while the bytes only grow.
LEMMA CutOffStays ==
  ASSUME CallInv, settled \in Nat, settled' \in Nat, settled <= settled',
         NEW t \in Threads, pc[t] \notin {"idle", "orig", "record"}, CutOff(call[t]),
         NEW c, c.op = call[t].op, c.policy = call[t].policy, c.phase = call[t].phase,
         c = call'[t]
  PROVE  CutOff(call[t])'
<1>1. call[t] \in CallType /\ call[t].policy \in Policies
  BY DEF CallInv
<1>2. Cfg(c) = Cfg(call[t]) /\ Cfg(call[t]).half_open_after_bytes \in Nat
  BY <1>1, CfgFacts DEF Cfg, CallType
<1>3. Cfg(c).half_open_after_bytes > 0 /\ settled >= Cfg(c).half_open_after_bytes /\ c.op \in Streams
  BY <1>2 DEF CutOff
<1>4. settled' >= Cfg(c).half_open_after_bytes
  BY <1>2, <1>3
<1>5. Cfg(call'[t]) = Cfg(c)
  OBVIOUS
<1>6. Cfg(call[t])' = Cfg(call'[t])
  BY DEF Cfg, EffectiveConfig
<1> QED
  BY <1>3, <1>4, <1>5, <1>6 DEF CutOff
SameCall(c, d) == c.op = d.op /\ c.policy = d.policy /\ c.phase = d.phase /\ c.late = d.late

\* The same of a call that keeps its configuration through a step.
LEMMA CutKept ==
  ASSUME CallInv, CutInv, settled' \in Nat, settled <= settled', NEW t \in Threads,
         pc[t] # "idle", SameCall(call'[t], call[t]), call'[t].late
  PROVE  CutOff(call[t])' /\ pc[t] \in {"lock", "R1", "R2", "R3", "R4", "R5"}
<1>1. CutOff(call[t]) /\ pc[t] \in {"lock", "R1", "R2", "R3", "R4", "R5"}
  BY DEF CutInv, SameCall
<1>2. settled \in Nat
  BY EngineAssumption DEF CutInv
<1> QED
  BY <1>1, <1>2, CutOffStays DEF SameCall

\* Every step keeps CutInv: above all R5, which ends what began too late.
LEMMA CutStep ==
  ASSUME CallInv, CallInv', bucket.tokens \in Int, bucket.age \in Int, CutInv, [Next]_vars
  PROVE  CutInv'
<1> USE EngineAssumption
<1>0. settled \in Nat /\ seen \in 0 .. Cap /\ settled = seen
  BY DEF CutInv
<1> DEFINE Early == {"lock", "R1", "R2", "R3", "R4", "R5"}
\* It is enough to look at the threads whose call changes.
<1>1. ASSUME NEW t \in Threads, UNCHANGED <<seen, settled>>,
             \A u \in Threads : u # t => pc'[u] = pc[u] /\ call'[u] = call[u],
             pc'[t] # "idle" /\ call'[t].late => CutOff(call[t])' /\ pc'[t] \in Early
      PROVE  CutInv'
  <2>1. ASSUME NEW u \in Threads, pc'[u] # "idle", call'[u].late
        PROVE  CutOff(call[u])' /\ pc'[u] \in Early
    <3>1. CASE u = t
      BY <1>1, <2>1, <3>1
    <3>2. CASE u # t
      <4>1. pc'[u] = pc[u] /\ call'[u] = call[u]
        BY <1>1, <3>2
      <4>2. SameCall(call'[u], call[u]) /\ settled' \in Nat /\ settled <= settled'
        BY <1>0, <1>1, <4>1 DEF SameCall
      <4> QED
        BY <2>1, <4>1, <4>2, CutKept
    <3> QED
      BY <3>1, <3>2
  <2> QED
    BY <1>0, <1>1, <2>1 DEF CutInv
\* A step of a stage, with the call it leaves.
<1>2. ASSUME NEW t \in Threads, pc[t] \in Stages, UNCHANGED <<seen, settled>>,
             \/ Terminal(t)
             \/ \E i \in 1 .. 3, d \in Int : Continue(t, i, d)
             \/ \E i \in 1 .. 5, d \in Int : ~call[t].late /\ Continue(t, i, d)
      PROVE  CutInv'
  <2>1. CASE Terminal(t)
    BY <1>1, <1>2, <2>1, TerminalCall
  <2>2. ASSUME NEW i \in 1 .. 5, NEW d \in Int, Continue(t, i, d), i <= 3 \/ ~call[t].late
        PROVE  CutInv'
    <3>1. /\ call'[t] = [call[t] EXCEPT !.delay = Sat(call[t].delay + d)]
          /\ pc'[t] = StageFrom(i + 1, call[t].op)
          /\ \A u \in Threads : u # t => pc'[u] = pc[u] /\ call'[u] = call[u]
      BY <1>2, <2>2, ContinueCall
    <3>2. call[t] \in CallType
      BY <1>2 DEF CallInv, Stages
    <3>3. SameCall(call'[t], call[t])
      BY <3>1, <3>2 DEF SameCall, CallType
    <3>4. ASSUME call'[t].late PROVE CutOff(call[t])' /\ pc'[t] \in Early
      <4>1. CutOff(call[t])' /\ i <= 3 /\ call[t].op \in Streams
        <5>1. call[t].late /\ i <= 3
          BY <2>2, <3>3, <3>4 DEF SameCall
        <5>2. CutOff(call[t])'
          BY <1>0, <1>2, <3>3, <3>4, CutKept DEF Stages
        <5>3. call[t].op \in Streams
          BY <1>2, <5>1 DEF CutInv, CutOff, Stages
        <5> QED
          BY <5>1, <5>2, <5>3
      <4>2. pc'[t] \in {"R2", "R3", "R4", "R5"}
        BY <3>1, <3>2, <4>1, StageOrder DEF CallType
      <4> QED
        BY <4>1, <4>2
    <3> QED
      BY <1>1, <1>2, <3>1, <3>4
  <2> QED
    BY <1>2, <2>1, <2>2
<1>3. CASE UNCHANGED vars
  BY <1>3 DEF vars, CutInv, CutOff, Cfg
<1>4. CASE Close
  BY <1>4 DEF Close, CutInv
<1>5. CASE Tick
  <2>1. UNCHANGED <<pc, seen, settled>>
    BY <1>5 DEF Tick
  <2>2. ASSUME NEW t \in Threads, pc[t] # "idle" PROVE SameCall(call'[t], call[t])
    <3>1. call[t] \in CallType
      BY <2>2 DEF CallInv
    <3>2. call'[t] = call[t] \/ call'[t] = [call[t] EXCEPT !.delay = call[t].delay - 1]
      BY <1>5 DEF Tick
    <3> QED
      BY <3>1, <3>2 DEF CallType, SameCall
  <2> QED
    BY <1>0, <2>1, <2>2, CutKept DEF CutInv
<1>6. ASSUME NEW t \in Threads, Start(t) \/ Retry(t) PROVE CutInv'
  <2>1. PICK op \in Operations, p \in Policies, len \in Nat : Enter(t, op, len, p)
    <3>1. CASE Start(t)
      BY <3>1 DEF Start
    <3>2. CASE Retry(t)
      <4>1. call[t] \in CallType /\ call[t].policy \in Policies
        BY <3>2 DEF Retry, CallInv
      <4> QED
        BY <3>2, <4>1 DEF Retry, CallType
    <3> QED
      BY <1>6, <3>1, <3>2
  <2>2. UNCHANGED <<seen, settled>>
    BY <1>6 DEF Start, Retry, maps, history
  <2>3. /\ pc'[t] = "lock" /\ call'[t].late = CutOff(call'[t])
        /\ \A u \in Threads : u # t => pc'[u] = pc[u] /\ call'[u] = call[u]
    BY <2>1, EnterCall
  <2>4. CutOff(call'[t]) <=> CutOff(call[t])'
    BY <2>2 DEF CutOff, Cfg, EffectiveConfig
  <2> QED
    BY <1>1, <2>2, <2>3, <2>4
<1>7. ASSUME NEW t \in Threads, StartUnconfigured(t) PROVE CutInv'
  <2>1. /\ UNCHANGED <<seen, settled>> /\ call'[t].late = FALSE
        /\ \A u \in Threads : u # t => pc'[u] = pc[u] /\ call'[u] = call[u]
    BY <1>7 DEF StartUnconfigured, maps, history, CallInv
  <2> QED
    BY <1>1, <2>1
<1>8. ASSUME NEW t \in Threads, Evaluate(t) \/ SessionGuard(t) PROVE CutInv'
  <2>1. call[t] \in CallType /\ pc[t] \in {"lock", "R1"}
    BY <1>8 DEF Evaluate, SessionGuard, CallInv
  <2>2. UNCHANGED <<seen, settled>>
    BY <1>8 DEF Evaluate, SessionGuard, maps, history
  <2>3. CASE Terminal(t)
    BY <1>1, <2>2, <2>3, TerminalCall
  <2>4. CASE call' = call /\ \E l \in {"R1", StageFrom(1, call[t].op)} :
                                pc' = [pc EXCEPT ![t] = l]
    <3>1. SameCall(call'[t], call[t])
      BY <2>4 DEF SameCall
    <3>2. ASSUME call'[t].late PROVE CutOff(call[t])' /\ pc'[t] \in Early
      <4>1. CutOff(call[t])'
        BY <1>0, <2>1, <2>2, <3>1, <3>2, CutKept
      <4>2. call[t].op \in Streams
        BY <2>1, <2>4, <3>2 DEF CutInv, CutOff
      <4>3. StageFrom(1, call[t].op) \in {"R2", "R3", "R4", "R5"}
        BY <2>1, <4>2, StageOrder DEF CallType
      <4> QED
        BY <2>4, <4>1, <4>3 DEF CallInv
    <3>3. \A u \in Threads : u # t => pc'[u] = pc[u] /\ call'[u] = call[u]
      BY <2>4 DEF CallInv
    <3> QED
      BY <1>1, <2>2, <3>2, <3>3
  <2> QED
    BY <1>8, <2>3, <2>4 DEF Evaluate, SessionGuard
<1>9. ASSUME NEW t \in Threads, ChaosBase(t) \/ FlowControl(t) \/ TimingVariation(t)
      PROVE  CutInv'
  <2>1. pc[t] \in Stages /\ UNCHANGED <<seen, settled>>
    BY <1>9 DEF ChaosBase, FlowControl, TimingVariation, Stages, maps, history
  <2>2. Terminal(t) \/ \E i \in 1 .. 3, d \in Int : Continue(t, i, d)
    BY <1>9, StageOutcome
  <2> QED
    BY <1>2, <2>1, <2>2
<1>10. ASSUME NEW t \in Threads, TransportFaults(t) PROVE CutInv'
  <2>1. pc[t] = "R5" /\ UNCHANGED <<seen, settled>>
    BY <1>10 DEF TransportFaults, maps, history
  <2>2. ASSUME call[t].late PROVE Terminal(t)
    <3>1. CutOff(call[t])
      BY <2>1, <2>2 DEF CutInv
    <3>2. HalfOpen(call[t].op, Cfg(call[t]))
      BY <1>0, <3>1 DEF CutOff, HalfOpen, Streams
    <3> QED
      BY <1>10, <3>2 DEF TransportFaults
  <2>3. Terminal(t) \/ Continue(t, 4, 0)
    BY <1>10, StageOutcome
  <2> QED
    BY <1>2, <2>1, <2>2, <2>3 DEF Stages
<1>11. ASSUME NEW t \in Threads, ResolverFaults(t) PROVE CutInv'
  <2>1. pc[t] = "R6" /\ UNCHANGED <<seen, settled>>
    BY <1>11 DEF ResolverFaults, maps, history
  <2>2. ~call[t].late
    BY <2>1 DEF CutInv
  <2>3. Terminal(t) \/ \E d \in Int : Continue(t, 5, d)
    BY <1>11, StageOutcome
  <2> QED
    BY <1>2, <2>1, <2>2, <2>3 DEF Stages
<1>12. ASSUME NEW t \in Threads, Apply(t) \/ Original(t) PROVE CutInv'
  <2>1. /\ pc[t] \in {"apply", "orig"} /\ UNCHANGED <<seen, settled>>
        /\ \A u \in Threads : u # t => pc'[u] = pc[u] /\ call'[u] = call[u]
    BY <1>12 DEF Apply, Original, maps, CallInv
  <2>2. ~call[t].late /\ call[t] \in CallType
    BY <2>1 DEF CutInv, CallInv
  <2>3. pc'[t] = "idle" \/ call'[t] = call[t] \/ \E n : call'[t] = [call[t] EXCEPT !.moved = n]
    BY <1>12 DEF Apply, Original, CallInv
  <2>4. pc'[t] # "idle" => ~call'[t].late
    BY <2>2, <2>3 DEF CallType
  <2> QED
    BY <1>1, <2>1, <2>4
<1>13. ASSUME NEW t \in Threads, Record(t) PROVE CutInv'
  <2>1. call[t].moved \in Nat
    BY <1>13 DEF Record, CallInv, CallType
  <2>2. seen' \in 0 .. Cap /\ settled' = seen' /\ settled <= settled'
    BY <1>0, <1>13, <2>1 DEF Record, Sat
  <2>3. pc'[t] = "idle" /\ \A u \in Threads : u # t => pc'[u] = pc[u] /\ call'[u] = call[u]
    BY <1>13 DEF Record, CallInv
  <2>4. ASSUME NEW u \in Threads, pc'[u] # "idle", call'[u].late
        PROVE  CutOff(call[u])' /\ pc'[u] \in Early
    <3>1. pc'[u] = pc[u] /\ SameCall(call'[u], call[u])
      BY <2>3, <2>4 DEF SameCall
    <3> QED
      BY <2>2, <2>4, <3>1, CutKept
  <2> QED
    BY <2>2, <2>4 DEF CutInv
<1> QED
  BY <1>3, <1>4, <1>5, <1>6, <1>7, <1>8, <1>9, <1>10, <1>11, <1>12, <1>13 DEF Next, ThreadStep
-----------------------------------------------------------------------------
(* The bandwidth.                                                          *)

\* Products keep the order of their factors.
LEMMA Products ==
  ASSUME NEW a \in Int, NEW b \in Int, NEW c \in Nat, a <= b
  PROVE  a * c \in Int /\ b * c \in Int /\ a * c <= b * c /\ c * a <= c * b
OBVIOUS

\* Division rounds down.
LEMMA RoundsDown ==
  ASSUME NEW x \in Nat, NEW s \in Nat \ {0}
  PROVE  x \div s \in Nat /\ (x \div s) * s <= x
OBVIOUS

\* The bucket holds no more than what the credit accounts for: its tokens and what the
\* time since its last refill is worth at the highest rate, or all that the highest
\* rate lets it hold.
CreditInv ==
  /\ bucket \in [tokens : 0 .. 2 * TopRate, age : 0 .. 2 * Second]
  /\ credit \in Int
  /\ credit >= FullCredit \/ credit >= bucket.tokens * Second + bucket.age * TopRate

\* A refill at any rate stays within the credit.
LEMMA RefillCovered ==
  ASSUME CreditInv, NEW rate \in Nat, rate <= TopRate
  PROVE  /\ refill(bucket, rate) \in [tokens : 0 .. 2 * TopRate, age : 0 .. 2 * Second]
         /\ refill(bucket, rate).age = 0
         /\ credit >= refill(bucket, rate).tokens * Second
<1> USE EngineAssumption, TopRateIsTop
<1> DEFINE n == bucket.tokens
           a == bucket.age
           earned == (a * rate) \div Second
<1>1. n \in 0 .. 2 * TopRate /\ a \in 0 .. 2 * Second /\ TopRate \in Nat /\ Second \in Nat \ {0}
  BY DEF CreditInv
<1>2. n * Second <= FullCredit /\ FullCredit \in Int /\ n * Second \in Int
  <2>1. n * Second <= (2 * TopRate) * Second
    BY <1>1, Products
  <2> QED
    BY <1>1, <2>1 DEF FullCredit
<1>3. CASE a = 0
  <2>1. refill(bucket, rate) = bucket
    BY <1>3 DEF refill
  <2>2. credit >= FullCredit \/ credit >= n * Second
    BY <1>1, <1>2, <1>3 DEF CreditInv
  <2> QED
    BY <1>1, <1>2, <1>3, <2>1, <2>2 DEF CreditInv
<1>4. CASE a # 0
  <2>1. a * rate \in Nat /\ a * rate <= a * TopRate /\ a * TopRate \in Nat
    BY <1>1, Products
  <2>2. earned \in Nat /\ earned * Second <= a * rate
    BY <1>1, <2>1, RoundsDown
  <2> HIDE DEF earned, n, a
  <2>3. PICK m \in Int : m = Min({n + earned, 2 * rate})
    BY <1>1, <2>2, MinOfTwo
  <2>4. m <= n + earned /\ m <= 2 * rate /\ m >= 0
    BY <1>1, <2>2, <2>3, MinOfTwo
  <2>5. refill(bucket, rate) = [tokens |-> m, age |-> 0]
    BY <1>4, <2>3 DEF refill, n, a, earned
  <2>6. m * Second <= (n + earned) * Second /\ m * Second <= (2 * rate) * Second
    BY <1>1, <2>2, <2>4, Products
  <2>7. (n + earned) * Second = n * Second + earned * Second
    BY <1>1, <2>2
  <2>8. (2 * rate) * Second <= (2 * TopRate) * Second
    BY <1>1, Products
  <2>9. m * Second \in Int /\ earned * Second \in Int
    BY <1>1, <2>2
  <2>10. m * Second <= n * Second + a * TopRate
    BY <1>2, <2>1, <2>2, <2>6, <2>7, <2>9
  <2>11. m * Second <= FullCredit
    BY <1>1, <2>6, <2>8, <2>9 DEF FullCredit
  <2>12. credit >= FullCredit \/ credit >= n * Second + a * TopRate
    BY DEF CreditInv, n, a
  <2>13. credit >= m * Second
    BY <1>2, <2>1, <2>9, <2>10, <2>11, <2>12 DEF CreditInv
  <2>14. m \in 0 .. 2 * TopRate
    BY <1>1, <2>4
  <2> QED
    BY <1>1, <2>5, <2>13, <2>14
<1> QED
  BY <1>3, <1>4

\* Every step keeps CreditInv: a grant takes as much from the credit as from the bucket.
LEMMA CreditStep ==
  ASSUME CallInv, CreditInv, [Next]_vars
  PROVE  CreditInv'
<1> USE EngineAssumption, TopRateIsTop
<1>0. /\ bucket.tokens \in 0 .. 2 * TopRate /\ bucket.age \in 0 .. 2 * Second
      /\ TopRate \in Nat /\ Second \in Nat \ {0} /\ credit \in Int
  BY DEF CreditInv
<1>1. ASSUME UNCHANGED <<bucket, credit>> PROVE CreditInv'
  BY <1>1 DEF CreditInv, FullCredit, TopRate
<1>2. ASSUME NEW t \in Threads, FlowControl(t) PROVE CreditInv'
  <2>1. call[t] \in CallType /\ call[t].policy \in Policies
    BY <1>2 DEF FlowControl, CallInv
  <2>2. PICK rate \in Nat : rate = Cfg(call[t]).base.bandwidth /\ rate <= TopRate
    BY <2>1, CfgFacts DEF CallType, Values
  <2>3. PICK len \in Nat : len = call[t].len
    BY <2>1 DEF CallType
  <2>4. PICK b \in [tokens : 0 .. 2 * TopRate, age : 0 .. 2 * Second] :
          b = refill(bucket, rate) /\ b.age = 0 /\ credit >= b.tokens * Second
    BY <2>2, RefillCovered
  <2>5. \/ UNCHANGED <<bucket, credit>>
        \/ b.tokens >= len /\ bucket' = [b EXCEPT !.tokens = @ - len] /\ credit' = credit - len * Second
        \/ bucket' = b /\ credit' = credit
    BY <1>2, <2>2, <2>3, <2>4 DEF FlowControl
  <2>6. ASSUME b.tokens >= len, bucket' = [b EXCEPT !.tokens = @ - len],
               credit' = credit - len * Second
        PROVE  CreditInv'
    <3>1. /\ bucket' \in [tokens : 0 .. 2 * TopRate, age : 0 .. 2 * Second]
          /\ bucket'.tokens = b.tokens - len /\ bucket'.age = 0
      BY <1>0, <2>4, <2>6
    <3>2. (b.tokens - len) * Second = b.tokens * Second - len * Second
      BY <1>0
    <3>3. b.tokens * Second \in Int /\ len * Second \in Int /\ 0 * TopRate = 0
      BY <1>0
    <3>4. credit' \in Int /\ credit' >= bucket'.tokens * Second + bucket'.age * TopRate
      BY <1>0, <2>4, <2>6, <3>1, <3>2, <3>3
    <3> QED
      BY <3>1, <3>4 DEF CreditInv, TopRate
  <2>7. ASSUME bucket' = b, credit' = credit PROVE CreditInv'
    <3>1. 0 * TopRate = 0 /\ b.tokens * Second \in Int
      BY <1>0
    <3>2. credit >= b.tokens * Second + b.age * TopRate
      BY <1>0, <2>4, <3>1
    <3> QED
      BY <1>0, <2>4, <2>7, <3>2 DEF CreditInv, TopRate
  <2> QED
    BY <1>1, <2>5, <2>6, <2>7
<1>3. CASE Tick
  <2>1. FullCredit \in Int
    BY <1>0 DEF FullCredit
  <2>2. /\ bucket' = [bucket EXCEPT !.age = Min({@ + 1, 2 * Second})]
        /\ credit' = Min({credit + TopRate, FullCredit})
    BY <1>3 DEF Tick
  <2>3. PICK a \in 0 .. 2 * Second : a = Min({bucket.age + 1, 2 * Second}) /\ a <= bucket.age + 1
    BY <1>0, MinOfTwo
  <2>4. credit' \in Int /\ (credit' = FullCredit \/ (credit' = credit + TopRate /\ credit' <= FullCredit))
    <3>1. credit + TopRate \in Int
      BY <1>0
    <3>2. credit' = IF credit + TopRate <= FullCredit THEN credit + TopRate ELSE FullCredit
      BY <2>1, <2>2, <3>1, MinOfTwo
    <3> QED
      BY <2>1, <3>1, <3>2
  <2>5. /\ bucket' \in [tokens : 0 .. 2 * TopRate, age : 0 .. 2 * Second]
        /\ bucket'.tokens = bucket.tokens /\ bucket'.age = a
    BY <2>2, <2>3 DEF CreditInv
  <2>6. a * TopRate <= bucket.age * TopRate + TopRate
    <3>1. a * TopRate <= (bucket.age + 1) * TopRate
      BY <1>0, <2>3, Products
    <3>2. (bucket.age + 1) * TopRate = bucket.age * TopRate + TopRate
      BY <1>0
    <3> QED
      BY <3>1, <3>2
  <2>7. credit' >= FullCredit \/ credit' >= bucket.tokens * Second + a * TopRate
    <3>1. /\ bucket.tokens * Second \in Int /\ bucket.age * TopRate \in Int /\ a * TopRate \in Int
      BY <1>0, <2>3
    <3>2. credit >= FullCredit \/ credit >= bucket.tokens * Second + bucket.age * TopRate
      BY DEF CreditInv
    <3> QED
      BY <1>0, <2>1, <2>4, <2>6, <3>1, <3>2
  <2> QED
    BY <2>4, <2>5, <2>7 DEF CreditInv, TopRate, FullCredit
<1>4. ASSUME NEW t \in Threads, ThreadStep(t), ~FlowControl(t) PROVE UNCHANGED <<bucket, credit>>
  BY <1>4 DEF ThreadStep, Start, StartUnconfigured, Retry, Evaluate, SessionGuard, ChaosBase,
     Apply, TimingVariation, TransportFaults, ResolverFaults, Original, Record, maps, history
<1>5. CASE Close \/ UNCHANGED vars
  BY <1>1, <1>5 DEF Close, vars
<1> QED
  BY <1>1, <1>2, <1>3, <1>4, <1>5 DEF Next
-----------------------------------------------------------------------------
(* The session budget.                                                     *)

Resources == {"ops", "tx", "rx"}

Part(u, r) == IF r = "ops" THEN u.ops ELSE IF r = "tx" THEN u.tx ELSE u.rx

Limit(p, r) ==
  LET b == ConfigOf[p].session
  IN  IF r = "ops" THEN b.max_ops ELSE IF r = "tx" THEN b.max_bytes_tx ELSE b.max_bytes_rx

\* What a call may use at most.
Units(c, r) ==
  IF r = "ops" THEN 1
  ELSE IF r = "tx" THEN IF c.op = "send" THEN c.len ELSE 0
  ELSE IF c.op = "recv" THEN c.len ELSE 0

Counter(r) == IF session = Unset THEN 0 ELSE Part(session, r)

\* R1 has let the call through, and the kernel has not seen it yet.
Holding(t) == pc[t] \in PipelineStages \cup {"apply", "orig"} /\ call[t].op \in Streams

Reserved(p, r) ==
  {x \in Threads \X Nat : Holding(x[1]) /\ call[x[1]].policy = p
                          /\ x[2] \in 1 .. Units(call[x[1]], r)}

\* What was used and what may yet be used was counted, and is within the limit.
Within(p, r) ==
  /\ IsFiniteSet(Reserved(p, r))
  /\ Part(used[p], r) + Cardinality(Reserved(p, r)) <= Counter(r)
  /\ Part(used[p], r) + Cardinality(Reserved(p, r)) <= Limit(p, r)

Limited(p, r) == ConfigOf[p].session.action # "none" /\ Limit(p, r) > 0

BudgetInv ==
  /\ session = Unset \/ session \in SessionState
  /\ used \in [Policies -> [ops : Nat, tx : Nat, rx : Nat]]
  /\ \A p \in Policies : ConfigOf[p].session.action = "none" => used[p] = Unused[p]
  /\ \A p \in Policies, r \in Resources : Limited(p, r) => Within(p, r)

\* Counters, limits and what calls ask for are numbers.
LEMMA BudgetNumbers ==
  ASSUME BudgetInv, NEW p \in Policies, NEW r \in Resources
  PROVE  /\ Counter(r) \in 0 .. Cap
         /\ Part(used[p], r) \in Nat
         /\ Limit(p, r) \in 0 .. Cap
         /\ \A c \in CallType : Units(c, r) \in Nat
<1>1. Counter(r) \in 0 .. Cap
  BY EngineAssumption DEF BudgetInv, Counter, Part, SessionState
<1>2. Part(used[p], r) \in Nat
  BY DEF BudgetInv, Part
<1>3. Limit(p, r) \in 0 .. Cap
  BY BoundAssumption DEF Limit
<1>4. \A c \in CallType : Units(c, r) \in Nat
  BY DEF Units, CallType
<1> QED
  BY <1>1, <1>2, <1>3, <1>4

SameLoad(c, d) == c.op = d.op /\ c.len = d.len /\ c.policy = d.policy

\* A step by which no call is let through and none reaches the kernel.
LEMMA NothingReserved ==
  ASSUME BudgetInv, used' = used, session' = Unset \/ session' \in SessionState,
         \A r \in Resources : Counter(r) <= Counter(r)',
         \A t \in Threads : Holding(t)' => Holding(t) /\ SameLoad(call'[t], call[t])
  PROVE  BudgetInv'
<1>1. ASSUME NEW p \in Policies, NEW r \in Resources, Within(p, r) PROVE Within(p, r)'
  <2>1. Reserved(p, r)' \in SUBSET Reserved(p, r)
    <3>1. ASSUME NEW t \in Threads, Holding(t)'
          PROVE  Holding(t) /\ Units(call'[t], r) = Units(call[t], r)
                 /\ call'[t].policy = call[t].policy
      BY <3>1 DEF SameLoad, Units
    <3> QED
      BY <3>1 DEF Reserved
  <2> DEFINE A == Reserved(p, r)
             B == Reserved(p, r)'
  <2>2. IsFiniteSet(A)
    BY <1>1 DEF Within
  <2> HIDE DEF A, B
  <2>3. IsFiniteSet(B) /\ Cardinality(B) <= Cardinality(A)
    BY <2>1, <2>2, FS_Subset DEF A, B
  <2>4. Cardinality(A) \in Nat /\ Cardinality(B) \in Nat
    BY <2>2, <2>3, FS_CardinalityType
  <2>5. Counter(r) \in Int /\ Part(used[p], r) \in Nat /\ Limit(p, r) \in Int
    BY BudgetNumbers
  <2>6. Counter(r)' \in Int
    BY EngineAssumption DEF Counter, Part, SessionState
  <2>7. /\ Part(used[p], r) + Cardinality(A) <= Counter(r)
        /\ Part(used[p], r) + Cardinality(A) <= Limit(p, r)
    BY <1>1 DEF Within, A
  <2>8. /\ Part(used[p], r) + Cardinality(B) <= Counter(r)'
        /\ Part(used[p], r) + Cardinality(B) <= Limit(p, r)
    BY <2>3, <2>4, <2>5, <2>6, <2>7
  <2> QED
    BY <2>3, <2>8 DEF Within, B, Limit
<1> QED
  BY <1>1 DEF BudgetInv, Limited, Limit, Unused

\* The same when nothing is counted, and one thread moves.
LEMMA OneThreadReleases ==
  ASSUME CallInv, BudgetInv, UNCHANGED <<used, session>>, NEW t \in Threads,
         \A u \in Threads : u # t => pc'[u] = pc[u] /\ call'[u] = call[u],
         Holding(t)' => Holding(t) /\ SameLoad(call'[t], call[t])
  PROVE  BudgetInv'
<1>1. ASSUME NEW u \in Threads, Holding(u)' PROVE Holding(u) /\ SameLoad(call'[u], call[u])
  BY <1>1 DEF Holding, SameLoad
<1>2. ASSUME NEW r \in Resources PROVE Counter(r) <= Counter(r)'
  <2>1. Counter(r) \in Int
    BY EngineAssumption DEF BudgetInv, Counter, Part, SessionState
  <2>2. Counter(r)' = Counter(r)
    BY DEF Counter
  <2> QED
    BY <2>1, <2>2
<1>3. session' = Unset \/ session' \in SessionState
  BY DEF BudgetInv
<1> QED
  BY <1>1, <1>2, <1>3, NothingReserved

\* No session is looked at for longer than the bound.
LEMMA LongestIsBounded == LongestSession \in 0 .. Cap
<1> DEFINE R == {ConfigOf[p].session.max_duration : p \in Policies}
           f == [p \in Policies |-> ConfigOf[p].session.max_duration]
<1>1. f \in Surjection(Policies, R)
  BY DEF Surjection
<1>2. R \subseteq 0 .. Cap /\ R \in SUBSET Int
  BY EngineAssumption, BoundAssumption
<1>3. R # {}
  BY BoundAssumption
<1>4. LongestSession = Max(R)
  BY DEF LongestSession
<1> HIDE DEF R, f
<1>5. IsFiniteSet(R)
  BY <1>1, BoundAssumption, FS_Surjection
<1> QED
  BY <1>2, <1>3, <1>4, <1>5, MaxIsLargest

\* What one call reserves.
Share(t, r) == {t} \X (1 .. Units(call[t], r))

\* A share has as many elements as the call may use.
LEMMA ShareSize ==
  ASSUME NEW t \in Threads, NEW r \in Resources, call[t] \in CallType
  PROVE  IsFiniteSet(Share(t, r)) /\ Cardinality(Share(t, r)) = Units(call[t], r)
<1>1. Units(call[t], r) \in Nat
  BY DEF Units, CallType
<1> DEFINE I == 1 .. Units(call[t], r)
<1>2. IsFiniteSet(I) /\ Cardinality(I) = Units(call[t], r)
  BY <1>1, FS_Interval
<1>3. IsFiniteSet({t}) /\ Cardinality({t}) = 1
  BY FS_Singleton
<1> HIDE DEF I
<1>4. IsFiniteSet({t} \X I) /\ Cardinality({t} \X I) = 1 * Cardinality(I)
  BY <1>2, <1>3, FS_Product
<1> QED
  BY <1>1, <1>2, <1>4 DEF Share, I

\* R1 counts a call before it lets it through: what is reserved in addition is in the
\* counter, and within the limits.
LEMMA Admitted ==
  ASSUME CallInv, BudgetInv, NEW t \in Threads, pc[t] = "R1", call[t].op \in Streams,
         used' = used, call' = call, pc' = [pc EXCEPT ![t] = StageFrom(1, call[t].op)],
         NEW s \in SessionState, s = IF session = Unset THEN NewSession ELSE session,
         ~OverBudget(s, ConfigOf[call[t].policy].session, call[t].op, call[t].len),
         session' = Counted(s, call[t].op, call[t].len)
  PROVE  BudgetInv'
<1> USE EngineAssumption
<1>1. call[t] \in CallType /\ call[t].policy \in Policies /\ call[t].len \in Nat
  BY DEF CallInv, CallType
<1>2. \A r \in Resources : Counter(r) = Part(s, r) /\ Part(s, r) \in 0 .. Cap
  BY DEF Counter, Part, NewSession, Resources, SessionState
<1>3. \A n \in 0 .. Cap, k \in Nat : Sat(n + k) \in 0 .. Cap /\ Sat(n + k) >= n
                                      /\ (n + k <= Cap => Sat(n + k) = n + k)
  BY DEF Sat
<1>4. /\ s.ops \in 0 .. Cap /\ s.tx \in 0 .. Cap /\ s.rx \in 0 .. Cap /\ s.age \in 0 .. Cap
  BY DEF SessionState
<1>5. session' = [ops |-> Sat(s.ops + 1),
                  tx |-> IF call[t].op = "send" THEN Sat(s.tx + call[t].len) ELSE s.tx,
                  rx |-> IF call[t].op = "recv" THEN Sat(s.rx + call[t].len) ELSE s.rx,
                  age |-> s.age]
  BY DEF Counted, SessionState
<1>6. session' \in SessionState
  BY <1>1, <1>3, <1>4, <1>5 DEF SessionState
<1>7. \A r \in Resources : Counter(r)' = Sat(Part(s, r) + Units(call[t], r))
  <2>1. session' # Unset
    BY <1>6
  <2>2. \A n \in 0 .. Cap : Sat(n + 0) = n
    BY DEF Sat
  <2>3. \A r \in Resources : Counter(r)' = Part(session', r)
    BY <2>1 DEF Counter, Part
  <2> QED
    BY <1>4, <1>5, <2>2, <2>3 DEF Part, Units, Resources
<1>8. ASSUME NEW p \in Policies, NEW r \in Resources, Limited(p, r), Within(p, r)
      PROVE  Within(p, r)'
  <2> DEFINE A == Reserved(p, r)
             B == Reserved(p, r)'
             n == Units(call[t], r)
             m == Part(used[p], r)
  <2>1. n \in Nat /\ Counter(r) \in 0 .. Cap /\ m \in Nat /\ Limit(p, r) \in 0 .. Cap
    BY <1>1, BudgetNumbers
  <2>2. IsFiniteSet(A) /\ m + Cardinality(A) <= Counter(r) /\ m + Cardinality(A) <= Limit(p, r)
    BY <1>8 DEF Within
  <2>3. Counter(r)' = Sat(Counter(r) + n)
    BY <1>2, <1>7
  <2>4. Limit(p, r)' = Limit(p, r) /\ Part(used[p], r)' = m
    BY DEF Limit
  <2>5. \A u \in Threads : u # t => (Holding(u)' <=> Holding(u))
    BY DEF CallInv, Holding
  <2>6. CASE call[t].policy # p
    <3>1. B \in SUBSET A
      BY <2>5, <2>6 DEF Reserved
    <3>2. IsFiniteSet(B) /\ Cardinality(B) <= Cardinality(A)
      <4> HIDE DEF A, B
      <4> QED
        BY <2>2, <3>1, FS_Subset
    <3>3. Cardinality(A) \in Nat /\ Cardinality(B) \in Nat
      BY <2>2, <3>2, FS_CardinalityType
    <3>4. Sat(Counter(r) + n) >= Counter(r) /\ Sat(Counter(r) + n) \in 0 .. Cap
      BY <1>3, <2>1
    <3> HIDE DEF A, B, n, m
    <3>5. m + Cardinality(B) <= Sat(Counter(r) + n) /\ m + Cardinality(B) <= Limit(p, r)
      BY <2>1, <2>2, <3>2, <3>3, <3>4
    <3> QED
      BY <2>3, <2>4, <3>2, <3>5 DEF Within, B, m
  <2>7. CASE call[t].policy = p
    <3>1. B \in SUBSET (A \cup Share(t, r))
      BY <2>5 DEF Reserved, Share
    <3>2. IsFiniteSet(Share(t, r)) /\ Cardinality(Share(t, r)) = n
      BY <1>1, ShareSize
    <3>3. n # 0 => Counter(r) + n <= Limit(p, r)
      <4>1. ConfigOf[p].session.max_ops > 0 => s.ops < ConfigOf[p].session.max_ops
        BY <1>4, <2>7, ConfigParts DEF OverBudget, Config
      <4>2. call[t].op = "send" /\ ConfigOf[p].session.max_bytes_tx > 0 =>
              s.tx + call[t].len <= ConfigOf[p].session.max_bytes_tx
        BY <1>1, <1>4, <2>7, ConfigParts DEF OverBudget, Config
      <4>3. call[t].op = "recv" /\ ConfigOf[p].session.max_bytes_rx > 0 =>
              s.rx + call[t].len <= ConfigOf[p].session.max_bytes_rx
        BY <1>1, <1>4, <2>7, ConfigParts DEF OverBudget, Config
      <4>4. Counter(r) = Part(s, r) /\ Limit(p, r) > 0 /\ Limit(p, r) \in Int
        BY <1>2, <1>8, <2>1 DEF Limited
      <4>5. CASE r = "ops"
        BY <1>4, <4>1, <4>4, <4>5 DEF Part, Units, Limit
      <4>6. CASE r = "tx"
        BY <1>1, <1>4, <4>2, <4>4, <4>6 DEF Part, Units, Limit
      <4>7. CASE r = "rx"
        BY <1>1, <1>4, <4>3, <4>4, <4>7 DEF Part, Units, Limit
      <4> QED
        BY <4>5, <4>6, <4>7 DEF Resources
    <3>4. Sat(Counter(r) + n) = Counter(r) + n
      <4> HIDE DEF n
      <4> QED
        BY <1>3, <2>1, <3>3
    <3> HIDE DEF A, B, n, m
    <3>5. /\ IsFiniteSet(A \cup Share(t, r))
          /\ Cardinality(A \cup Share(t, r)) <= Cardinality(A) + n
          /\ Cardinality(A) \in Nat
      <4>1. IsFiniteSet(A \cap Share(t, r))
        BY <2>2, FS_Subset
      <4>2. Cardinality(A \cap Share(t, r)) \in Nat /\ Cardinality(A) \in Nat
        BY <2>2, <4>1, FS_CardinalityType
      <4>3. /\ IsFiniteSet(A \cup Share(t, r))
            /\ Cardinality(A \cup Share(t, r)) =
                 Cardinality(A) + Cardinality(Share(t, r)) - Cardinality(A \cap Share(t, r))
        BY <2>2, <3>2, FS_Union
      <4> QED
        BY <2>1, <3>2, <4>2, <4>3
    <3>6. IsFiniteSet(B) /\ Cardinality(B) <= Cardinality(A \cup Share(t, r))
      BY <3>1, <3>5, FS_Subset
    <3>7. Cardinality(B) \in Nat /\ Cardinality(A \cup Share(t, r)) \in Nat
      BY <3>5, <3>6, FS_CardinalityType
    <3>8. m + Cardinality(B) <= Counter(r) + n /\ m + Cardinality(B) <= Limit(p, r)
      BY <2>1, <2>2, <3>3, <3>5, <3>6, <3>7
    <3> QED
      BY <2>3, <2>4, <3>4, <3>6, <3>8 DEF Within, B, m
  <2> QED
    BY <2>6, <2>7
<1> QED
  BY <1>6, <1>8 DEF BudgetInv, Limited, Limit, Unused

\* The kernel uses at most what the call had reserved.
LEMMA SpentFromReserve ==
  ASSUME CallInv, BudgetInv, NEW t \in Threads, pc[t] = "orig", call[t].op \in Streams,
         NEW n \in 0 .. call[t].len,
         call' = [call EXCEPT ![t].moved = n], pc' = [pc EXCEPT ![t] = "record"],
         used' = IF Budgeted(call[t])
                 THEN [used EXCEPT ![call[t].policy] = Spent(@, call[t].op, n)]
                 ELSE used,
         session' = session
  PROVE  BudgetInv'
<1> USE EngineAssumption
<1>1. call[t] \in CallType /\ call[t].len \in Nat /\ n \in Nat
  BY DEF CallInv, CallType
<1>2. \A u \in Threads : u # t => pc'[u] = pc[u] /\ call'[u] = call[u]
  BY DEF CallInv
<1>3. ~Holding(t)'
  BY DEF Holding, CallInv, PipelineStages
<1>4. CASE ~Budgeted(call[t])
  BY <1>2, <1>3, <1>4, OneThreadReleases
<1>5. CASE Budgeted(call[t])
  <2> DEFINE q == call[t].policy
             e == Spent(used[q], call[t].op, n)
  <2>1. q \in Policies /\ ConfigOf[q].session.action # "none"
    BY <1>1, <1>5 DEF Budgeted, CallType
  <2>2. used' = [used EXCEPT ![q] = e]
    BY <1>5
  <2>3. e \in [ops : Nat, tx : Nat, rx : Nat]
    <3>1. used[q] \in [ops : Nat, tx : Nat, rx : Nat]
      BY <2>1 DEF BudgetInv
    <3> QED
      BY <1>1, <3>1 DEF Spent
  <2>4. \A r \in Resources : Part(e, r) <= Part(used[q], r) + Units(call[t], r)
    <3>1. used[q] \in [ops : Nat, tx : Nat, rx : Nat]
      BY <2>1 DEF BudgetInv
    <3>2. n <= call[t].len
      BY <1>1
    <3> QED
      BY <1>1, <3>1, <3>2 DEF Spent, Part, Units, Resources
  <2> HIDE DEF e
  <2>5. ASSUME NEW p \in Policies PROVE used'[p] = IF p = q THEN e ELSE used[p]
    BY <2>1, <2>2 DEF BudgetInv
  <2>6. used' \in [Policies -> [ops : Nat, tx : Nat, rx : Nat]]
    BY <2>1, <2>2, <2>3 DEF BudgetInv
  <2>7. ASSUME NEW p \in Policies, NEW r \in Resources, Limited(p, r), Within(p, r)
        PROVE  Within(p, r)'
    <3> DEFINE A == Reserved(p, r)
               B == Reserved(p, r)'
    <3>1. /\ Counter(r)' = Counter(r) /\ Counter(r) \in Int /\ Part(used[p], r) \in Nat
          /\ Limit(p, r)' = Limit(p, r) /\ Limit(p, r) \in Int /\ Units(call[t], r) \in Nat
      <4>1. Counter(r)' = Counter(r) /\ Limit(p, r)' = Limit(p, r)
        BY DEF Counter, Limit
      <4> QED
        BY <1>1, <4>1, BudgetNumbers
    <3>2. IsFiniteSet(A) /\ Part(used[p], r) + Cardinality(A) <= Counter(r)
          /\ Part(used[p], r) + Cardinality(A) <= Limit(p, r)
      BY <2>7 DEF Within
    <3>3. \A u \in Threads : Holding(u)' => u # t /\ Holding(u) /\ call'[u] = call[u]
      BY <1>2, <1>3 DEF Holding
    <3>4. B \in SUBSET (A \ Share(t, r))
      <4>1. ASSUME NEW x \in B PROVE x \in A /\ x \notin Share(t, r)
        <5>1. /\ x \in Threads \X Nat /\ Holding(x[1])' /\ call'[x[1]].policy = p
              /\ x[2] \in 1 .. Units(call'[x[1]], r)
          BY <4>1 DEF Reserved
        <5>2. x[1] \in Threads /\ x[1] # t /\ Holding(x[1]) /\ call'[x[1]] = call[x[1]]
          BY <3>3, <5>1
        <5> QED
          BY <5>1, <5>2 DEF Reserved, Share
      <4> QED
        BY <4>1
    <3>5. IsFiniteSet(A \ Share(t, r)) /\ IsFiniteSet(A \cap Share(t, r))
          /\ Cardinality(A \ Share(t, r)) = Cardinality(A) - Cardinality(A \cap Share(t, r))
      <4> HIDE DEF A
      <4> QED
        BY <3>2, FS_Difference, FS_Subset
    <3> HIDE DEF B
    <3>6. IsFiniteSet(B) /\ Cardinality(B) <= Cardinality(A \ Share(t, r))
      BY <3>4, <3>5, FS_Subset
    <3>7. /\ Cardinality(A) \in Nat /\ Cardinality(B) \in Nat
          /\ Cardinality(A \cap Share(t, r)) \in Nat
      BY <3>2, <3>5, <3>6, FS_CardinalityType
    <3>8. CASE p # q
      <4>1. used'[p] = used[p]
        BY <2>5, <3>8
      <4>2. Part(used'[p], r) + Cardinality(B) <= Counter(r)
            /\ Part(used'[p], r) + Cardinality(B) <= Limit(p, r)
        <5> HIDE DEF A
        <5> QED
          BY <3>1, <3>2, <3>5, <3>6, <3>7, <4>1
      <4> QED
        BY <3>1, <3>6, <4>2 DEF Within, B, Part
    <3>9. CASE p = q
      <4>1. Holding(t)
        BY DEF Holding
      <4>2. A \cap Share(t, r) = Share(t, r)
        <5>1. \A i \in 1 .. Units(call[t], r) : <<t, i>> \in A
          BY <3>1, <3>9, <4>1 DEF Reserved
        <5> QED
          BY <5>1 DEF Share
      <4>3. Cardinality(A \cap Share(t, r)) = Units(call[t], r)
        BY <1>1, <4>2, ShareSize
      <4>4. used'[p] = e /\ Part(e, r) \in Nat /\ Part(e, r) <= Part(used[p], r) + Units(call[t], r)
        BY <2>3, <2>4, <2>5, <3>9 DEF Part
      <4> HIDE DEF A
      <4>5. Part(used'[p], r) + Cardinality(B) <= Counter(r)
            /\ Part(used'[p], r) + Cardinality(B) <= Limit(p, r)
        BY <3>1, <3>2, <3>5, <3>6, <3>7, <4>3, <4>4
      <4> QED
        BY <3>1, <3>6, <4>5 DEF Within, B, Part
    <3> QED
      BY <3>8, <3>9
  <2>8. \A p \in Policies : ConfigOf[p].session.action = "none" => used'[p] = Unused[p]
    BY <2>1, <2>5 DEF BudgetInv
  <2> QED
    BY <2>6, <2>7, <2>8 DEF BudgetInv, Limited, Limit, Unused
<1> QED
  BY <1>4, <1>5

\* Every step keeps BudgetInv.
LEMMA BudgetStep ==
  ASSUME CallInv, CallInv', bucket.tokens \in Int, bucket.age \in Int, BudgetInv, [Next]_vars
  PROVE  BudgetInv'
<1> USE EngineAssumption
<1>0. CASE UNCHANGED vars
  <2>1. UNCHANGED <<used, session, pc, call>>
    BY <1>0 DEF vars
  <2>2. \A r \in Resources : Counter(r)' = Counter(r) /\ Counter(r) \in Int
    BY <2>1 DEF Counter, Part, BudgetInv, SessionState
  <2>3. \A t \in Threads : Holding(t)' => Holding(t) /\ SameLoad(call'[t], call[t])
    BY <2>1 DEF Holding, SameLoad
  <2>4. session' = Unset \/ session' \in SessionState
    BY <2>1 DEF BudgetInv
  <2>5. \A r \in Resources : Counter(r) <= Counter(r)'
    BY <2>2
  <2> QED
    BY <2>1, <2>3, <2>4, <2>5, NothingReserved
<1>1. CASE Close
  <2>1. \A t \in Threads : ~Holding(t)'
    BY <1>1 DEF Close, Holding, PipelineStages
  <2>2. session' = Unset /\ used' = Unused
    BY <1>1 DEF Close
  <2>3. used' \in [Policies -> [ops : Nat, tx : Nat, rx : Nat]]
    BY <2>2 DEF Unused
  <2>4. ASSUME NEW p \in Policies, NEW r \in Resources PROVE Within(p, r)'
    <3>1. Reserved(p, r)' = {}
      BY <2>1 DEF Reserved
    <3>2. IsFiniteSet({}) /\ Cardinality({}) = 0
      BY FS_EmptySet
    <3>3. Part(used'[p], r) = 0
      BY <2>2 DEF Unused, Part
    <3>4. Counter(r)' = 0
      BY <2>2 DEF Counter
    <3>5. Limit(p, r) >= 0 /\ Limit(p, r)' = Limit(p, r)
      BY BudgetNumbers DEF Limit
    <3>6. Part(used[p], r)' = 0
      BY <3>3 DEF Part
    <3> QED
      BY <3>1, <3>2, <3>4, <3>5, <3>6 DEF Within
  <2>5. \A p \in Policies : used'[p] = Unused[p]
    BY <2>2
  <2> QED
    BY <2>2, <2>3, <2>4, <2>5 DEF BudgetInv, Unused, Limited
<1>2. CASE Tick
  <2>1. used' = used /\ pc' = pc
    BY <1>2 DEF Tick
  <2>2. session' = IF session = Unset THEN Unset
                   ELSE [session EXCEPT !.age = Min({@ + 1, LongestSession})]
    BY <1>2 DEF Tick
  <2>0. \A t \in Threads : Holding(t)' => Holding(t) /\ SameLoad(call'[t], call[t])
    <3>1. ASSUME NEW t \in Threads, pc[t] # "idle" PROVE SameLoad(call'[t], call[t])
      <4>1. call[t] \in CallType
        BY <3>1 DEF CallInv
      <4>2. call'[t] = call[t] \/ call'[t] = [call[t] EXCEPT !.delay = call[t].delay - 1]
        BY <1>2 DEF Tick
      <4> QED
        BY <4>1, <4>2 DEF CallType, SameLoad
    <3> QED
      BY <2>1, <3>1 DEF Holding, SameLoad, PipelineStages
  <2>3. CASE session = Unset
    <3>1. session' = Unset
      BY <2>2, <2>3
    <3>2. \A r \in Resources : Counter(r) <= Counter(r)'
      BY <2>3, <3>1 DEF Counter
    <3> QED
      BY <2>0, <2>1, <3>1, <3>2, NothingReserved
  <2>4. CASE session # Unset
    <3>1. session \in SessionState /\ session.age \in 0 .. Cap
      BY <2>4 DEF BudgetInv, SessionState
    <3>2. PICK a \in 0 .. Cap : a = Min({session.age + 1, LongestSession})
      <4>1. session.age + 1 \in Int /\ LongestSession \in Int
        BY <3>1, LongestIsBounded
      <4> QED
        BY <3>1, <4>1, LongestIsBounded, MinOfTwo
    <3>3. session' = [session EXCEPT !.age = a]
      BY <2>2, <2>4, <3>2
    <3>4. session' \in SessionState /\ session'.ops = session.ops /\ session'.tx = session.tx
          /\ session'.rx = session.rx
      BY <3>1, <3>3 DEF SessionState
    <3>5. \A r \in Resources : Counter(r) <= Counter(r)'
      <4>1. session' # Unset
        BY <3>4
      <4>2. \A r \in Resources : Part(session, r) = Part(session', r) /\ Part(session, r) \in Int
        BY <3>1, <3>4 DEF Part, SessionState
      <4>3. \A r \in Resources : Counter(r) = Part(session, r) /\ Counter(r)' = Part(session', r)
        BY <2>4, <4>1 DEF Counter, Part
      <4> QED
        BY <4>2, <4>3
    <3> QED
      BY <2>0, <2>1, <3>4, <3>5, NothingReserved
  <2> QED
    BY <2>3, <2>4
<1>3. ASSUME NEW t \in Threads, Start(t) \/ Retry(t) PROVE BudgetInv'
  <2>1. PICK op \in Operations, p \in Policies, len \in Nat : Enter(t, op, len, p)
    <3>1. CASE Start(t)
      BY <3>1 DEF Start
    <3>2. CASE Retry(t)
      <4>1. call[t] \in CallType /\ call[t].policy \in Policies
        BY <3>2 DEF Retry, CallInv
      <4> QED
        BY <3>2, <4>1 DEF Retry, CallType
    <3> QED
      BY <1>3, <3>1, <3>2
  <2>2. pc'[t] = "lock" /\ \A u \in Threads : u # t => pc'[u] = pc[u] /\ call'[u] = call[u]
    BY <2>1, EnterCall
  <2>3. ~Holding(t)'
    BY <2>2 DEF Holding, PipelineStages
  <2>4. UNCHANGED <<used, session>>
    BY <1>3 DEF Start, Retry, maps, history
  <2> QED
    BY <2>2, <2>3, <2>4, OneThreadReleases
<1>4. ASSUME NEW t \in Threads, StartUnconfigured(t) PROVE BudgetInv'
  <2>1. /\ UNCHANGED <<used, session>> /\ call'[t].policy = Unset
        /\ \A u \in Threads : u # t => pc'[u] = pc[u] /\ call'[u] = call[u]
    BY <1>4 DEF StartUnconfigured, maps, history, CallInv
  <2>2. ASSUME NEW p \in Policies, NEW r \in Resources, Within(p, r) PROVE Within(p, r)'
    <3> DEFINE A == Reserved(p, r)
               B == Reserved(p, r)'
    <3>1. B \in SUBSET A
      <4>1. ASSUME NEW x \in B PROVE x \in A
        <5>1. /\ x \in Threads \X Nat /\ Holding(x[1])' /\ call'[x[1]].policy = p
              /\ x[2] \in 1 .. Units(call'[x[1]], r)
          BY <4>1 DEF Reserved
        <5>2. x[1] \in Threads /\ x[1] # t
          BY <2>1, <5>1
        <5>3. call'[x[1]] = call[x[1]] /\ Holding(x[1])
          BY <2>1, <5>1, <5>2 DEF Holding
        <5> QED
          BY <5>1, <5>3 DEF Reserved
      <4> QED
        BY <4>1
    <3>2. /\ IsFiniteSet(A) /\ Part(used[p], r) + Cardinality(A) <= Counter(r)
          /\ Part(used[p], r) + Cardinality(A) <= Limit(p, r)
      BY <2>2 DEF Within
    <3>3. Counter(r) \in Int /\ Part(used[p], r) \in Nat /\ Limit(p, r) \in Int
      BY BudgetNumbers
    <3>4. Counter(r)' = Counter(r) /\ Limit(p, r)' = Limit(p, r)
      BY <2>1 DEF Counter, Limit
    <3> HIDE DEF A, B
    <3>5. IsFiniteSet(B) /\ Cardinality(B) <= Cardinality(A)
      BY <3>1, <3>2, FS_Subset
    <3>6. Cardinality(A) \in Nat /\ Cardinality(B) \in Nat
      BY <3>2, <3>5, FS_CardinalityType
    <3>7. Part(used[p], r) + Cardinality(B) <= Counter(r)
          /\ Part(used[p], r) + Cardinality(B) <= Limit(p, r)
      BY <3>2, <3>3, <3>5, <3>6
    <3> QED
      BY <2>1, <3>4, <3>5, <3>7 DEF Within, B, Part
  <2> QED
    BY <2>1, <2>2 DEF BudgetInv, Limited, Limit, Unused
<1>5. ASSUME NEW t \in Threads, Evaluate(t) PROVE BudgetInv'
  <2>1. /\ call' = call /\ UNCHANGED <<used, session>> /\ pc[t] = "lock"
        /\ \A u \in Threads : u # t => pc'[u] = pc[u]
        /\ call[t].op \in Streams => pc'[t] = "R1"
    BY <1>5 DEF Evaluate, maps, history, CallInv
  <2>2. ~Holding(t)'
    BY <2>1 DEF Holding, PipelineStages
  <2> QED
    BY <2>1, <2>2, OneThreadReleases
<1>6. ASSUME NEW t \in Threads, SessionGuard(t) PROVE BudgetInv'
  <2> DEFINE c == call[t]
             b == Cfg(c).session
             s == IF session = Unset THEN NewSession ELSE session
  <2>1. c \in CallType /\ c.policy \in Policies /\ pc[t] = "R1" /\ used' = used
    BY <1>6 DEF SessionGuard, CallInv, history
  <2>2. b = ConfigOf[c.policy].session
    BY <2>1, CfgFacts DEF CallType
  <2>3. s \in SessionState
    BY DEF BudgetInv, NewSession, SessionState
  <2>4. \A r \in Resources : Counter(r) = Part(s, r) /\ Part(s, r) \in Int
    BY <2>3 DEF Counter, Part, NewSession, Resources, SessionState
  <2>5. CASE b.action = "none"
    <3>1. UNCHANGED <<call, session>> /\ pc' = [pc EXCEPT ![t] = StageFrom(1, c.op)]
      BY <1>6, <2>5 DEF SessionGuard
    <3>2. ASSUME NEW p \in Policies, NEW r \in Resources, Limited(p, r), Within(p, r)
          PROVE  Within(p, r)'
      <4>1. p # c.policy
        BY <2>2, <2>5, <3>2 DEF Limited
      <4>2. \A u \in Threads : u # t => (Holding(u)' <=> Holding(u))
        BY <3>1 DEF Holding, CallInv
      <4>3. ~Holding(t)
        BY <2>1 DEF Holding, PipelineStages
      <4>4. Reserved(p, r)' = Reserved(p, r)
        BY <3>1, <4>1, <4>2 DEF Reserved
      <4>5. Counter(r)' = Counter(r) /\ Limit(p, r)' = Limit(p, r) /\ Part(used[p], r)' = Part(used[p], r)
        BY <2>1, <3>1 DEF Counter, Limit, Part
      <4> QED
        BY <3>2, <4>4, <4>5 DEF Within
    <3> QED
      BY <2>1, <3>1, <3>2 DEF BudgetInv, Limited, Limit, Unused
  <2>6. CASE b.action # "none" /\ OverBudget(s, b, c.op, c.len)
    <3>1. session' = s /\ Terminal(t)
      BY <1>6, <2>6 DEF SessionGuard
    <3>2. pc'[t] = "idle" /\ \A u \in Threads : u # t => pc'[u] = pc[u] /\ call'[u] = call[u]
      BY <3>1, TerminalCall
    <3>3. \A u \in Threads : Holding(u)' => Holding(u) /\ SameLoad(call'[u], call[u])
      BY <3>2 DEF Holding, SameLoad, PipelineStages
    <3>4. \A r \in Resources : Counter(r)' = Part(s, r)
      BY <2>3, <3>1 DEF Counter, Part
    <3>5. \A r \in Resources : Counter(r) <= Counter(r)'
      BY <2>4, <3>4
    <3> HIDE DEF s
    <3> QED
      BY <2>1, <2>3, <3>1, <3>3, <3>5, NothingReserved
  <2>7. CASE b.action # "none" /\ ~OverBudget(s, b, c.op, c.len)
    <3>1. /\ session' = Counted(s, c.op, c.len)
          /\ pc' = [pc EXCEPT ![t] = StageFrom(1, c.op)]
          /\ call' = call
      BY <1>6, <2>7 DEF SessionGuard
    <3>2. CASE c.op \in Streams
      <4> HIDE DEF s
      <4>1. s = IF session = Unset THEN NewSession ELSE session
        BY DEF s
      <4> QED
        BY <2>1, <2>2, <2>3, <2>7, <3>1, <3>2, <4>1, Admitted
    <3>3. CASE c.op \notin Streams
      <4>1. \A u \in Threads : Holding(u)' => Holding(u) /\ SameLoad(call'[u], call[u])
        BY <3>1, <3>3 DEF Holding, SameLoad, CallInv
      <4>2. /\ s.ops \in 0 .. Cap /\ s.tx \in 0 .. Cap /\ s.rx \in 0 .. Cap /\ s.age \in 0 .. Cap
        BY <2>3 DEF SessionState
      <4> HIDE DEF s
      <4>3. session' = [ops |-> Sat(s.ops + 1), tx |-> s.tx, rx |-> s.rx, age |-> s.age]
        BY <2>3, <3>1, <3>3 DEF Counted, SessionState, Streams
      <4>4. Sat(s.ops + 1) \in 0 .. Cap /\ Sat(s.ops + 1) >= s.ops
        BY <4>2 DEF Sat
      <4>5. session' \in SessionState
        BY <4>2, <4>3, <4>4 DEF SessionState
      <4>6. \A r \in Resources : Part(s, r) <= Part(session', r)
        BY <4>2, <4>3, <4>4 DEF Part
      <4>7. \A r \in Resources : Counter(r)' = Part(session', r)
        BY <4>5 DEF Counter, Part
      <4>8. \A r \in Resources : Counter(r) <= Counter(r)'
        BY <2>4, <4>6, <4>7
      <4> QED
        BY <2>1, <4>1, <4>5, <4>8, NothingReserved
    <3> QED
      BY <3>2, <3>3
  <2> QED
    BY <2>5, <2>6, <2>7
<1>7. ASSUME NEW t \in Threads,
             \/ ChaosBase(t) \/ FlowControl(t) \/ TimingVariation(t)
             \/ TransportFaults(t) \/ ResolverFaults(t)
      PROVE  BudgetInv'
  <2>1. pc[t] \in PipelineStages /\ UNCHANGED <<used, session>>
    BY <1>7 DEF ChaosBase, FlowControl, TimingVariation, TransportFaults, ResolverFaults,
       PipelineStages, maps, history
  <2>2. pc[t] \in Stages /\ call[t] \in CallType
    BY <2>1 DEF PipelineStages, Stages, CallInv
  <2>3. CASE Terminal(t)
    <3>1. pc'[t] = "idle" /\ \A u \in Threads : u # t => pc'[u] = pc[u] /\ call'[u] = call[u]
      BY <2>3, TerminalCall
    <3>2. ~Holding(t)'
      BY <3>1 DEF Holding, PipelineStages
    <3> QED
      BY <2>1, <3>1, <3>2, OneThreadReleases
  <2>4. ASSUME NEW i \in 1 .. 5, NEW d \in Int, Continue(t, i, d) PROVE BudgetInv'
    <3>1. /\ call'[t] = [call[t] EXCEPT !.delay = Sat(call[t].delay + d)]
          /\ \A u \in Threads : u # t => pc'[u] = pc[u] /\ call'[u] = call[u]
      BY <2>2, <2>4, ContinueCall
    <3>2. SameLoad(call'[t], call[t])
      BY <2>2, <3>1 DEF SameLoad, CallType
    <3>3. Holding(t)' => Holding(t)
      BY <2>1, <3>2 DEF Holding, SameLoad
    <3> QED
      BY <2>1, <3>1, <3>2, <3>3, OneThreadReleases
  <2>5. Terminal(t) \/ \E i \in 1 .. 5, d \in Int : Continue(t, i, d)
    BY <1>7, StageOutcome
  <2> QED
    BY <2>3, <2>4, <2>5
<1>8. ASSUME NEW t \in Threads, Apply(t) PROVE BudgetInv'
  <2>1. /\ UNCHANGED <<used, session>> /\ pc[t] = "apply" /\ call' = call
        /\ \A u \in Threads : u # t => pc'[u] = pc[u]
    BY <1>8 DEF Apply, CallInv
  <2>2. Holding(t)' => Holding(t) /\ SameLoad(call'[t], call[t])
    BY <2>1 DEF Holding, SameLoad
  <2> QED
    BY <2>1, <2>2, OneThreadReleases
<1>9. ASSUME NEW t \in Threads, Original(t) PROVE BudgetInv'
  <2>1. session' = session /\ pc[t] = "orig"
    BY <1>9 DEF Original, maps
  <2>2. CASE call[t].op \in Streams
    <3>1. PICK n \in 0 .. call[t].len :
            /\ call' = [call EXCEPT ![t].moved = n]
            /\ pc' = [pc EXCEPT ![t] = "record"]
            /\ used' = IF Budgeted(call[t])
                       THEN [used EXCEPT ![call[t].policy] = Spent(@, call[t].op, n)]
                       ELSE used
      BY <1>9, <2>2 DEF Original
    <3> QED
      BY <2>1, <2>2, <3>1, SpentFromReserve
  <2>3. CASE call[t].op \notin Streams
    <3>1. /\ used' = used /\ pc' = [pc EXCEPT ![t] = "idle"]
          /\ call' = [call EXCEPT ![t] = NoCall]
      BY <1>9, <2>3 DEF Original
    <3>2. \A u \in Threads : u # t => pc'[u] = pc[u] /\ call'[u] = call[u]
      BY <3>1 DEF CallInv
    <3>3. ~Holding(t)'
      BY <3>1 DEF Holding, PipelineStages, CallInv
    <3> QED
      BY <2>1, <3>1, <3>2, <3>3, OneThreadReleases
  <2> QED
    BY <2>2, <2>3
<1>10. ASSUME NEW t \in Threads, Record(t) PROVE BudgetInv'
  <2>1. /\ UNCHANGED <<used, session>> /\ pc'[t] = "idle"
        /\ \A u \in Threads : u # t => pc'[u] = pc[u] /\ call'[u] = call[u]
    BY <1>10 DEF Record, CallInv
  <2>2. ~Holding(t)'
    BY <2>1 DEF Holding, PipelineStages
  <2> QED
    BY <2>1, <2>2, OneThreadReleases
<1> QED
  BY <1>0, <1>1, <1>2, <1>3, <1>4, <1>5, <1>6, <1>7, <1>8, <1>9, <1>10 DEF Next, ThreadStep
-----------------------------------------------------------------------------
(* The theorems.                                                           *)

IndInv == CallInv /\ BurstInv /\ WaitInv /\ CutInv /\ CreditInv /\ BudgetInv

\* The engine starts in it.
LEMMA InitInd == Init => IndInv
<1> SUFFICES ASSUME Init PROVE IndInv
  OBVIOUS
<1> USE EngineAssumption, TopRateIsTop DEF Init
<1>1. CallInv /\ WaitInv /\ BurstInv
  BY DEF CallInv, WaitInv, BurstInv
<1>2. CutInv
  BY DEF CutInv
<1>3. CreditInv
  <2>1. FullCredit \in Int
    BY DEF FullCredit
  <2> QED
    BY <2>1 DEF CreditInv
<1>4. BudgetInv
  <2>1. used \in [Policies -> [ops : Nat, tx : Nat, rx : Nat]]
    BY DEF Unused
  <2>2. ASSUME NEW p \in Policies, NEW r \in Resources PROVE Within(p, r)
    <3>1. Reserved(p, r) = {}
      BY DEF Reserved, Holding, PipelineStages
    <3>2. IsFiniteSet({}) /\ Cardinality({}) = 0
      BY FS_EmptySet
    <3>3. Part(used[p], r) = 0 /\ Counter(r) = 0
      BY DEF Unused, Part, Counter
    <3>4. Limit(p, r) >= 0
      BY BoundAssumption DEF Limit
    <3> QED
      BY <3>1, <3>2, <3>3, <3>4 DEF Within
  <2> QED
    BY <2>1, <2>2 DEF BudgetInv, Limited
<1> QED
  BY <1>1, <1>2, <1>3, <1>4 DEF IndInv

\* Every step keeps it.
LEMMA NextInd == IndInv /\ [Next]_vars => IndInv'
<1> SUFFICES ASSUME IndInv, [Next]_vars PROVE IndInv'
  OBVIOUS
<1>1. CallInv /\ BurstInv /\ WaitInv /\ CutInv /\ CreditInv /\ BudgetInv
  BY DEF IndInv
<1>2. bucket.tokens \in Int /\ bucket.age \in Int
  BY <1>1, TopRateIsTop, EngineAssumption DEF CreditInv
<1>3. CallInv'
  BY <1>1, <1>2, CallStep
<1>4. BurstInv' /\ WaitInv' /\ CreditInv'
  BY <1>1, BurstStep, WaitStep, CreditStep
<1>5. CutInv' /\ BudgetInv'
  BY <1>1, <1>2, <1>3, CutStep, BudgetStep
<1> QED
  BY <1>3, <1>4, <1>5 DEF IndInv

\* The inductive invariant of the engine: the shape of the calls, and for bursts, waits,
\* cut connections, bandwidth and budgets what the maps say about the history.
THEOREM EngineInvariant == Spec => []IndInv
BY InitInd, NextInd, PTL DEF Spec

\* However the losses of several threads overlap, no more calls are dropped than losses
\* and their bursts account for (burst_remaining_by_fd).
THEOREM BurstsEnd == Spec => []BurstNoLonger
<1>1. IndInv => BurstNoLonger
  BY DEF IndInv, BurstInv, BurstNoLonger
<1> QED
  BY EngineInvariant, <1>1, PTL

\* Once calls have returned as many bytes as the policy lets through, no call that
\* begins later reaches the kernel (record_stream_bytes, connection_error_kind).
THEOREM StaysCut == Spec => []HalfOpenHeld
<1>1. IndInv => HalfOpenHeld
  BY DEF IndInv, CutInv, HalfOpenHeld
<1> QED
  BY EngineInvariant, <1>1, PTL

\* What the bucket grants keeps to the highest bandwidth in every interval, whichever
\* policies and threads share it (refill, try_acquire).
THEOREM BandwidthKept == Spec => []GrantsConform
<1>1. IndInv => GrantsConform
  <2> SUFFICES ASSUME IndInv PROVE GrantsConform
    OBVIOUS
  <2> USE TopRateIsTop, EngineAssumption
  <2>1. /\ bucket.tokens \in Nat /\ bucket.age \in Nat /\ credit \in Int
        /\ credit >= FullCredit \/ credit >= bucket.tokens * Second + bucket.age * TopRate
    BY DEF IndInv, CreditInv
  <2>2. bucket.tokens * Second \in Nat /\ bucket.age * TopRate \in Nat /\ FullCredit \in Nat
    BY <2>1 DEF FullCredit
  <2> QED
    BY <2>1, <2>2 DEF GrantsConform
<1> QED
  BY EngineInvariant, <1>1, PTL

\* However calls overlap and are retried, the kernel sees no more operations and bytes of
\* a session than the policy allows (precheck).
THEOREM BudgetsHold == Spec => []BudgetHeld
<1>1. IndInv => BudgetHeld
  <2> SUFFICES ASSUME IndInv, NEW p \in Policies, NEW r \in Resources, Limit(p, r) > 0
               PROVE  Part(used[p], r) <= Limit(p, r)
    BY DEF BudgetHeld, Part, Limit, Resources
  <2>1. BudgetInv /\ Part(used[p], r) \in Nat /\ Limit(p, r) \in Nat
    BY BudgetNumbers DEF IndInv
  <2>2. CASE ConfigOf[p].session.action = "none"
    <3>1. Part(used[p], r) = 0
      BY <2>1, <2>2 DEF BudgetInv, Unused, Part
    <3> QED
      BY <2>1, <3>1
  <2>3. CASE ConfigOf[p].session.action # "none"
    <3>1. Within(p, r)
      BY <2>1, <2>3 DEF BudgetInv, Limited
    <3>2. Cardinality(Reserved(p, r)) \in Nat
      BY <3>1, FS_CardinalityType DEF Within
    <3> QED
      BY <2>1, <3>1, <3>2 DEF Within
  <2> QED
    BY <2>2, <2>3
<1> QED
  BY EngineInvariant, <1>1, PTL

\* A delayed call of a non-blocking descriptor gets through exactly when its delay has
\* passed since the first EAGAIN, whichever threads ask in between
\* (nonblocking_delay_pending).
THEOREM WaitsEnd == Spec => WaitHonoured
<1> DEFINE A == \A t \in Threads :
                  Delayed(t) =>
                    (pc'[t] = "orig" <=> polling # Unset /\ polling >= call[t].delay)
                    \/ pc'[t] = "apply"
<1>1. ASSUME IndInv, [Next]_vars PROVE [A]_vars
  <2>1. SUFFICES ASSUME Next, NEW t \in Threads, Delayed(t), pc'[t] # "apply"
                 PROVE  pc'[t] = "orig" <=> polling # Unset /\ polling >= call[t].delay
    BY <1>1
  <2>2. pc[t] = "apply" /\ CallInv /\ WaitInv
    BY <1>1, <2>1 DEF Delayed, IndInv
  <2>3. ~Close /\ ~Tick
    BY <2>1, <2>2 DEF Close, Tick
  <2>4. ASSUME NEW u \in Threads, ThreadStep(u), u # t PROVE FALSE
    <3>1. pc'[t] = pc[t]
      BY <2>2, <2>4 DEF ThreadStep, Start, StartUnconfigured, Retry, Enter, Evaluate, SessionGuard,
         ChaosBase, FlowControl, TimingVariation, TransportFaults, ResolverFaults, Apply, Original,
         Record, Terminal, Continue, CallInv
    <3> QED
      BY <2>1, <2>2, <3>1
  <2>5. Apply(t)
    <3>1. ThreadStep(t)
      BY <2>1, <2>3, <2>4 DEF Next
    <3>2. ~\E x \in {"idle", "again", "lock", "R1", "R2", "R3", "R4", "R5", "R6", "orig", "record"} :
             pc[t] = x
      BY <2>2
    <3> QED
      BY <3>1, <3>2, Zenon DEF ThreadStep, Start, StartUnconfigured, Retry, Evaluate,
         SessionGuard, ChaosBase, FlowControl, TimingVariation, TransportFaults, ResolverFaults,
         Original, Record
  <2>6. pc'[t] = IF DelayPending(call[t].delay).pending THEN "again" ELSE "orig"
    BY <2>1, <2>2, <2>5 DEF Apply, Delayed, CallInv
  <2> QED
    BY <2>2, <2>6 DEF DelayPending, WaitInv
<1> QED
  BY EngineInvariant, <1>1, PTL DEF Spec, WaitHonoured
=============================================================================
