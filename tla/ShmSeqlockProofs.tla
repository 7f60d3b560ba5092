-------------------------- MODULE ShmSeqlockProofs --------------------------
(***************************************************************************)
(* Proofs about ShmSeqlock, for every set of writers and readers, every    *)
(* layout of the row and every bound.  They hold while the writers of the  *)
(* row are serialised by one lock and no clear() is cut short.             *)
(***************************************************************************)
EXTENDS ShmSeqlock, TLAPS

\* All writers go through one SHMWriter, and clear() runs to its end.
Serialised ==
  /\ \A v, w \in Writers : LockOf[v] = LockOf[w]
  /\ "clear" \notin AbortOps

\* SHMWriter._lock excludes: at most one writer is inside a call.
Mutex == \A v, w \in Writers : wpc[v] = "idle" \/ wpc[w] = "idle" \/ v = w

\* What a writer inside a call knows of the generation.
WriterInv(w) ==
  /\ wpc[w] # "idle" => start[w] % 2 = 1 /\ start[w] + 1 <= MaxGen
  /\ wpc[w] = "mark" => start[w] = StartGeneration(mem["gen"])
  /\ wpc[w] \in {"magic", "copy"} => mem["gen"] = start[w]
  /\ wpc[w] = "copy" => op[w] = "update"
  /\ wpc[w] = "magic" => op[w] # "update"
  /\ wpc[w] = "store" => \/ mem["gen"] = start[w]
                         \/ op[w] = "clear" /\ mem["gen"] = 0
  /\ op[w] = "clear" => new[w] = Zero
  /\ op[w] = "write" => "gen" \notin pend[w]
  /\ op[w] = "update" /\ wpc[w] = "store" => new[w]["gen"] = start[w]

Quiet == \A w \in Writers : ~Active(w)

\* A row nobody is writing, under an even generation, is the published one.
RowInv ==
  /\ mem["gen"] <= MaxGen
  /\ Quiet /\ mem["gen"] % 2 = 0 => mem = published[mem["gen"]]

WInv == Mutex /\ RowInv /\ \A w \in Writers : WriterInv(w)

\* A stable read in progress: as long as the row has not moved on, what was
\* copied is what was published.
CopyInv(r) ==
  /\ rpc[r] \in {"idle", "g1", "done"} => got[r] = {}
  /\ rpc[r] \in {"copy", "g2"} =>
       /\ g1[r] % 2 = 0
       /\ g1[r] <= Clock
       /\ g1[r] # 0 /\ g1[r] = Clock =>
            \A f \in got[r] : snap[r][f] = published[g1[r]][f]
       /\ rpc[r] = "g2" => got[r] = Row

\* An accepted configuration is the published row of its generation.
ConfigInv(r) ==
  HasConfig(r) /\ cgen[r] # 0 =>
    /\ cgen[r] % 2 = 0
    /\ cgen[r] <= Clock
    /\ AsPublished(r)
    /\ cfg[r]["gen"] = cgen[r]

RulesEqual(r, S) == \A f \in S : rules[r][f] = published[cgen[r]][f]

\* The rules copied since belong to it unless the row has moved on, and they
\* do for sure once the generation was seen again.
RulesInv(r) ==
  cgen[r] # 0 =>
    /\ rpc[r] = "rules" /\ cgen[r] = Clock => RulesEqual(r, got[r])
    /\ rpc[r] \in {"g1", "copy", "g2"} /\ phase[r] = "refresh" /\ cgen[r] = Clock
         => RulesEqual(r, Rules)
    /\ rpc[r] \in {"copy", "g2"} /\ phase[r] = "refresh"
         /\ "gen" \in got[r] /\ snap[r]["gen"] = cgen[r]
         => RulesEqual(r, Rules)
    /\ rpc[r] = "done" /\ res[r] = "rule" => RulesEqual(r, Rules)

RInv == \A r \in Readers : CopyInv(r) /\ ConfigInv(r) /\ RulesInv(r)

IndInv == TypeOK /\ WInv /\ RInv

-----------------------------------------------------------------------------
(* The clock.                                                              *)

\* The clock under an active writer is the generation it started from.
LEMMA ClockOfActive ==
  ASSUME Mutex, NEW w \in Writers, Active(w)
  PROVE  Clock = start[w]
<1>1. PICK v : v = CHOOSE x \in Writers : Active(x)
  OBVIOUS
<1>2. v \in Writers /\ Active(v)
  BY <1>1
<1>3. v = w
  BY <1>2 DEF Mutex, Active
<1> QED
  BY <1>1, <1>3 DEF Clock

\* The same of the next state.
LEMMA ClockOfActivePrimed ==
  ASSUME Mutex', NEW w \in Writers, Active(w)'
  PROVE  Clock' = start'[w]
<1>1. PICK v : v = CHOOSE x \in Writers : Active(x)'
  OBVIOUS
<1>2. v \in Writers /\ Active(v)'
  BY <1>1
<1>3. v = w
  BY <1>2 DEF Mutex, Active
<1> QED
  BY <1>1, <1>3 DEF Clock

\* The stored generation is the clock unless a clear() has zeroed it, and
\* under an even clock the row is at rest.
LEMMA ClockFacts ==
  ASSUME TypeOK, WInv
  PROVE  /\ Clock \in 0 .. MaxGen
         /\ mem["gen"] # 0 => mem["gen"] = Clock
         /\ Clock % 2 = 0 => Quiet /\ mem["gen"] = Clock /\ mem = published[Clock]
<1>1. mem["gen"] \in Nat /\ start \in [Writers -> Nat] /\ MaxGen \in Nat
  BY ConstantsAssumption DEF TypeOK, WriterTypeOK, Locs, Row
<1>2. CASE Quiet
  <2>1. Clock = mem["gen"]
    BY <1>2 DEF Clock, Quiet
  <2> QED
    BY <2>1, <1>1, <1>2 DEF WInv, RowInv
<1>3. ASSUME NEW w \in Writers, Active(w)
      PROVE  /\ Clock \in 0 .. MaxGen
             /\ mem["gen"] # 0 => mem["gen"] = Clock
             /\ Clock % 2 # 0
  <2>1. Clock = start[w]
    BY <1>3, ClockOfActive DEF WInv
  <2>2. /\ start[w] % 2 = 1 /\ start[w] + 1 <= MaxGen
        /\ mem["gen"] # 0 => mem["gen"] = start[w]
    BY <1>3 DEF WInv, WriterInv, Active
  <2>3. start[w] \in Nat
    BY <1>1
  <2> QED
    BY <2>1, <2>2, <2>3, <1>1
<1> QED
  BY <1>2, <1>3 DEF Quiet

-----------------------------------------------------------------------------
(* Types.                                                                  *)

\* A writer's step keeps the types.
LEMMA WriterType ==
  ASSUME TypeOK, WInv, NEW w \in Writers, WriterStep(w)
  PROVE  TypeOK'
<1> USE DEF WriterTypeOK
<1>0. WriterTypeOK
  BY DEF TypeOK
<1> SUFFICES WriterTypeOK'
  <2>1. UNCHANGED rvars
    BY DEF WriterStep, BeginWrite, BeginClear, BeginUpdate, Begin, Mark, StoreMagic,
           CopyRow, Store, Publish, Abort, Release
  <2> QED
    BY <2>1 DEF rvars, TypeOK, ReaderTypeOK
<1>1. /\ FAULTCORE_MAGIC \in Nat /\ Zero \in [Locs -> Nat]
      /\ "gen" \in Locs /\ "magic" \in Locs /\ Row \subseteq Locs
      /\ MaxGen \in Nat
  BY <1>0, ConstantsAssumption DEF FAULTCORE_MAGIC, Zero, Locs, Row
<1>2. ASSUME NEW kind \in {"write", "clear", "update"}, NEW u,
             DOMAIN u \subseteq Locs, \A l \in DOMAIN u : u[l] \in Nat,
             Begin(w, kind, u)
      PROVE  WriterTypeOK'
  <2>1. StartGeneration(mem["gen"]) \in Nat
    BY <1>0, <1>1 DEF StartGeneration
  <2>2. [l \in Locs |-> IF l \in DOMAIN u THEN u[l] ELSE 0] \in [Locs -> Nat]
    BY <1>0, <1>2
  <2> QED
    BY <1>0, <1>2, <2>1, <2>2 DEF Begin, rvars
<1>3. CASE BeginWrite(w)
  BY <1>0, <1>2, <1>3, ConstantsAssumption DEF BeginWrite
<1>4. CASE BeginClear(w)
  <2>1. DOMAIN Zero \subseteq Locs /\ \A l \in DOMAIN Zero : Zero[l] \in Nat
    BY DEF Zero
  <2> QED
    BY <1>0, <1>2, <1>4, <2>1 DEF BeginClear
<1>5. CASE BeginUpdate(w)
  BY <1>0, <1>2, <1>5, ConstantsAssumption DEF BeginUpdate
<1>6. CASE Mark(w)
  BY <1>0, <1>1, <1>6 DEF Mark, rvars
<1>7. CASE StoreMagic(w)
  BY <1>0, <1>1, <1>7 DEF StoreMagic, rvars
<1>8. CASE CopyRow(w)
  BY <1>0, <1>1, <1>8 DEF CopyRow, rvars
<1>9. CASE Store(w)
  BY <1>0, <1>9 DEF Store, rvars
<1>10. CASE Publish(w)
  <2>1. start[w] + 1 \in 0 .. MaxGen
    <3>1. wpc[w] = "store" /\ WriterInv(w)
      BY <1>10 DEF Publish, WInv
    <3>2. start[w] \in Nat /\ start[w] + 1 <= MaxGen
      BY <1>0, <3>1 DEF WriterInv
    <3> QED
      BY <3>2, <1>1
  <2>2. mem' \in [Locs -> Nat]
    BY <1>0, <1>1, <1>10 DEF Publish, PublishedGeneration
  <2>3. published' \in [0 .. MaxGen -> [Locs -> Nat]]
    BY <1>0, <2>1, <2>2, <1>10 DEF Publish, PublishedGeneration
  <2> QED
    BY <1>0, <1>1, <1>10, <2>2, <2>3 DEF Publish, Release, rvars
<1>11. CASE Abort(w)
  BY <1>0, <1>1, <1>11 DEF Abort, Release, rvars
<1> QED
  BY <1>0, <1>3, <1>4, <1>5, <1>6, <1>7, <1>8, <1>9, <1>10, <1>11 DEF WriterStep

\* A reader's step keeps the types.
LEMMA ReaderType ==
  ASSUME TypeOK, WInv, NEW r \in Readers, StartResolve(r) \/ ReaderStep(r)
  PROVE  TypeOK'
<1> USE DEF ReaderTypeOK
<1>0. ReaderTypeOK /\ WriterTypeOK
  BY DEF TypeOK
<1> SUFFICES ReaderTypeOK'
  <2>1. UNCHANGED wvars
    BY DEF StartResolve, ReaderStep, ReadFirstGeneration, CopyWord, ReadSecondGeneration,
           CopyRule, StartRefresh, Return
  <2> QED
    BY <2>1, <1>0 DEF wvars, TypeOK, WriterTypeOK
<1>1. /\ Zero \in [Locs -> Nat] /\ Row \subseteq Locs /\ Rules \subseteq Locs
      /\ MaxGen \in Nat /\ MaxAttempts \in Nat \ {0} /\ RetryLimit \in Nat \ {0}
      /\ "gen" \in Locs
  BY <1>0, ConstantsAssumption DEF Zero, Locs, Row
<1>2. mem["gen"] \in 0 .. MaxGen
  BY <1>0, <1>1 DEF WInv, RowInv, WriterTypeOK
<1>3. ASSUME NEW how \in {"none", "config", "rule"}, NEW c \in [Locs -> Nat],
             NEW g \in 0 .. MaxGen, NEW t \in [Locs -> Nat],
             Finish(r, how, c, g, t)
      PROVE  ReaderTypeOK'
  BY <1>0, <1>1, <1>3 DEF Finish
<1>4. ASSUME ReturnNone(r)
      PROVE  ReaderTypeOK'
  <2>1. 0 \in 0 .. MaxGen
    BY <1>0, <1>1
  <2> QED
    BY <1>0, <1>1, <1>3, <1>4, <2>1 DEF ReturnNone
<1>5. ASSUME RetryRead(r)
      PROVE  ReaderTypeOK'
  <2>1. CASE left[r] > 1
    <3>1. left[r] - 1 \in 0 .. MaxAttempts /\ 0 \in 0 .. MaxGen
      BY <1>0, <1>1, <2>1
    <3>2. /\ rpc' = [rpc EXCEPT ![r] = "g1"]
          /\ left' = [left EXCEPT ![r] = left[r] - 1]
          /\ g1' = [g1 EXCEPT ![r] = 0]
          /\ got' = [got EXCEPT ![r] = {}]
          /\ snap' = [snap EXCEPT ![r] = Zero]
          /\ UNCHANGED <<phase, tries, cfg, cgen, rules, res>>
      BY <1>5, <2>1 DEF RetryRead
    <3> QED
      BY <1>0, <1>1, <3>1, <3>2
  <2> QED
    BY <1>0, <1>4, <1>5, <2>1 DEF RetryRead
<1>6. ASSUME NEW n \in Int, n <= RetryLimit, Accept(r, n)
      PROVE  ReaderTypeOK'
  <2>1. CASE n = 0 /\ ReturnNone(r)
    BY <1>0, <1>4, <1>6, <2>1
  <2>2. CASE Finish(r, "config", snap[r], g1[r], Zero)
    BY <1>0, <1>1, <1>3, <1>6, <2>2
  <2>3. CASE n > 0 /\ EnterRules(r, n)
    <3>1. n \in 0 .. RetryLimit /\ 0 \in 0 .. MaxGen
      BY <1>1, <1>6, <2>3
    <3> QED
      BY <1>0, <1>1, <2>3, <3>1 DEF EnterRules
  <2> QED
    BY <1>0, <1>6, <2>1, <2>2, <2>3 DEF Accept
<1>7. CASE StartResolve(r)
  BY <1>0, <1>1, <1>7 DEF StartResolve, EnterStableRead
<1>8. CASE ReadFirstGeneration(r)
  <2>1. CASE RetryRead(r)
    BY <1>0, <1>5, <1>8, <2>1 DEF ReadFirstGeneration
  <2> QED
    BY <1>0, <1>1, <1>2, <1>8, <2>1 DEF ReadFirstGeneration
<1>9. CASE CopyWord(r)
  <2>1. PICK f \in Row : /\ snap' = [snap EXCEPT ![r][f] = mem[f]]
                         /\ got' = [got EXCEPT ![r] = @ \cup {f}]
    BY <1>9 DEF CopyWord
  <2>2. f \in Locs /\ mem[f] \in Nat
    BY <1>0, <1>1 DEF WriterTypeOK
  <2>3. snap' \in [Readers -> [Locs -> Nat]]
    BY <1>0, <2>1, <2>2
  <2>4. got' \in [Readers -> SUBSET Locs]
    BY <1>0, <2>1, <2>2
  <2> QED
    BY <1>0, <1>9, <2>3, <2>4 DEF CopyWord
<1>10. CASE ReadSecondGeneration(r)
  <2>1. CASE RetryRead(r)
    BY <1>0, <1>5, <1>10, <2>1 DEF ReadSecondGeneration
  <2>2. CASE ReturnNone(r)
    BY <1>0, <1>4, <1>10, <2>2 DEF ReadSecondGeneration
  <2>3. CASE Accept(r, tries[r])
    BY <1>0, <1>1, <1>6, <1>10, <2>3 DEF ReadSecondGeneration
  <2>4. CASE Refreshed(r)
    <3>1. CASE Finish(r, "rule", cfg[r], cgen[r], rules[r])
      BY <1>0, <1>3, <1>10, <3>1 DEF ReadSecondGeneration
    <3>2. CASE Accept(r, tries[r] - 1)
      BY <1>0, <1>1, <1>6, <1>10, <3>2 DEF ReadSecondGeneration
    <3> QED
      BY <1>0, <2>4, <3>1, <3>2 DEF Refreshed
  <2> QED
    BY <1>0, <1>10, <2>1, <2>2, <2>3, <2>4 DEF ReadSecondGeneration
<1>11. CASE CopyRule(r)
  <2>1. PICK f \in Rules : /\ rules' = [rules EXCEPT ![r][f] = mem[f]]
                           /\ got' = [got EXCEPT ![r] = @ \cup {f}]
    BY <1>11 DEF CopyRule
  <2>2. f \in Locs /\ mem[f] \in Nat
    BY <1>0, <1>1 DEF WriterTypeOK
  <2>3. rules' \in [Readers -> [Locs -> Nat]]
    BY <1>0, <2>1, <2>2
  <2>4. got' \in [Readers -> SUBSET Locs]
    BY <1>0, <2>1, <2>2
  <2> QED
    BY <1>0, <1>11, <2>3, <2>4 DEF CopyRule
<1>12. CASE StartRefresh(r)
  BY <1>0, <1>1, <1>12 DEF StartRefresh, EnterStableRead
<1>13. CASE Return(r)
  BY <1>0, <1>1, <1>13 DEF Return
<1> QED
  BY <1>0, <1>7, <1>8, <1>9, <1>10, <1>11, <1>12, <1>13 DEF ReaderStep

-----------------------------------------------------------------------------
(* Writers.                                                                *)

\* What a writer's step means to readers: the clock does not go back, a row
\* at rest under an unchanged clock keeps its words, and what was published
\* up to now stays published.
Moved ==
  /\ Clock' >= Clock
  /\ Clock' = Clock /\ Clock % 2 = 0 => mem' = mem
  /\ \A g \in 0 .. MaxGen : g <= Clock => published'[g] = published[g]

\* Every writer's step keeps the writers' invariant and only moves forward.
LEMMA WriterMoves ==
  ASSUME Serialised, TypeOK, WInv, NEW w \in Writers, WriterStep(w)
  PROVE  WInv' /\ Moved
<1>0. WriterTypeOK /\ WriterTypeOK'
  BY WriterType DEF TypeOK
<1>1. /\ "gen" \in Locs /\ "magic" \in Locs /\ "gen" \notin Rules /\ "gen" # "magic"
      /\ MaxGen \in Nat
      /\ \A u \in Updates : "gen" \notin DOMAIN u
  BY ConstantsAssumption DEF Locs, Row
<1>2. /\ mem["gen"] \in Nat /\ start[w] \in Nat /\ mem["gen"] <= MaxGen
      /\ WriterInv(w) /\ RowInv
  BY <1>0, <1>1 DEF WriterTypeOK, WInv, RowInv
<1>3. \A v \in Writers : v # w => wpc[v] = "idle"
  <2>1. CASE wpc[w] = "idle"
    <3>1. LockFree(w)
      BY <2>1 DEF WriterStep, BeginWrite, BeginClear, BeginUpdate, Begin, Mark,
                  StoreMagic, CopyRow, Store, Publish, Abort
    <3> QED
      BY <3>1 DEF LockFree, Serialised
  <2> QED
    BY <2>1 DEF WInv, Mutex
<1>4. \A v \in Writers : v # w =>
        /\ wpc'[v] = wpc[v] /\ op'[v] = op[v] /\ start'[v] = start[v]
        /\ pend'[v] = pend[v] /\ new'[v] = new[v]
  BY <1>0, ZenonT(40) DEF WriterTypeOK, WriterStep, BeginWrite, BeginClear, BeginUpdate, Begin, Mark,
              StoreMagic, CopyRow, Store, Publish, Abort, Release
<1>5. Mutex /\ Mutex'
  BY <1>3, <1>4 DEF Mutex, WInv
<1>6. /\ Active(w) => Clock = start[w]
      /\ ~Active(w) => Clock = mem["gen"] /\ Quiet
  <2>1. CASE Active(w)
    BY <1>5, <2>1, ClockOfActive
  <2>2. CASE ~Active(w)
    BY <1>3, <2>2 DEF Clock, Active, Quiet
  <2> QED
    BY <2>1, <2>2
<1>7. /\ Active(w)' => Clock' = start'[w] /\ ~Quiet'
      /\ ~Active(w)' => Clock' = mem'["gen"]
  <2>1. CASE Active(w)'
    BY <1>5, <2>1, ClockOfActivePrimed DEF Quiet
  <2>2. CASE ~Active(w)'
    <3>1. \A v \in Writers : ~Active(v)'
      BY <1>3, <1>4, <2>2 DEF Active
    <3> QED
      BY <3>1 DEF Clock
  <2> QED
    BY <2>1, <2>2
<1>8. \A v \in Writers : v # w => WriterInv(v)'
  BY <1>3, <1>4 DEF WInv, WriterInv
<1> DEFINE Kept == WriterInv(w)' /\ RowInv' /\ Moved
<1>9. ASSUME NEW kind \in {"write", "clear", "update"}, NEW u, Begin(w, kind, u),
             kind = "write" => "gen" \notin DOMAIN u, kind = "clear" => u = Zero
      PROVE  Kept
  <2>1. /\ wpc[w] = "idle" /\ wpc'[w] = "mark" /\ op'[w] = kind
        /\ start'[w] = StartGeneration(mem["gen"]) /\ mem' = mem /\ published' = published
        /\ start'[w] + 1 <= MaxGen /\ pend'[w] = DOMAIN u
        /\ new'[w] = [l \in Locs |-> IF l \in DOMAIN u THEN u[l] ELSE 0]
    BY <1>0, <1>9 DEF Begin, WriterTypeOK, PublishedGeneration
  <2>2. kind = "clear" => new'[w] = Zero
    BY <2>1, <1>9 DEF Zero
  <2>3. StartGeneration(mem["gen"]) % 2 = 1
    BY <1>2 DEF StartGeneration
  <2>4. WriterInv(w)'
    BY <1>9, <2>1, <2>2, <2>3 DEF WriterInv
  <2>5. Clock = mem["gen"] /\ Clock' = mem["gen"]
    BY <1>6, <1>7, <2>1 DEF Active
  <2>6. RowInv'
    BY <1>2, <1>3, <1>6, <2>1 DEF RowInv, Active
  <2> QED
    BY <1>2, <2>1, <2>4, <2>5, <2>6 DEF Moved
<1>10. ASSUME BeginWrite(w) PROVE Kept
  BY <1>1, <1>9, <1>10 DEF BeginWrite
<1>11. ASSUME BeginClear(w) PROVE Kept
  BY <1>9, <1>11 DEF BeginClear
<1>12. ASSUME BeginUpdate(w) PROVE Kept
  BY <1>9, <1>12 DEF BeginUpdate
<1>13. ASSUME Mark(w) PROVE Kept
  <2>1. /\ wpc[w] = "mark" /\ wpc'[w] \in {"magic", "copy"}
        /\ wpc'[w] = "copy" <=> op[w] = "update"
        /\ mem'["gen"] = start[w] /\ published' = published
        /\ op' = op /\ start' = start /\ pend' = pend /\ new' = new
    BY <1>0, <1>1, <1>13 DEF Mark, WriterTypeOK
  <2>2. start[w] % 2 = 1 /\ start[w] + 1 <= MaxGen /\ start[w] = StartGeneration(mem["gen"])
    BY <1>2, <2>1 DEF WriterInv
  <2>3. Clock = mem["gen"] /\ Clock' = start[w] /\ ~Quiet'
    BY <1>6, <1>7, <2>1 DEF Active
  <2>4. start[w] >= mem["gen"] /\ (start[w] = mem["gen"] => mem["gen"] % 2 # 0)
    BY <1>2, <2>2 DEF StartGeneration
  <2>5. WriterInv(w)'
    BY <1>2, <2>1, <2>2 DEF WriterInv
  <2>6. RowInv'
    BY <1>1, <1>2, <2>1, <2>2, <2>3 DEF RowInv
  <2> QED
    BY <1>2, <2>1, <2>3, <2>4, <2>5, <2>6 DEF Moved
<1>14. ASSUME StoreMagic(w) PROVE Kept
  <2>1. /\ wpc[w] = "magic" /\ wpc'[w] = "store"
        /\ mem'["gen"] = mem["gen"] /\ published' = published
        /\ op' = op /\ start' = start /\ pend' = pend /\ new' = new
    BY <1>0, <1>1, <1>14 DEF StoreMagic, WriterTypeOK
  <2>2. start[w] % 2 = 1 /\ mem["gen"] = start[w]
    BY <1>2, <2>1 DEF WriterInv
  <2>3. Clock = start[w] /\ Clock' = start[w] /\ ~Quiet'
    BY <1>6, <1>7, <2>1 DEF Active
  <2>4. op[w] # "update"
    BY <1>2, <2>1 DEF WriterInv
  <2>5. WriterInv(w)'
    BY <1>2, <2>1, <2>2, <2>4 DEF WriterInv
  <2>6. RowInv'
    BY <1>2, <2>1, <2>3 DEF RowInv
  <2> QED
    BY <1>2, <2>1, <2>2, <2>3, <2>5, <2>6 DEF Moved
<1>15. ASSUME CopyRow(w) PROVE Kept
  <2>1. /\ wpc[w] = "copy" /\ wpc'[w] = "store" /\ op' = op /\ start' = start
        /\ new'[w]["gen"] = start[w] /\ mem' = mem /\ published' = published
    BY <1>0, <1>1, <1>15 DEF CopyRow, WriterTypeOK
  <2>2. start[w] % 2 = 1 /\ mem["gen"] = start[w] /\ op[w] = "update"
    BY <1>2, <2>1 DEF WriterInv
  <2>3. Clock = start[w] /\ Clock' = start[w] /\ ~Quiet'
    BY <1>6, <1>7, <2>1 DEF Active
  <2>4. WriterInv(w)'
    BY <1>2, <2>1, <2>2 DEF WriterInv
  <2>5. RowInv'
    BY <1>2, <2>1, <2>3 DEF RowInv
  <2> QED
    BY <1>2, <2>1, <2>2, <2>3, <2>4, <2>5 DEF Moved
<1>16. ASSUME Store(w) PROVE Kept
  <2>1. PICK l \in pend[w] : mem' = [mem EXCEPT ![l] = new[w][l]]
                            /\ pend' = [pend EXCEPT ![w] = @ \ {l}]
    BY <1>16 DEF Store
  <2>2. /\ wpc[w] = "store" /\ wpc' = wpc /\ op' = op /\ start' = start /\ new' = new
        /\ published' = published
    BY <1>16 DEF Store
  <2>3. start[w] % 2 = 1 /\ start[w] + 1 <= MaxGen
    BY <1>2, <2>2 DEF WriterInv
  <2>4. mem'["gen"] = IF l = "gen" THEN new[w]["gen"] ELSE mem["gen"]
    BY <1>0, <1>1, <2>1 DEF WriterTypeOK
  <2>5. pend'[w] \subseteq pend[w]
    BY <1>0, <2>1 DEF WriterTypeOK
  <2>6. op[w] \in {"write", "clear", "update"}
    BY <1>0 DEF WriterTypeOK
  <2>7. \/ mem'["gen"] = start[w]
        \/ op[w] = "clear" /\ mem'["gen"] = 0
    BY <1>1, <1>2, <2>1, <2>2, <2>4, <2>6 DEF WriterInv, Zero
  <2>8. WriterInv(w)'
    BY <1>2, <2>2, <2>5, <2>7 DEF WriterInv
  <2>9. Clock = start[w] /\ Clock' = start[w] /\ ~Quiet'
    BY <1>6, <1>7, <2>2 DEF Active
  <2>10. RowInv'
    BY <1>1, <1>2, <2>3, <2>7, <2>9 DEF RowInv
  <2> QED
    BY <1>2, <2>2, <2>3, <2>8, <2>9, <2>10 DEF Moved
<1>17. ASSUME Release(w)
       PROVE  wpc'[w] = "idle" /\ WriterInv(w)'
  <2>1. wpc'[w] = "idle" /\ op'[w] = "write" /\ pend'[w] = {}
    BY <1>0, <1>17 DEF Release, WriterTypeOK
  <2> QED
    BY <2>1 DEF WriterInv
<1>18. ASSUME Publish(w) PROVE Kept
  <2>1. /\ wpc[w] = "store" /\ wpc'[w] = "idle" /\ WriterInv(w)'
        /\ mem'["gen"] = start[w] + 1
        /\ published' = [published EXCEPT ![start[w] + 1] = mem']
    BY <1>0, <1>1, <1>17, <1>18 DEF Publish, PublishedGeneration, WriterTypeOK
  <2>2. start[w] % 2 = 1 /\ start[w] + 1 \in 0 .. MaxGen
    BY <1>1, <1>2, <2>1 DEF WriterInv
  <2>3. Clock = start[w] /\ Clock' = start[w] + 1
    BY <1>6, <1>7, <2>1 DEF Active
  <2>4. published'[start[w] + 1] = mem'
    BY <1>0, <2>1, <2>2 DEF WriterTypeOK
  <2>5. RowInv'
    BY <2>1, <2>2, <2>4 DEF RowInv
  <2>6. \A g \in 0 .. MaxGen : g <= Clock => published'[g] = published[g]
    BY <1>0, <1>2, <2>1, <2>2, <2>3 DEF WriterTypeOK
  <2> QED
    BY <1>2, <2>1, <2>3, <2>5, <2>6 DEF Moved
<1>19. ASSUME Abort(w) PROVE Kept
  <2>1. /\ wpc[w] = "store" /\ wpc'[w] = "idle" /\ WriterInv(w)' /\ op[w] # "clear"
        /\ mem' = mem /\ published' = published
    BY <1>17, <1>19 DEF Abort, Serialised
  <2>2. start[w] % 2 = 1 /\ mem["gen"] = start[w]
    BY <1>2, <2>1 DEF WriterInv
  <2>3. Clock = start[w] /\ Clock' = start[w]
    BY <1>6, <1>7, <2>1, <2>2 DEF Active
  <2>4. RowInv'
    BY <1>2, <2>1, <2>2 DEF RowInv
  <2> QED
    BY <1>2, <2>1, <2>2, <2>3, <2>4 DEF Moved
<1>20. Kept
  BY <1>10, <1>11, <1>12, <1>13, <1>14, <1>15, <1>16, <1>18, <1>19 DEF WriterStep
<1> QED
  BY <1>5, <1>8, <1>20 DEF WInv

-----------------------------------------------------------------------------
(* Readers.                                                                *)

ReaderInv(r) == CopyInv(r) /\ ConfigInv(r) /\ RulesInv(r)

\* A writer's step leaves what the readers know intact.
LEMMA ReadersUnderWriter ==
  ASSUME TypeOK, WInv, RInv, UNCHANGED rvars, Clock' \in 0 .. MaxGen, Moved
  PROVE  RInv'
<1> SUFFICES ASSUME NEW r \in Readers
             PROVE  ReaderInv(r)'
  BY DEF RInv, ReaderInv
<1>1. Clock \in 0 .. MaxGen /\ MaxGen \in Nat
  BY ClockFacts, ConstantsAssumption
<1>2. g1[r] \in 0 .. MaxGen /\ cgen[r] \in 0 .. MaxGen
  BY DEF TypeOK, ReaderTypeOK
<1>3. ReaderInv(r)
  BY DEF RInv, ReaderInv
<1>4. /\ rpc' = rpc /\ phase' = phase /\ g1' = g1 /\ got' = got /\ snap' = snap
      /\ cfg' = cfg /\ cgen' = cgen /\ rules' = rules /\ res' = res
  BY DEF rvars
<1>5. \A g \in 0 .. MaxGen : g <= Clock =>
        g <= Clock' /\ (g = Clock' => g = Clock) /\ published'[g] = published[g]
  BY <1>1 DEF Moved
<1>6. CopyInv(r)'
  BY <1>2, <1>3, <1>4, <1>5 DEF ReaderInv, CopyInv
<1>7. ConfigInv(r)'
  BY <1>2, <1>3, <1>4, <1>5 DEF ReaderInv, ConfigInv, HasConfig, AsPublished
<1>8. HasConfig(r) /\ cgen[r] # 0 => cgen[r] <= Clock
  BY <1>3 DEF ReaderInv, ConfigInv
<1>9. RulesInv(r)'
  BY <1>2, <1>3, <1>4, <1>5, <1>8 DEF ReaderInv, RulesInv, RulesEqual, HasConfig
<1> QED
  BY <1>6, <1>7, <1>9 DEF ReaderInv

\* A reader's step keeps what it and the other readers know.
LEMMA ReaderMoves ==
  ASSUME TypeOK, WInv, RInv, NEW r \in Readers, StartResolve(r) \/ ReaderStep(r)
  PROVE  WInv' /\ RInv' /\ Clock' = Clock
<1>0. UNCHANGED wvars
  BY DEF StartResolve, ReaderStep, ReadFirstGeneration, CopyWord, ReadSecondGeneration,
         CopyRule, StartRefresh, Return
<1>1. mem' = mem /\ published' = published /\ Clock' = Clock
  BY <1>0 DEF wvars, Clock, Active
<1>2. WInv'
  BY <1>0 DEF wvars, WInv, Mutex, RowInv, Quiet, Active, WriterInv
<1>3. ReaderTypeOK /\ WriterTypeOK /\ ReaderTypeOK'
  BY ReaderType DEF TypeOK
<1>4. /\ Clock \in 0 .. MaxGen /\ mem["gen"] \in Nat /\ mem["gen"] <= MaxGen
      /\ mem["gen"] # 0 => mem["gen"] = Clock
      /\ Clock % 2 = 0 => mem["gen"] = Clock /\ mem = published[Clock]
      /\ "gen" \in Row /\ "gen" \in Locs
  BY <1>3, ClockFacts, ConstantsAssumption DEF WInv, RowInv, WriterTypeOK, Locs, Row
<1>5. \A q \in Readers : q # r =>
        /\ rpc'[q] = rpc[q] /\ phase'[q] = phase[q] /\ g1'[q] = g1[q]
        /\ got'[q] = got[q] /\ snap'[q] = snap[q] /\ cfg'[q] = cfg[q]
        /\ cgen'[q] = cgen[q] /\ rules'[q] = rules[q] /\ res'[q] = res[q]
  BY <1>3 DEF ReaderTypeOK, StartResolve, ReaderStep, ReadFirstGeneration, CopyWord,
        ReadSecondGeneration, CopyRule, StartRefresh, Return, RetryRead, ReturnNone,
        Accept, EnterRules, Refreshed, Finish, EnterStableRead
<1>6. \A q \in Readers : q # r => ReaderInv(q)'
  <2> SUFFICES ASSUME NEW q \in Readers, q # r PROVE ReaderInv(q)'
    OBVIOUS
  <2>1. ReaderInv(q)
    BY DEF RInv, ReaderInv
  <2> QED
    BY <1>1, <1>5, <2>1 DEF ReaderInv, CopyInv, ConfigInv, RulesInv, RulesEqual,
                            HasConfig, AsPublished
<1>7. ReaderInv(r)
  BY DEF RInv, ReaderInv
<1>8. /\ g1[r] \in 0 .. MaxGen /\ cgen[r] \in 0 .. MaxGen
  BY <1>3 DEF ReaderTypeOK
\* An accepted read is the published row.
<1>9. rpc[r] = "g2" /\ mem["gen"] = g1[r] /\ g1[r] # 0 =>
        /\ g1[r] % 2 = 0 /\ g1[r] <= Clock
        /\ \A f \in Row : snap[r][f] = published[g1[r]][f]
        /\ snap[r]["gen"] = g1[r]
  BY <1>4, <1>7, <1>8 DEF ReaderInv, CopyInv
<1>10. ASSUME ReturnNone(r) PROVE ReaderInv(r)'
  <2>1. rpc'[r] = "done" /\ res'[r] = "none" /\ got'[r] = {}
    BY <1>3, <1>10 DEF ReturnNone, Finish, ReaderTypeOK
  <2> QED
    BY <2>1 DEF ReaderInv, CopyInv, ConfigInv, RulesInv, HasConfig
<1>11. ASSUME RetryRead(r), rpc[r] \in {"g1", "g2"} PROVE ReaderInv(r)'
  <2>1. CASE left[r] > 1
    <3>1. /\ rpc'[r] = "g1" /\ got'[r] = {} /\ phase' = phase /\ cfg' = cfg /\ cgen' = cgen
          /\ rules' = rules /\ res' = res
      BY <1>3, <1>11, <2>1 DEF RetryRead, ReaderTypeOK
    <3> QED
      BY <1>1, <1>7, <1>11, <3>1 DEF ReaderInv, CopyInv, ConfigInv, RulesInv, RulesEqual,
                                     HasConfig, AsPublished
  <2> QED
    BY <1>10, <1>11, <2>1 DEF RetryRead
<1>12. ASSUME NEW n, Accept(r, n), rpc[r] = "g2", mem["gen"] = g1[r]
       PROVE  ReaderInv(r)'
  <2>1. CASE Finish(r, "config", snap[r], g1[r], Zero)
    <3>1. /\ rpc'[r] = "done" /\ res'[r] = "config" /\ got'[r] = {}
          /\ cfg'[r] = snap[r] /\ cgen'[r] = g1[r]
      BY <1>3, <2>1 DEF Finish, ReaderTypeOK
    <3> QED
      BY <1>1, <1>9, <1>12, <3>1 DEF ReaderInv, CopyInv, ConfigInv, RulesInv, AsPublished
  <2>2. CASE EnterRules(r, n)
    <3>1. /\ rpc'[r] = "rules" /\ got'[r] = {}
          /\ cfg'[r] = snap[r] /\ cgen'[r] = g1[r]
      BY <1>3, <2>2 DEF EnterRules, ReaderTypeOK
    <3> QED
      BY <1>1, <1>9, <1>12, <3>1 DEF ReaderInv, CopyInv, ConfigInv, RulesInv, RulesEqual,
                                     AsPublished
  <2> QED
    BY <1>10, <1>12, <2>1, <2>2 DEF Accept
<1>13. ASSUME StartResolve(r) PROVE ReaderInv(r)'
  <2>1. rpc[r] = "idle" /\ rpc'[r] = "g1" /\ phase'[r] = "base" /\ got' = got
    BY <1>3, <1>13 DEF StartResolve, EnterStableRead, ReaderTypeOK
  <2> QED
    BY <1>7, <2>1 DEF ReaderInv, CopyInv, ConfigInv, RulesInv, HasConfig
<1>14. ASSUME ReadFirstGeneration(r) PROVE ReaderInv(r)'
  <2>1. CASE RetryRead(r)
    BY <1>11, <1>14, <2>1 DEF ReadFirstGeneration
  <2>2. CASE /\ mem["gen"] % 2 = 0
              /\ rpc' = [rpc EXCEPT ![r] = "copy"]
              /\ g1' = [g1 EXCEPT ![r] = mem["gen"]]
              /\ UNCHANGED <<phase, left, tries, got, snap, cfg, cgen, rules, res>>
    <3>1. /\ rpc[r] = "g1" /\ rpc'[r] = "copy" /\ g1'[r] = mem["gen"] /\ got[r] = {}
          /\ got' = got /\ phase' = phase /\ cfg' = cfg /\ cgen' = cgen /\ rules' = rules
      BY <1>3, <1>7, <1>14, <2>2 DEF ReadFirstGeneration, ReaderTypeOK, ReaderInv, CopyInv
    <3>2. mem["gen"] <= Clock
      BY <1>4
    <3>3. CopyInv(r)'
      BY <1>1, <2>2, <3>1, <3>2 DEF CopyInv
    <3>4. ConfigInv(r)'
      BY <1>1, <1>7, <3>1 DEF ReaderInv, ConfigInv, HasConfig, AsPublished
    <3>5. RulesInv(r)'
      BY <1>1, <1>7, <3>1 DEF ReaderInv, RulesInv, RulesEqual
    <3> QED
      BY <3>3, <3>4, <3>5 DEF ReaderInv
  <2> QED
    BY <1>14, <2>1, <2>2 DEF ReadFirstGeneration
<1>15. ASSUME CopyWord(r) PROVE ReaderInv(r)'
  <2>1. PICK f \in Row \ got[r] :
          /\ snap' = [snap EXCEPT ![r][f] = mem[f]]
          /\ got' = [got EXCEPT ![r] = @ \cup {f}]
          /\ rpc' = [rpc EXCEPT ![r] = IF got[r] \cup {f} = Row THEN "g2" ELSE "copy"]
    BY <1>15 DEF CopyWord
  <2>2. /\ rpc[r] = "copy" /\ rpc'[r] \in {"copy", "g2"}
        /\ got'[r] = got[r] \cup {f} /\ (rpc'[r] = "g2" => got'[r] = Row)
        /\ g1' = g1 /\ phase' = phase /\ cfg' = cfg /\ cgen' = cgen /\ rules' = rules
    BY <1>3, <1>15, <2>1 DEF CopyWord, ReaderTypeOK
  <2>3. \A x \in Locs : snap'[r][x] = IF x = f THEN mem[f] ELSE snap[r][x]
    BY <1>3, <2>1 DEF ReaderTypeOK
  <2>4. got[r] \subseteq Locs /\ f \in Locs
    BY <1>3 DEF ReaderTypeOK, Locs
  <2>5. CopyInv(r)'
    BY <1>1, <1>4, <1>7, <2>2, <2>3, <2>4 DEF ReaderInv, CopyInv
  <2>6. ConfigInv(r)'
    BY <1>1, <1>7, <2>2 DEF ReaderInv, ConfigInv, HasConfig, AsPublished
  <2>7. ASSUME phase[r] = "refresh", cgen[r] # 0,
               "gen" \in got'[r], snap'[r]["gen"] = cgen[r]
        PROVE  RulesEqual(r, Rules)
    <3>1. CASE f = "gen"
      <4>1. mem["gen"] = cgen[r]
        BY <1>4, <2>3, <2>7, <3>1
      <4>2. cgen[r] = Clock
        BY <1>4, <2>7, <4>1
      <4> QED
        BY <1>7, <2>2, <2>7, <4>2 DEF ReaderInv, RulesInv
    <3>2. CASE f # "gen"
      <4>1. "gen" \in got[r] /\ snap[r]["gen"] = cgen[r]
        BY <1>4, <2>2, <2>3, <2>7, <3>2
      <4> QED
        BY <1>7, <2>2, <2>7, <4>1 DEF ReaderInv, RulesInv
    <3> QED
      BY <3>1, <3>2
  <2>8. RulesInv(r)'
    BY <1>1, <1>7, <2>2, <2>7 DEF ReaderInv, RulesInv, RulesEqual
  <2> QED
    BY <2>5, <2>6, <2>8 DEF ReaderInv
<1>16. ASSUME Refreshed(r), phase[r] = "refresh", rpc[r] = "g2", mem["gen"] = g1[r]
       PROVE  ReaderInv(r)'
  <2>1. CASE /\ snap[r]["gen"] = cfg[r]["gen"]
             /\ Finish(r, "rule", cfg[r], cgen[r], rules[r])
    <3>1. /\ rpc'[r] = "done" /\ res'[r] = "rule" /\ got'[r] = {}
          /\ cfg'[r] = cfg[r] /\ cgen'[r] = cgen[r] /\ rules'[r] = rules[r]
      BY <1>3, <2>1 DEF Finish, ReaderTypeOK
    <3>2. cgen[r] # 0 => RulesEqual(r, Rules)
      BY <1>4, <1>7, <1>16, <2>1 DEF ReaderInv, CopyInv, ConfigInv, HasConfig, RulesInv
    <3>3. ConfigInv(r)'
      BY <1>1, <1>7, <1>16, <3>1 DEF ReaderInv, ConfigInv, HasConfig, AsPublished
    <3> QED
      BY <1>1, <3>1, <3>2, <3>3 DEF ReaderInv, CopyInv, RulesInv, RulesEqual
  <2>2. CASE Accept(r, tries[r] - 1)
    BY <1>12, <1>16, <2>2
  <2> QED
    BY <1>16, <2>1, <2>2 DEF Refreshed
<1>17. ASSUME ReadSecondGeneration(r) PROVE ReaderInv(r)'
  BY <1>10, <1>11, <1>12, <1>16, <1>17 DEF ReadSecondGeneration
<1>18. ASSUME CopyRule(r) PROVE ReaderInv(r)'
  <2>1. PICK f \in Rules \ got[r] : /\ rules' = [rules EXCEPT ![r][f] = mem[f]]
                                    /\ got' = [got EXCEPT ![r] = @ \cup {f}]
    BY <1>18 DEF CopyRule
  <2>2. /\ rpc[r] = "rules" /\ rpc' = rpc /\ got'[r] = got[r] \cup {f}
        /\ cfg' = cfg /\ cgen' = cgen
    BY <1>3, <1>18, <2>1 DEF CopyRule, ReaderTypeOK
  <2>3. \A x \in Locs : rules'[r][x] = IF x = f THEN mem[f] ELSE rules[r][x]
    BY <1>3, <2>1 DEF ReaderTypeOK
  <2>4. got[r] \subseteq Locs /\ f \in Locs
    BY <1>3 DEF ReaderTypeOK, Locs
  <2>5. ConfigInv(r)'
    BY <1>1, <1>7, <2>2 DEF ReaderInv, ConfigInv, HasConfig, AsPublished
  <2>6. cgen[r] # 0 => cgen[r] % 2 = 0
    BY <1>7, <2>2 DEF ReaderInv, ConfigInv, HasConfig
  <2>7. RulesInv(r)'
    BY <1>1, <1>4, <1>7, <2>2, <2>3, <2>4, <2>6 DEF ReaderInv, RulesInv, RulesEqual
  <2> QED
    BY <2>2, <2>5, <2>7 DEF ReaderInv, CopyInv
<1>19. ASSUME StartRefresh(r) PROVE ReaderInv(r)'
  <2>1. /\ rpc[r] = "rules" /\ got[r] = Rules /\ rpc'[r] = "g1" /\ phase'[r] = "refresh"
        /\ got'[r] = {} /\ cfg' = cfg /\ cgen' = cgen /\ rules' = rules
    BY <1>3, <1>19 DEF StartRefresh, EnterStableRead, ReaderTypeOK
  <2> QED
    BY <1>1, <1>7, <2>1 DEF ReaderInv, CopyInv, ConfigInv, RulesInv, RulesEqual, HasConfig,
                            AsPublished
<1>20. ASSUME Return(r) PROVE ReaderInv(r)'
  <2>1. rpc[r] = "done" /\ rpc'[r] = "idle" /\ cgen'[r] = 0 /\ got' = got
    BY <1>3, <1>20 DEF Return, ReaderTypeOK
  <2> QED
    BY <1>7, <2>1 DEF ReaderInv, CopyInv, ConfigInv, RulesInv
<1>21. ReaderInv(r)'
  BY <1>13, <1>14, <1>15, <1>17, <1>18, <1>19, <1>20 DEF ReaderStep
<1> QED
  BY <1>1, <1>2, <1>6, <1>21 DEF RInv, ReaderInv

-----------------------------------------------------------------------------
(* The theorems.                                                           *)

\* The invariant holds at the start and every step keeps it.
LEMMA Inductive ==
  ASSUME Serialised
  PROVE  /\ Init => IndInv
         /\ IndInv /\ [Next]_vars => IndInv' /\ Clock' >= Clock
<1>1. ASSUME Init PROVE IndInv
  <2>1. TypeOK
    <3>1. Zero \in [Locs -> Nat] /\ 0 \in 0 .. MaxGen /\ 0 \in 0 .. MaxAttempts
          /\ 0 \in 0 .. RetryLimit
      BY ConstantsAssumption DEF Zero
    <3>2. WriterTypeOK
      BY <1>1, <3>1 DEF Init, WriterTypeOK
    <3>3. ReaderTypeOK
      BY <1>1, <3>1 DEF Init, ReaderTypeOK
    <3> QED
      BY <3>2, <3>3 DEF TypeOK
  <2>2. mem["gen"] = 0 /\ MaxGen \in Nat
    BY <1>1, ConstantsAssumption DEF Init, Zero, Locs, Row
  <2>3. RowInv
    BY <1>1, <2>2 DEF Init, RowInv
  <2>4. \A w \in Writers : WriterInv(w)
    BY <1>1 DEF Init, WriterInv
  <2>5. Mutex
    BY <1>1 DEF Init, Mutex
  <2>6. RInv
    BY <1>1 DEF Init, RInv, CopyInv, ConfigInv, RulesInv, HasConfig
  <2> QED
    BY <2>1, <2>3, <2>4, <2>5, <2>6 DEF IndInv, WInv
<1>2. ASSUME IndInv, [Next]_vars PROVE IndInv' /\ Clock' >= Clock
  <2>0. TypeOK /\ WInv /\ RInv /\ Clock \in Nat
    BY <1>2, ClockFacts DEF IndInv
  <2>1. CASE \E w \in Writers : WriterStep(w)
    <3>1. PICK w \in Writers : WriterStep(w)
      BY <2>1
    <3>2. TypeOK' /\ WInv' /\ Moved
      BY <2>0, <3>1, WriterType, WriterMoves
    <3>3. UNCHANGED rvars
      BY <3>1 DEF WriterStep, BeginWrite, BeginClear, BeginUpdate, Begin, Mark, StoreMagic,
                  CopyRow, Store, Publish, Abort, Release
    <3>4. Clock' \in 0 .. MaxGen
      <4>1. CASE \E v \in Writers : Active(v)'
        <5>1. PICK v \in Writers : Active(v)'
          BY <4>1
        <5>2. Clock' = start'[v]
          BY <3>2, <5>1, ClockOfActivePrimed DEF WInv
        <5>3. start'[v] \in Nat /\ start'[v] + 1 <= MaxGen
          BY <3>2, <5>1 DEF TypeOK, WriterTypeOK, WInv, WriterInv, Active
        <5> QED
          BY <5>2, <5>3, ConstantsAssumption
      <4>2. CASE ~ \E v \in Writers : Active(v)'
        <5>1. Clock' = mem'["gen"]
          BY <4>2 DEF Clock
        <5>2. mem'["gen"] \in Nat /\ mem'["gen"] <= MaxGen
          BY <3>2 DEF TypeOK, WriterTypeOK, WInv, RowInv, Locs, Row
        <5> QED
          BY <5>1, <5>2, ConstantsAssumption
      <4> QED
        BY <4>1, <4>2
    <3>5. RInv'
      BY <2>0, <3>2, <3>3, <3>4, ReadersUnderWriter
    <3> QED
      BY <3>2, <3>5 DEF IndInv, Moved
  <2>2. CASE \E r \in Readers : StartResolve(r) \/ ReaderStep(r)
    BY <2>0, <2>2, ReaderType, ReaderMoves DEF IndInv
  <2>3. CASE UNCHANGED vars
    <3>1. UNCHANGED wvars /\ UNCHANGED rvars
      BY <2>3 DEF vars
    <3>2. Clock' = Clock
      BY <3>1 DEF wvars, Clock, Active
    <3>3. TypeOK'
      BY <2>0, <3>1 DEF wvars, rvars, TypeOK, WriterTypeOK, ReaderTypeOK
    <3>4. WInv'
      BY <2>0, <3>1 DEF wvars, WInv, Mutex, RowInv, Quiet, Active, WriterInv
    <3>5. RInv'
      BY <2>0, <3>1, <3>2 DEF wvars, rvars, RInv, CopyInv, ConfigInv, RulesInv, RulesEqual,
                              HasConfig, AsPublished
    <3> QED
      BY <2>0, <3>2, <3>3, <3>4, <3>5 DEF IndInv
  <2> QED
    BY <1>2, <2>1, <2>2, <2>3 DEF Next
<1> QED
  BY <1>1, <1>2

\* Types, for every instance.
THEOREM TypeCorrect == ASSUME Serialised PROVE Spec => []TypeOK
<1>1. IndInv => TypeOK
  BY DEF IndInv
<1> QED
  BY <1>1, Inductive, PTL DEF Spec

\* read_stable_config never returns a torn row under a nonzero generation.
THEOREM StableReads == ASSUME Serialised PROVE Spec => []NoTornPublished
<1>1. IndInv => NoTornPublished
  BY DEF IndInv, RInv, ConfigInv, NoTornPublished
<1> QED
  BY <1>1, Inductive, PTL DEF Spec

\* The rules bracket never pairs a rule table with another publication's row.
THEOREM StableRules == ASSUME Serialised PROVE Spec => []RulesMatchConfig
<1>1. IndInv => RulesMatchConfig
  BY DEF IndInv, RInv, RulesInv, RulesEqual, RulesMatchConfig
<1> QED
  BY <1>1, Inductive, PTL DEF Spec

\* The generation never goes back.
THEOREM ClockForward == ASSUME Serialised PROVE Spec => GenerationMonotone
<1> QED
  BY Inductive, PTL DEF Spec, GenerationMonotone
=============================================================================
