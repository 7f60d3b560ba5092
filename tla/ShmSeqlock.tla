----------------------------- MODULE ShmSeqlock -----------------------------
(***************************************************************************)
(* One configuration row of the shared-memory segment, its target-rule     *)
(* table, the threads that write them and the intercepted calls that       *)
(* resolve a runtime configuration from them.                              *)
(*                                                                         *)
(* A row is published with an odd/even generation: a writer makes          *)
(* ruleset_generation odd, stores the words of the row, and makes it even  *)
(* again.  A reader reads the generation, copies the row word by word,     *)
(* reads the generation again and accepts the copy if it saw twice the     *)
(* same even number.  The target rules live in a table of their own that   *)
(* has no generation: a reader brackets its copy of the table with two     *)
(* stable reads of the row.                                                *)
(*                                                                         *)
(* Every shared word is read and written in a step of its own.  Within one *)
(* memcpy (the whole-row stores of clear() and of the Rust writer, the     *)
(* whole-row load of a reader) the order of the words is the C library's,  *)
(* so it is left open.                                                     *)
(***************************************************************************)
EXTENDS Integers

CONSTANTS
  Writers,      \* threads that write this row
  RustWriters,  \* those that write through update_config_for_tid
  LockOf,       \* writer -> the lock it writes under (SHMWriter._lock)
  Readers,      \* threads in an intercepted call that resolves this row
  Payload,      \* words of the row other than the three named in Row
  Rules,        \* rows of the slot's target-rule table
  Updates,      \* what one write_*() call stores: functions location -> value
  MaxAttempts,  \* attempts of one stable read (10 in the code)
  RetryLimit,   \* RULESET_READ_RETRY_LIMIT (3 in the code)
  MaxGen,       \* bound: no write starts that would publish beyond it
  AbortOps      \* calls that may be cut short, of "write" and "clear"

\* The words of a FaultcoreConfig row.
Row == Payload \cup {"magic", "gen", "targets"}

\* Everything a writer of the row may store to.
Locs == Row \cup Rules

ASSUME ConstantsAssumption ==
  /\ RustWriters \subseteq Writers
  /\ Payload \cap Rules = {}
  /\ (Payload \cup Rules) \cap {"magic", "gen", "targets"} = {}
  /\ \A u \in Updates :
       /\ DOMAIN u \subseteq Locs \ {"magic", "gen"}
       /\ \A l \in DOMAIN u : u[l] \in Nat
  /\ MaxAttempts \in Nat \ {0}
  /\ RetryLimit \in Nat \ {0}
  /\ MaxGen \in Nat
  /\ AbortOps \subseteq {"write", "clear"}

FAULTCORE_MAGIC == 1

Zero == [l \in Locs |-> 0]

VARIABLES
  mem,    \* the shared words
  wpc,    \* writer: idle, mark, magic, copy, store
  op,     \* writer: write, clear or update (Rust)
  start,  \* writer: start_generation
  pend,   \* writer: locations it has yet to store to
  new,    \* writer: the values it stores there
  published, \* history: generation -> the words as published with it
  rpc,    \* reader: idle, g1, copy, g2, rules, done
  phase,  \* reader: which stable read it is in, base or refresh
  left,   \* reader: attempts left of that stable read
  tries,  \* reader: rounds left of the rules bracket
  g1,     \* reader: the first generation of the stable read
  got,    \* reader: words copied so far
  snap,   \* reader: the copy of the row
  cfg,    \* reader: the accepted configuration
  cgen,   \* reader: the generation cfg was accepted under
  rules,  \* reader: the copy of the rule table
  res     \* reader: how the call ended: none, config, rule

wvars == <<mem, wpc, op, start, pend, new, published>>
rvars == <<rpc, phase, left, tries, g1, got, snap, cfg, cgen, rules, res>>
vars == <<wvars, rvars>>

WriterTypeOK ==
  /\ mem \in [Locs -> Nat]
  /\ wpc \in [Writers -> {"idle", "mark", "magic", "copy", "store"}]
  /\ op \in [Writers -> {"write", "clear", "update"}]
  /\ start \in [Writers -> Nat]
  /\ pend \in [Writers -> SUBSET Locs]
  /\ new \in [Writers -> [Locs -> Nat]]
  /\ published \in [0 .. MaxGen -> [Locs -> Nat]]

ReaderTypeOK ==
  /\ rpc \in [Readers -> {"idle", "g1", "copy", "g2", "rules", "done"}]
  /\ phase \in [Readers -> {"base", "refresh"}]
  /\ left \in [Readers -> 0 .. MaxAttempts]
  /\ tries \in [Readers -> 0 .. RetryLimit]
  /\ g1 \in [Readers -> 0 .. MaxGen]
  /\ got \in [Readers -> SUBSET Locs]
  /\ snap \in [Readers -> [Locs -> Nat]]
  /\ cfg \in [Readers -> [Locs -> Nat]]
  /\ cgen \in [Readers -> 0 .. MaxGen]
  /\ rules \in [Readers -> [Locs -> Nat]]
  /\ res \in [Readers -> {"none", "config", "rule"}]

\* The values every variable takes; a stable read never runs out of its
\* attempts unnoticed, and no generation is published beyond the bound.
TypeOK == WriterTypeOK /\ ReaderTypeOK

Init ==
  /\ mem = Zero
  /\ wpc = [w \in Writers |-> "idle"]
  /\ op = [w \in Writers |-> "write"]
  /\ start = [w \in Writers |-> 0]
  /\ pend = [w \in Writers |-> {}]
  /\ new = [w \in Writers |-> Zero]
  /\ published = [g \in 0 .. MaxGen |-> Zero]
  /\ rpc = [r \in Readers |-> "idle"]
  /\ phase = [r \in Readers |-> "base"]
  /\ left = [r \in Readers |-> 0]
  /\ tries = [r \in Readers |-> 0]
  /\ g1 = [r \in Readers |-> 0]
  /\ got = [r \in Readers |-> {}]
  /\ snap = [r \in Readers |-> Zero]
  /\ cfg = [r \in Readers |-> Zero]
  /\ cgen = [r \in Readers |-> 0]
  /\ rules = [r \in Readers |-> Zero]
  /\ res = [r \in Readers |-> "none"]

-----------------------------------------------------------------------------
(* Writers.                                                                *)

\* generation | 1
StartGeneration(g) == IF g % 2 = 0 THEN g + 1 ELSE g

\* (start_generation + 1) & ~1, for the odd start_generation of a writer.
\* The u64 would wrap after 2^63 publications, which no run reaches.
PublishedGeneration(s) == s + 1

\* A writer holds its lock from Begin to Publish or Abort.
LockFree(w) ==
  \A v \in Writers \ {w} : LockOf[v] = LockOf[w] => wpc[v] = "idle"

\* Takes the lock and reads the generation.  u is what the writer's body
\* will store: the words of the call, or zeroes everywhere for clear().
Begin(w, kind, u) ==
  /\ wpc[w] = "idle"
  /\ LockFree(w)
  /\ PublishedGeneration(StartGeneration(mem["gen"])) <= MaxGen
  /\ wpc' = [wpc EXCEPT ![w] = "mark"]
  /\ op' = [op EXCEPT ![w] = kind]
  /\ start' = [start EXCEPT ![w] = StartGeneration(mem["gen"])]
  /\ pend' = [pend EXCEPT ![w] = DOMAIN u]
  /\ new' = [new EXCEPT ![w] = [l \in Locs |-> IF l \in DOMAIN u THEN u[l] ELSE 0]]
  /\ UNCHANGED <<mem, published, rvars>>

BeginWrite(w) ==
  /\ w \notin RustWriters
  /\ \E u \in Updates : Begin(w, "write", u)

BeginClear(w) ==
  /\ w \notin RustWriters
  /\ Begin(w, "clear", Zero)

BeginUpdate(w) ==
  /\ w \in RustWriters
  /\ \E u \in {x \in Updates : DOMAIN x \subseteq Payload} : Begin(w, "update", u)

\* Stores the odd generation.
Mark(w) ==
  /\ wpc[w] = "mark"
  /\ mem' = [mem EXCEPT !["gen"] = start[w]]
  /\ wpc' = [wpc EXCEPT ![w] = IF op[w] = "update" THEN "copy" ELSE "magic"]
  /\ UNCHANGED <<op, start, pend, new, published, rvars>>

\* Python stores the magic before it calls the writer's body.
StoreMagic(w) ==
  /\ wpc[w] = "magic"
  /\ mem' = [mem EXCEPT !["magic"] = FAULTCORE_MAGIC]
  /\ wpc' = [wpc EXCEPT ![w] = "store"]
  /\ UNCHANGED <<op, start, pend, new, published, rvars>>

\* Rust copies the row, mutates the copy and stores all of it.
CopyRow(w) ==
  /\ wpc[w] = "copy"
  /\ new' = [new EXCEPT ![w] =
       [l \in Locs |-> IF l = "gen" THEN start[w]
                       ELSE IF l = "magic" THEN FAULTCORE_MAGIC
                       ELSE IF l \in pend[w] THEN @[l] ELSE mem[l]]]
  /\ pend' = [pend EXCEPT ![w] = Row]
  /\ wpc' = [wpc EXCEPT ![w] = "store"]
  /\ UNCHANGED <<mem, op, start, published, rvars>>

\* One store of the writer's body.  clear() zeroes the row, generation and
\* magic included, and then the rule table.
Store(w) ==
  /\ wpc[w] = "store"
  /\ \E l \in pend[w] :
       /\ op[w] = "clear" /\ l \in Rules => pend[w] \cap Row = {}
       /\ mem' = [mem EXCEPT ![l] = new[w][l]]
       /\ pend' = [pend EXCEPT ![w] = @ \ {l}]
  /\ UNCHANGED <<wpc, op, start, new, published, rvars>>

\* Back to idle, with the locals of the call gone.
Release(w) ==
  /\ wpc' = [wpc EXCEPT ![w] = "idle"]
  /\ op' = [op EXCEPT ![w] = "write"]
  /\ start' = [start EXCEPT ![w] = 0]
  /\ pend' = [pend EXCEPT ![w] = {}]
  /\ new' = [new EXCEPT ![w] = Zero]
  /\ UNCHANGED rvars

\* Mutant of Publish: the generation is taken from the row, not from start.
PublishFromRow(w) ==
  /\ wpc[w] = "store"
  /\ pend[w] = {}
  /\ mem' = [mem EXCEPT !["gen"] = PublishedGeneration(StartGeneration(@))]
  /\ published' = [published EXCEPT ![mem'["gen"]] = mem']
  /\ Release(w)

Publish(w) ==
  /\ wpc[w] = "store"
  /\ pend[w] = {}
  /\ mem' = [mem EXCEPT !["gen"] = PublishedGeneration(start[w])]
  /\ published' = [published EXCEPT ![PublishedGeneration(start[w])] = mem']
  /\ Release(w)

\* The writer's body raises (a value struct.pack_into refuses), or the
\* process is interrupted or killed: nothing restores the generation.
Abort(w) ==
  /\ wpc[w] = "store"
  /\ op[w] \in AbortOps
  /\ UNCHANGED <<mem, published>>
  /\ Release(w)

-----------------------------------------------------------------------------
(* Readers: apply_multi_target_for_tid over read_stable_config.            *)

\* A stable read starts: a fresh budget of attempts.
EnterStableRead(r, ph) ==
  /\ rpc' = [rpc EXCEPT ![r] = "g1"]
  /\ phase' = [phase EXCEPT ![r] = ph]
  /\ left' = [left EXCEPT ![r] = MaxAttempts]

\* The call returns; its locals are gone except the answer it gives.
Finish(r, how, c, g, t) ==
  /\ rpc' = [rpc EXCEPT ![r] = "done"]
  /\ res' = [res EXCEPT ![r] = how]
  /\ cfg' = [cfg EXCEPT ![r] = c]
  /\ cgen' = [cgen EXCEPT ![r] = g]
  /\ rules' = [rules EXCEPT ![r] = t]
  /\ phase' = [phase EXCEPT ![r] = "base"]
  /\ left' = [left EXCEPT ![r] = 0]
  /\ tries' = [tries EXCEPT ![r] = 0]
  /\ g1' = [g1 EXCEPT ![r] = 0]
  /\ got' = [got EXCEPT ![r] = {}]
  /\ snap' = [snap EXCEPT ![r] = Zero]

ReturnNone(r) == Finish(r, "none", Zero, 0, Zero)

StartResolve(r) ==
  /\ rpc[r] = "idle"
  /\ EnterStableRead(r, "base")
  /\ tries' = [tries EXCEPT ![r] = RetryLimit]
  /\ UNCHANGED <<wvars, g1, got, snap, cfg, cgen, rules, res>>

\* Mutants of RetryRead: the loop forgets to stop, or to count.
RetryUnbounded(r) ==
  /\ rpc' = [rpc EXCEPT ![r] = "g1"]
  /\ left' = [left EXCEPT ![r] = @ - 1]
  /\ g1' = [g1 EXCEPT ![r] = 0]
  /\ got' = [got EXCEPT ![r] = {}]
  /\ snap' = [snap EXCEPT ![r] = Zero]
  /\ UNCHANGED <<phase, tries, cfg, cgen, rules, res>>
RetryUncounted(r) ==
  /\ rpc' = [rpc EXCEPT ![r] = "g1"]
  /\ g1' = [g1 EXCEPT ![r] = 0]
  /\ got' = [got EXCEPT ![r] = {}]
  /\ snap' = [snap EXCEPT ![r] = Zero]
  /\ UNCHANGED <<phase, left, tries, cfg, cgen, rules, res>>

\* The loop of read_stable_config gives up after MaxAttempts iterations.
RetryRead(r) ==
  IF left[r] > 1
  THEN /\ rpc' = [rpc EXCEPT ![r] = "g1"]
       /\ left' = [left EXCEPT ![r] = @ - 1]
       /\ g1' = [g1 EXCEPT ![r] = 0]
       /\ got' = [got EXCEPT ![r] = {}]
       /\ snap' = [snap EXCEPT ![r] = Zero]
       /\ UNCHANGED <<phase, tries, cfg, cgen, rules, res>>
  ELSE ReturnNone(r)

ReadFirstGeneration(r) ==
  /\ rpc[r] = "g1"
  /\ \/ /\ mem["gen"] % 2 = 0
        /\ rpc' = [rpc EXCEPT ![r] = "copy"]
        /\ g1' = [g1 EXCEPT ![r] = mem["gen"]]
        /\ UNCHANGED <<phase, left, tries, got, snap, cfg, cgen, rules, res>>
     \/ /\ mem["gen"] % 2 = 1
        /\ RetryRead(r)
  /\ UNCHANGED wvars

CopyWord(r) ==
  /\ rpc[r] = "copy"
  /\ \E f \in Row \ got[r] :
       /\ snap' = [snap EXCEPT ![r][f] = mem[f]]
       /\ got' = [got EXCEPT ![r] = @ \cup {f}]
       /\ rpc' = [rpc EXCEPT ![r] = IF got[r] \cup {f} = Row THEN "g2" ELSE "copy"]
  /\ UNCHANGED <<wvars, phase, left, tries, g1, cfg, cgen, rules, res>>

\* is_valid(): the range checks of the other words accept what writers store.
IsValid(s) == s["magic"] = FAULTCORE_MAGIC

\* The accepted configuration has target rules, which are copied next, with n
\* rounds of the bracket left.
EnterRules(r, n) ==
  /\ rpc' = [rpc EXCEPT ![r] = "rules"]
  /\ tries' = [tries EXCEPT ![r] = n]
  /\ cfg' = [cfg EXCEPT ![r] = snap[r]]
  /\ cgen' = [cgen EXCEPT ![r] = g1[r]]
  /\ g1' = [g1 EXCEPT ![r] = 0]
  /\ got' = [got EXCEPT ![r] = {}]
  /\ snap' = [snap EXCEPT ![r] = Zero]
  /\ rules' = [rules EXCEPT ![r] = Zero]
  /\ UNCHANGED <<phase, left, res>>

\* A configuration was accepted; without target rules it is the answer.
Accept(r, n) ==
  \/ n = 0 /\ ReturnNone(r)
  \/ n > 0 /\ snap[r]["targets"] = 0 /\ Finish(r, "config", snap[r], g1[r], Zero)
  \/ n > 0 /\ snap[r]["targets"] > 0 /\ EnterRules(r, n)

\* Mutant of Refreshed: the second read is not compared with the first.
RefreshedUnchecked(r) == Finish(r, "rule", cfg[r], cgen[r], rules[r])

\* The refreshed row has the generation of cfg: the rules belong to cfg.
\* Otherwise the refreshed row becomes cfg and the bracket is tried again.
Refreshed(r) ==
  \/ /\ snap[r]["gen"] = cfg[r]["gen"]
     /\ Finish(r, "rule", cfg[r], cgen[r], rules[r])
  \/ /\ snap[r]["gen"] # cfg[r]["gen"]
     /\ Accept(r, tries[r] - 1)

\* Mutant of ReadSecondGeneration: the copy is accepted without a second look.
AcceptUnverified(r) ==
  /\ rpc[r] = "g2"
  /\ \/ ~IsValid(snap[r]) /\ ReturnNone(r)
     \/ IsValid(snap[r]) /\ phase[r] = "base" /\ Accept(r, tries[r])
     \/ IsValid(snap[r]) /\ phase[r] = "refresh" /\ Refreshed(r)
  /\ UNCHANGED wvars

ReadSecondGeneration(r) ==
  /\ rpc[r] = "g2"
  /\ \/ /\ mem["gen"] # g1[r]
        /\ RetryRead(r)
     \/ /\ mem["gen"] = g1[r] /\ ~IsValid(snap[r])
        /\ ReturnNone(r)
     \/ /\ mem["gen"] = g1[r] /\ IsValid(snap[r])
        /\ \/ phase[r] = "base" /\ Accept(r, tries[r])
           \/ phase[r] = "refresh" /\ Refreshed(r)
  /\ UNCHANGED wvars

\* get_target_rules_for_tid_slot: one unprotected copy per rule row.
CopyRule(r) ==
  /\ rpc[r] = "rules"
  /\ \E f \in Rules \ got[r] :
       /\ rules' = [rules EXCEPT ![r][f] = mem[f]]
       /\ got' = [got EXCEPT ![r] = @ \cup {f}]
  /\ UNCHANGED <<wvars, rpc, phase, left, tries, g1, snap, cfg, cgen, res>>

StartRefresh(r) ==
  /\ rpc[r] = "rules"
  /\ got[r] = Rules
  /\ EnterStableRead(r, "refresh")
  /\ got' = [got EXCEPT ![r] = {}]
  /\ UNCHANGED <<wvars, tries, g1, snap, cfg, cgen, rules, res>>

\* The caller has used the answer; the next call starts afresh.
Return(r) ==
  /\ rpc[r] = "done"
  /\ rpc' = [rpc EXCEPT ![r] = "idle"]
  /\ res' = [res EXCEPT ![r] = "none"]
  /\ cfg' = [cfg EXCEPT ![r] = Zero]
  /\ cgen' = [cgen EXCEPT ![r] = 0]
  /\ rules' = [rules EXCEPT ![r] = Zero]
  /\ UNCHANGED <<wvars, phase, left, tries, g1, got, snap>>

-----------------------------------------------------------------------------
WriterStep(w) ==
  \/ BeginWrite(w) \/ BeginClear(w) \/ BeginUpdate(w)
  \/ Mark(w) \/ StoreMagic(w) \/ CopyRow(w) \/ Store(w)
  \/ Publish(w) \/ Abort(w)

ReaderStep(r) ==
  \/ ReadFirstGeneration(r) \/ CopyWord(r) \/ ReadSecondGeneration(r)
  \/ CopyRule(r) \/ StartRefresh(r) \/ Return(r)

Next ==
  \/ \E w \in Writers : WriterStep(w)
  \/ \E r \in Readers : StartResolve(r) \/ ReaderStep(r)

Spec == Init /\ [][Next]_vars

\* A thread inside an intercepted call is scheduled; nothing is assumed of
\* the writers, which may be killed anywhere.
FairSpec == Spec /\ \A r \in Readers : WF_vars(ReaderStep(r))

-----------------------------------------------------------------------------
(* Properties.                                                             *)

\* The reader holds an accepted configuration.
HasConfig(r) ==
  \/ rpc[r] = "rules"
  \/ rpc[r] \in {"g1", "copy", "g2"} /\ phase[r] = "refresh"
  \/ rpc[r] = "done" /\ res[r] # "none"

\* The configuration is the row that was published with the generation the
\* reader saw before and after copying it.
AsPublished(r) == \A f \in Row : cfg[r][f] = published[cgen[r]][f]

\* What the concurrency test of read_stable_config asserts: an accepted
\* configuration is one of the published ones, never a mixture of two writes.
\* clear() breaks it: it zeroes the generation with the rest of the row, so
\* that for a moment an even number stands over a half-zeroed row.
NoTornConfig ==
  \A r \in Readers : HasConfig(r) =>
    \E g \in 0 .. MaxGen :
      \A f \in Payload \cup {"targets"} : cfg[r][f] = published[g][f]

\* What read_stable_config does guarantee while the writers of the row share
\* one lock: a configuration accepted under a nonzero generation is the row
\* as it was published with that generation.
NoTornPublished ==
  \A r \in Readers : HasConfig(r) /\ cgen[r] # 0 => AsPublished(r)

\* apply_multi_target_for_tid_with_reader never matches a call against rules
\* of one publication and applies the faults of another: when it settles on a
\* rule, table and configuration are those of the one generation.
RulesMatchConfig ==
  \A r \in Readers :
    rpc[r] = "done" /\ res[r] = "rule" /\ cgen[r] # 0 =>
      \A f \in Rules : rules[r][f] = published[cgen[r]][f]

\* A writer that has made the generation odd and not yet published.
Active(w) == wpc[w] \in {"magic", "copy", "store"}

\* The generation the row has reached: what an active writer started from,
\* or else what is stored.
Clock == IF \E w \in Writers : Active(w)
         THEN start[CHOOSE w \in Writers : Active(w)]
         ELSE mem["gen"]

\* The generation never goes back, not even over a clear() that zeroes the
\* stored word: a reader cannot take a later publication for an earlier one.
GenerationMonotone == [][Clock' >= Clock]_vars

\* An intercepted call is never held up by writers: whatever they do, and
\* also when a failed write leaves the generation odd for good, resolving
\* ends after a bounded number of attempts.
ResolveTerminates ==
  \A r \in Readers : rpc[r] # "idle" ~> rpc[r] = "idle"
=============================================================================
