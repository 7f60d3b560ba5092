# TLA+ specifications of faultcore

faultcore injects network faults into Python programs. Decorators and policies
write a configuration into POSIX shared memory, and a preloaded library
(`faultcore_interceptor`) that wraps the C library's socket calls reads it and
lets an engine (`faultcore_network`) decide what each call does: continue,
sleep, fail, hold the packet back, duplicate it, change it.

This directory models the parts of it in which several threads, tasks or
processes meet: model-checked with TLC on small instances and, where the
argument is general, proved with TLAPS for every instance.

## Inventory

| Component | State | Operations | Hard because | Correct if |
|---|---|---|---|---|
| Row publication (`shm_writer.py`, `shm_runtime.rs`, `setpriority_compat.rs`) | one `FaultcoreConfig` per thread slot with `ruleset_generation`; a table of 8 target rules per slot | `write_*`, `clear`, `update_config_for_tid`; `read_stable_config`, `get_target_rules_for_tid_slot`, `apply_multi_target_for_tid` | readers take no lock; the rule table has no generation; a write may fail half-way; `clear` zeroes the generation itself | an accepted configuration is one that was published, with its own rules; reading ends |
| Rule selection (`interceptor_bridge.rs`) | none beyond the loop's candidate | `select_best_target_rule`, `rule_match_class` | three orders at once (priority, class, registration); prefix masks | a rule returned matches, none that matches has a higher priority, and of equal ones a later is taken only for a more specific match |
| Uplink reorder queue (`runtime.rs`, `lib.rs`) | a map from descriptor to a shared queue of packets | `send`, `sendto`, `write`, `close` | map and queue are locked one after the other; three places send held packets, each a system call of its own | no packet lost, sent more often than asked for or on another socket; bounded displacement |
| Downlink reorder queue (`runtime.rs`, `lib.rs`) | as above, of chunks received | `recv`, `recvfrom`, `read`, `close` | the queue's lock is held while the call waits for data; a held chunk is returned through another call's buffer | no byte returned twice or on a later socket, none lost, neighbours only change places, no byte counted twice or before it is returned, the end reported last |
| Descriptor lifecycle (`lib.rs`, `shm_runtime.rs`) | owner entry per descriptor, observed server names, engine and runtime maps keyed by descriptor, TLS handle maps | `socket`, `close`, `dup*`, `accept*`, `connect`, `SSL_*` | numbers and addresses are reused; each hook is a system call plus bookkeeping | what is kept under a number is about the connection behind it |
| Decorators, registry, contexts (`decorator.py`, `policy_registry.py`, `policy_context.py`) | the registry, a context variable per flow, the row of the thread | decorated calls, `fault`, `register_policy`, `policy_context` | one row per thread, many calls; coroutines that never run; writes that raise | inside a function its faults are set, afterwards none are; contexts restore |
| Fault engine R1–R6 (`chaos_engine.rs`, `layers/`, `network_layer.rs`) | per descriptor: session counters, remaining burst, loss state, byte count, start of a wait; one token bucket for all | `evaluate_*`, `record_stream_bytes`, `clear_fd_state`, `nonblocking_delay_pending` | decided under one lock, slept, called and counted outside it; retries go through it again | budgets, half-open limits, bursts and rates hold for overlapping calls; a delay ends when it is over |
| Segment opening (`shm_runtime.rs`, `lib.rs`) | the segment, the owner table, per process a pointer and two flags | `initialize`, `try_open_shm`, `assign_*`, `clear_fd_owner`, `get_*_for_fd` | several threads and processes create, size, map and wipe | one mapping per process; bindings stay; no owner nobody wrote; a process that started first still opens |
| Host-name cache (`interceptor_bridge.rs`, `lib.rs`) | names by thread slot and endpoint, with the time they were noted | `getaddrinfo`, the lookup of every socket call | the clock is read before the lock; expiry, limit and a fallback over ports | an answered name is current; a miss means there is nothing to find |
| Record and replay (`record_replay.rs`) | mode, event list, sticky failure; the file | `record_replay_evaluate_or_replay` | order of threads, cut-off files, divergence | the file is what was decided, in order; a replay repeats what was decided about calls or fails for good |
| Observability, the payload transformation of R7, parsers, command line, reporting | — | — | pure computation, I/O, or counters nothing reads back | not modelled |

The decorated call writes the row of its thread; a hook resolves the row of the
descriptor's owner thread (or of the calling thread), selects a target rule,
asks the engine and applies the answer, through the reorder queue where there
is one. Closing or aliasing a descriptor has to undo or copy everything that
was kept for it.

## Modules

- **ShmSeqlock**: one row and its rule table. Every shared word is loaded and
  stored in a step of its own; within one `memcpy` the order is left open.
  A write is `Begin*`, `Mark`, `StoreMagic` (Python) or `CopyRow` (Rust),
  `Store`…, `Publish`, or `Abort` when the writer's body raises. A reader is
  `StartResolve`, `ReadFirstGeneration`, `CopyWord`…, `ReadSecondGeneration`,
  and with target rules `CopyRule`…, `StartRefresh` and a second stable read.
  `published` is a history variable: the row as it was published with each
  generation. `LockOf` says which writers exclude one another: Python writers
  hold `SHMWriter._lock`, and the Rust writer is the `setpriority` call of the
  thread that owns the row.
- **RuleSelect**: `Consider` is one turn of the loop of
  `select_best_target_rule`; the other definitions are its helpers. Names are
  sequences of labels from the right, addresses sequences of small bytes.
- **ReorderSend**: a call is `LookUp` and `Lock`, `Emit` for each packet that has
  expired, then one of `Fail`, `Stage` and `Pass`; `Emit` for what exceeds the window,
  or `Copy` for each duplicate, `Pop` and `Emit` for the held packet that follows;
  `Unlock` and, if the queue was left empty, `Cleanup`. Every packet given to the
  kernel is a step of its own, since calls that hold different queues (one taken out
  of the map, one made after it) interleave them. The code takes the packets of one
  flush off the queue first and sends them then; here they stay at its front,
  counted by `due`, until they are sent, which nobody can tell apart because the
  queue is locked meanwhile. Which of `Fail`, `Stage` and `Pass` happens is the
  engine's choice and left open. `Close`, `TogglePolicy` and `Tick` are the
  environment. `wire` is what was given to the kernel, in order; whether the kernel
  refused a held packet or a copy nobody learns (`MayRefuse` is about the call's own
  packet). Packets have at least one byte: `handle_uplink_send` takes a return of 0
  for no success, and neither duplicates nor pops after it.
- **FdTable** is the abstract specification of the owner binding: each hook one
  atomic step. **FdLifecycle** has each hook as its system call and its
  bookkeeping, and implements it (`OwnerBinding == Table!TSpec`). A descriptor
  counts as open in FdTable from the end of the hook that made it to the start
  of the hook that closes it. Per-descriptor state is represented by the set of
  connections that left a mark in it.
- **PolicyScope**: a flow is a thread or an asyncio task; `calls` is its stack
  of wrapper activations. `ApplyOne` is one published write: of the profiles
  still to be written (`todo`) the first in the order of the code. The row is
  represented by which call last wrote each profile. Flows outside `Callers`
  only administer the registry. What a coroutine that was never awaited has
  left behind is marked `LeftBy` its flow.
- **FaultEngine**: one descriptor and the calls of several threads on it. `Start`
  resolves a policy, `Evaluate` takes the lock of the record/replay session, and
  the stages follow under it: `SessionGuard` (R1), `ChaosBase` (R2),
  `FlowControl` (R3), `TimingVariation` (R4), `TransportFaults` (R5) or
  `ResolverFaults` (R6). `Apply` (the wait of non-blocking calls), `Original` (the
  C library's function, any part of the buffer) and `Record` (the byte count)
  happen without it. `Retry`, `Close` and `Tick` are the program and the clock.
  R3 is the bucket as it is: one for all policies, refilled by the elapsed time
  at the rate of the asking policy and cut to its capacity; a call that finds
  too little waits for the rest and takes nothing. `EffectiveConfig` is the
  schedule and the overrides of a direction applied to a policy. The queues
  around a call are left to ReorderSend and ReorderRecv, whose locks are not
  relied on to keep two calls apart; the policies of this module neither duplicate
  nor reorder, so that a decision is followed by one system call. `used`, `settled`, `polling`, `owed` and
  `credit` are history: what reached the kernel, what has been returned, how
  long callers have been told to come back, how many drops bursts still allow,
  and what an ideal bucket at the highest rate would have left.
- **ReorderRecv**: `LookUp` and, with the queue's lock, one of `Pop`, `Fail`, `Ask`;
  `First` and `Second` are the original calls of a receive that stages (or
  `FirstNothing`, `SecondNothing`, when they return nothing), `Cleanup` the
  removal of an empty queue; `Clear` and `Close` are the two halves of close().
  `HangUp` and `TogglePolicy` are the environment. A chunk is a range of byte
  numbers and the socket it came from.
- **ShmOpen**: a hook is `Begin`, where needed `Lock`, `Create`, `Size`, `Map`,
  `Wipe`, `Publish`, `Flag` (the steps of `try_open_shm` and of `initialize`), and
  `Assign` or `Resolve` on the owner table. `CallFails` is a `shm_open`,
  `ftruncate`, `fstat` or `mmap` that fails: the attempt ends there, with the segment
  as it is, and the hook goes on without it. The segment outlives processes; `Exit`
  ends one anywhere.
- **HostnameCache**: `Resolve` and `Resolved` are getaddrinfo() with its result,
  `Stamp` and `Observe` the note of one address (clock, then map), `LookUp` and
  `Answer` a lookup (clock, then map). `ideal` is history: the map without expiry
  and limit.
- **RecordReplay**: `Ask` makes the session on first use; `Record` decides, `Write`
  appends the two parts of a gzip member, `WriteFails` gives up, `Replay` consumes
  the next event or fails for good. At `MutationSites` the hooks ask for R7's decision
  but do not use the answer. `Restart` ends the recording processes anywhere
  and starts the program again to replay what is in the file.

The `MC…` modules give the constants values; the `.cfg` files are the runs. The
`…Proofs` modules extend a component's module with the theorems about it.
**DecisionProofs** does so for RuleSelect, HostnameCache and RecordReplay, which
share no state; that is why their specifications have names of their own
(`SelectSpec`, `CacheSpec`, `RecordSpec` and so on).

## Runs

| Run | Result | Shows |
|---|---|---|
| ShmSeqlock_safety | holds | With one writer at a time, `NoTornPublished`: a configuration accepted under a nonzero generation is the row published with it; `RulesMatchConfig`: its rules too; `GenerationMonotone`. With `clear` and failed writes. |
| ShmSeqlock_live | holds | `ResolveTerminates` |
| ShmSeqlock_clear | violated | `NoTornConfig`, the claim of the concurrency test: `clear` makes the generation even (0) in the middle of its write |
| ReorderSend_calls | holds | `WithinWindow`, `OwnSocket`, `SentOnce` for any interleaving, packet by packet; `KeptInTurn`, `BoundedDisplacement` while calls do not overlap |
| ReorderRecv_calls | holds | `ReturnedOnce`, `NothingStale` for any interleaving; `KeptInTurn`, `AdjacentOnly`, `CountWithin`, `NothingAfterEnd` while calls do not overlap |
| FdLifecycle_hooks | holds | `OwnFlow`, `OwnName`, `OwnerBinding` |
| RuleSelect_best | holds | `SelectedIsBest`, `CidrByBits` |
| PolicyScope_calls | holds | `FaultsInside`, `ClearedAfterwards` with stacked decorators, raising writes and dropped coroutines; `RestoredOnExit`, `NoLeakedPolicy` while another thread changes the registry |
| FaultEngine_calls | holds | `BudgetHeld`, `HalfOpenHeld`, `BurstNoLonger`, `GrantsConform`, `WaitHonoured` with overlapping and retried calls under two policies, ramps and windows |
| HostnameCache_lookups | holds | `CacheTypeOK` (the map stays within its limit), `NameCurrent`, `MissJustified`, with clocks read before the lock |
| ShmOpen_start | holds | `MappedOnce`, `BoundStays`, `NoPhantom`, `OpensEventually`, with a call of `try_open_shm` that fails; no deadlock |
| RecordReplay_crash | holds | `RecordedPrefix`, `ReplayFaithful`, `SameDecisions` across failed writes and a process that ends anywhere |

All runs but ShmOpen_start have `CHECK_DEADLOCK FALSE`: programs may stop, and
bounded counters end a behaviour. In ShmOpen some hook can always begin, so that
a deadlock would be one of the lock.

Every module has a type invariant (`TypeOK`, `SelectTypeOK`, `CacheTypeOK`,
`RecordTypeOK`). HostnameCache's, which says that the map stays within its limit,
is part of its run. Those of ShmSeqlock, RuleSelect, ReorderRecv, FdLifecycle,
ShmOpen, PolicyScope, HostnameCache and RecordReplay are theorems; ReorderSend's
is a part of its inductive invariant, and FaultEngine's proof carries the types
it needs in the parts of its own.

### Bounds

- ShmSeqlock: two writers, one reader (readers do not influence each other or
  the writers), one payload word, one rule, two publications (`MaxGen = 4`),
  which is what a mixture of two writes takes; two attempts and two rounds of
  the bracket instead of 10 and 3, so that retrying and giving up both happen.
- ReorderSend: four packets and a window of two: a packet can be overtaken by
  more than the window. One copy at most, two sockets for the descriptor. Two
  threads are what it takes for two queues to be held at once.
- FdLifecycle: two descriptors, two threads, one TLS handle, two connections: a
  number is reused once, which is where stale state shows. Kinds of state are
  cleared independently, so one that only `close` and `dup2` remove (the byte
  counter) stands for them; for R2's see below.
- RuleSelect: tables of two rules of 24, twelve endpoints, nine pairs of observed
  names; bytes of two bits, addresses of one and two bytes, prefixes up to one
  bit too long.
- PolicyScope: two threads; the flow of one calls, with stacks of two decorators
  of which one may be refused, and opens contexts two deep, one object with a
  name and one with keywords; the flow of the other registers and removes.
- FaultEngine: two threads and three calls, retries not counted: a budget of two
  and one call beyond it, or a loss and the rest of its burst. One buffer length
  with any partial transfer; counters and ages stop at `Cap = 3`, which no limit
  of the two policies exceeds. One policy has a budget, a rate and growing delays,
  the other losses, a latency and the half-open limit; a row may hold either, so
  calls of both meet on the descriptor. Threads are symmetric.
- ReorderRecv: two threads, three bytes and buffers of one and two: a chunk can be
  staged, overtaken, and cut by a shorter buffer. Two sockets for the descriptor.
- ShmOpen: a creator with two threads (which race to open) and a consumer with
  one, one descriptor, one process that ends and one system call that fails
  (`MaxFaults`).
- HostnameCache: two threads, two ports, two names and one that normalises to
  nothing, room for two entries and three endpoints noted: the limit is reached.
  Entries live for one tick of three.
- RecordReplay: two threads in one or two processes, three decisions recorded and
  two replayed, so that an event is lost in the middle and one is left over. Two
  sites, one of them for mutations. The decisions are a delay, an error and a
  mutation: one whose number is kept, one whose text is replaced, one that does not
  survive the file. Threads and processes are
  symmetric.

### Fairness

- `ShmSeqlock_live`: `WF_vars(ReaderStep(r))`, a thread inside an intercepted call
  is scheduled. Nothing is assumed of writers, which may stop anywhere.
- `ShmOpen_start`: `WF_vars(Step(t))` for the same reason, and strong fairness of
  `LookUp` for each process: some thread of it keeps making socket calls, which
  look up an owner.
  `OpensEventually` is about such programs; one that makes no calls need not open
  anything.

## Proofs

TLAPS proves the following for every value of the constants that satisfies the
modules' `ASSUME`s. These say what the constants are (a thread belongs to a
process, a window is a number) and are evaluated by TLC on every run. Two of
them are more than that: threads are finitely many (ReorderSend, ReorderRecv,
FaultEngine),
and no session limit exceeds the `Cap` at which the model's counters stop
(`BoundAssumption` of FaultEngine). A theorem that needs more says so in its own
`ASSUME`.

| Module | Theorem | Property | Under |
|---|---|---|---|
| ShmSeqlockProofs | `TypeCorrect`, `StableReads`, `StableRules`, `ClockForward` | `TypeOK`, `NoTornPublished`, `RulesMatchConfig`, `GenerationMonotone` | `Serialised`: the writers of the row share one lock, and `clear` is not cut short |
| ReorderSendProofs | `QueueBounded`, `NoStrayPacket`, `NoDoubleSend`, `NothingLostInTurn`, `DisplacementBounded` | `WithinWindow`, `OwnSocket`, `SentOnce`, `KeptInTurn`, `BoundedDisplacement` | |
| ReorderRecvProofs | `TypeCorrect`, `NeverReturnedTwice`, `NothingLostInTurn`, `NeverStale`, `OvertakenOnce`, `CountBounded`, `EndComesLast` | `TypeOK`, `ReturnedOnce`, `KeptInTurn`, `NothingStale`, `AdjacentOnly`, `CountWithin`, `NothingAfterEnd` | |
| FdLifecycleProofs | `TypeCorrect`, `NamesStayApart` | `TypeOK`, `OwnName` | |
| | `FlowsStayApart` | `OwnFlow` | the kinds of state are ones that `clear_fd_state` clears |
| | `HooksImplementTable` | `OwnerBinding` | every descriptor is within the owner table |
| FaultEngineProofs | `BudgetsHold`, `StaysCut`, `BurstsEnd`, `BandwidthKept`, `WaitsEnd` | `BudgetHeld`, `HalfOpenHeld`, `BurstNoLonger`, `GrantsConform`, `WaitHonoured` | |
| ShmOpenProofs | `TypeCorrect`, `MapsOnce`, `BindingsStay`, `CreatorSeesNoPhantom` | `TypeOK`, `MappedOnce`, `BoundStays`, `NoPhantom` | |
| PolicyScopeProofs | `TypeCorrect`, `RowsCleared`, `NoPolicyLeaks`, `PoliciesRestored` | `TypeOK`, `ClearedAfterwards`, `NoLeakedPolicy`, `RestoredOnExit` | |
| | `FaultsHold` | `FaultsInside` | decorated functions do not call one another, and a thread has one flow that calls them |
| DecisionProofs | `BestRule`, `SelectTypes` | `SelectedIsBest`, `SelectTypeOK` | |
| | `CacheBounded`, `NamesCurrent`, `MissesJustified` | `CacheTypeOK`, `NameCurrent`, `MissJustified` | |
| | `RecordTypesHold`, `RecordingOrdered`, `ReplayFollows`, `DecisionsRepeated` | `RecordTypeOK`, `RecordedPrefix`, `ReplayFaithful`, `SameDecisions` | |

The hypotheses are the boundary of what the code does: each of them is refuted
by TLC when it is dropped (see *Beyond the runs*), except the one on the owner
table, beyond which the code keeps no owner at all.

For each component one inductive invariant is proved, which TLC checked on the
run's instance first; the theorems follow from it.

- **ShmSeqlock**: `WInv`, what writers know (at most one is active, an idle row
  with a nonzero even generation is the one published with it, an active writer's
  generation is odd or 0 and its start is beyond everything published); and
  `RInv`, what readers know: a reader between its two generation reads either
  holds only words of the publication it started from, or the clock has moved
  past that generation for good, so that its second read must fail. `clear` is
  the reason for the restriction to nonzero generations: it stores 0 where an
  odd number should stand. The same argument carries the copy of the rule table
  through its bracket of two reads.
- **RuleSelect**: what the loop has noted is the best of the rules it has looked at, by
  priority, then match class, then place (`BestByClass`), which is more than
  `SelectedIsBest` asks.
- **ReorderSend**: a call refers to a queue until it returns, so that with one
  more queue than threads a new one is always to be had (`CallInv`, a counting
  argument). One call at a time holds a queue, and only packets of a queue that is
  held are due (`LockInv`), which is `WithinWindow` between calls. A packet is at one
  place: with its call, at one position of one queue that somebody can still reach, or
  on the wire, where its copies follow it (`PlaceInv`), and it belongs to the socket of
  its call (`HomeInv`), which is `OwnSocket`. With the copies a call has yet to send
  counted (`CopyInv`), `SentOnce` follows although three places send what is held and
  calls with different queues interleave. `TurnInv` says what is lost when calls
  overlap: that the queue a call has locked is the one in the map, and is empty when
  it takes it out. For `BoundedDisplacement` the queue is in the order of the calls
  (`OrderInv`), and a packet with m - 1 others before it in the queue has been
  overtaken by at most `Limit` - m, but for the packet that the call in progress has
  sent or staged and not yet taken another off the front for (`Slack`, `DisplaceInv`).
- **ReorderRecv**: a queue has one call at a time waiting under its lock, and a call
  that stages has found it empty (`LockInv`). Chunks that were returned or are held
  are pairwise apart (`PlaceInv`), which is `ReturnedOnce` for any overlap. The rest
  holds under conditions that `seen` records, each with its part of the invariant:
  what a queue holds is no older than the calls that refer to it (`HomeInv`, while
  no call falls between the halves of `close()`); the queue of the one call is the
  one in the map, and every byte taken is at some place (`TurnInv`, while calls do
  not overlap); no call asks over a held chunk (`EndInv`, under a policy that stays
  as well); only the last chunk returned may have overtaken the held one
  (`OrderInv`), from which the place of a chunk among those returned follows by
  counting; and the bytes recorded with those a call has yet to record are the ones
  returned as they came (`CountInv`), which is between the bounds of `CountWithin`.
- **FdLifecycle**: what a hook between its system call and its bookkeeping stands
  for (`BusyInv`: its descriptor is open, its source in use and, but for a
  listener, of the same connection), that no two hooks are at work on one
  descriptor (`Exclusive`), and that a descriptor which is free, new or about to
  be closed has nothing kept under its number (`BlankInv`). The refinement maps a
  descriptor to open in FdTable once no hook is at work on it; every step of
  `Next` is then a step of the table or none.
- **FaultEngine**: `BurstInv` and `WaitInv` relate a history variable to the map it
  watches; `CutInv` that a call which began too late has not got past R5 and
  cannot, since the bytes only grow; `CreditInv` that the ideal bucket at the
  highest rate has at least what the real one has now and what the time since
  its last refill is worth, which survives refills at any lower rate; `BudgetInv`
  that what reached the kernel and what calls between R1 and their return may
  still pass (a sum over the threads) is covered by the session's counters.
- **ShmOpen**: in a process at most one thread is between taking the lock and
  setting the flag (`OneOpener`), and pointer, flag and number of mappings are in
  one of four states in step with it (`Progress`, `Between`). The table has only
  slots of threads from the wipe of the first creator on (`CleanInv`).
- **PolicyScope**: every step, of whichever action, is one of five kinds as far as
  stacks and rows go (`StepKinds`). A stack is wrappers waiting and functions
  running under the frame on top (`StackInv`), and a mark in a row is of a call
  that is still on a stack of the thread and carries the profile, or of one that
  was dropped (`MarkInv`); when the stacks are empty only the latter remain. An
  open block and its context object agree on what to restore and to remove, no
  object serves two blocks, and one without a block has nothing to remove
  (`HoldInv`, `OnceInv`, `FreeInv`). For `FaultsInside`: a profile the top frame has
  yet to write is as the frames below left it, all others are as the whole stack
  has them, and nothing need be said of a stack that unwinds, which cannot run a
  function again (`InsideInv`).
- **HostnameCache**: the map has, of all names ever noted, the last for each key
  (`NotedInv`), and a thread notes under a time no earlier than any before
  (`StampInv`). What is missing has expired, or at least as many entries as there is
  room for are no older than it and so is everything left of its slot (`MissInv`,
  `Oldest`): the second half is what makes the newest entry left the newest there
  was, and it survives pruning because pruning takes the oldest first.
- **RecordReplay**: one thread of a process writes at a time, with a file and an
  event (`WriteInv`). The file has the two parts of every decision's event in order,
  but for those the writing thread still owes or a crash has cost (`FileInv`; of one
  process without failed writes); such a file is read to its last whole member
  (`LoadWhole`). A session that has not failed has agreed with the recording so far
  and has left exactly what comes after its answers; one that has failed disagreed,
  and disagreement is for good (`Faithful`). `SameDecisions` joins the two: the
  events read are those of the decisions made, and `to_decision` of `from_decision`
  has the same effect for what can come up outside the mutation sites (`Possible`).

Model-checked only:

- `ResolveTerminates`, `OpensEventually`: liveness is out of the prover's reach;
- `CidrByBits`: that bytes with equal high parts are those with equal bits takes an
  induction over the width of a byte, with powers of two; the run has bytes of two
  bits and prefixes on, between and beyond the byte boundaries.

## Beyond the runs

Refuted by TLC when the corresponding constant or guard is relaxed, and left
out of the runs:

- writers without a common lock publish each other's unfinished rows
  (`LockOf` with one lock each refutes `NoTornPublished`);
- of two overlapping sends the one that left the queue empty takes it out of the
  map although the other has staged a packet meanwhile (`NothingLost` without
  the condition of `KeptInTurn`; `runtime.rs:341`). The downlink does the same;
- a receive that starts between the two halves of `close()` makes a new queue
  under the number, and the next socket meets the data staged there
  (`NothingStale` without its condition; `lib.rs:741`);
- `clear_fd_state` leaves the burst and the loss state of R2 under the number
  (`OwnFlow` with `Kinds` of R2; `chaos_engine.rs:367`), where
  `docs/architecture.md:122` keeps it per descriptor "to avoid cross-flow
  coupling";
- the end of a nested decorated call, or of another task's call on the thread,
  clears the row under the outer one (`FaultsInside` with `MayNest`, or with two
  flows on one thread; `decorator.py:126`, `decorator.py:132`), where
  `docs/concepts.md:5` has faults applied "to operations executed inside
  decorated functions";
- of rules of equal priority a later one with a more specific match displaces an
  earlier one (`SelectedIsBest` with registration order alone for ties;
  `interceptor_bridge.rs:340`), where `docs/shm_protocol.md:164` has ties "resolved by
  first rule in registration order" and the test
  `select_rule_prioritizes_sni_over_ip_on_tie` (`interceptor_bridge.rs:900`) asserts
  what the code does. `SelectedIsBest` claims only what the two agree on;
- a `policy_context` object entered while it is active forgets what to restore;
- a second process in record mode creates the file anew under the first
  (`RecordedPrefix` without `OneProcess`; `record_replay.rs:177`);
- a consumer that maps the segment between `ftruncate` and the wipe of its
  creator takes slot 0 for the owner of every descriptor, and a creator that
  opens later wipes what other processes have bound (`NoPhantom`, `BoundStays`
  without their conditions; `shm_runtime.rs:113`, `shm_runtime.rs:136`).

Visible in the actions, and neither promised nor denied by the documentation
unless said:

- a coroutine that is never awaited leaves its profiles in the row until the
  next decorated call on the thread ends;
- a policy with `timeout=` raises when applied: the stored pair is read as a
  mapping; `uplink`, `downlink` and `half_open` profiles never take effect either:
  `write_uplink`, `write_downlink` and `write_half_open` do not accept the keywords
  they are given (`Mismatched` in PolicyScope);
- every retry of a call that was answered `EAGAIN` counts against the session
  budget again;
- a non-blocking call that has waited its delay out still sleeps it once more;
- the wait belongs to the descriptor: a sender can end the wait of a receiver;
- what is left of a burst drops calls whose own policy has no loss, and outlives
  `close`;
- `reorder_max_delay_ns` is only looked at inside the next send of the descriptor
  (`runtime.rs:384`), so a packet held when traffic or the policy ends stays in the
  queue; a held packet that the kernel refuses when it is sent at last is lost
  although its own send reported success (`lib.rs:223`);
- a call delayed by the rate limit is never charged to the bucket
  (`r3_flow_control.rs:97`), so that delayed calls together may exceed the rate of
  `docs/reference/rate.md`; `GrantsConform` is about what passes without delay;
- host names are noted without a protocol and looked up with that of the socket,
  so the entry of the very port is never hit for TCP and UDP, and the newest name
  of the address is taken; the unit test on ports calls the function with equal
  protocols;
- an expired entry under the very key (raw sockets) hides a newer one of the
  address for one lookup, and a lookup that got the lock late may answer an
  older name when newer ones have expired meanwhile;
- bytes that come out of the downlink queue are never recorded (`lib.rs:642`,
  `lib.rs:676`), so that a connection under `half_open` is cut later, by as many bytes
  as were staged, than the "byte threshold" of `docs/reference/half_open.md:11`.
  `CountWithin` bounds the count from both sides and does not say it is all;
- mutations are not replayed, although `docs/interceptor_and_shm.md:86` and
  `docs/architecture.md:103` call replay deterministic: a recorded mutation is read
  back as no fault (`record_replay.rs:54`), and the hooks discard the answer at the
  mutation sites anyway and apply what R7 decides live (`lib.rs:570`, `lib.rs:698`). A
  divergence met there fails only the calls that ask after it. `SameDecisions` is about
  the other sites;
- copies of a packet and packets sent from a queue pass neither session budget nor
  bucket (`lib.rs:610`, `lib.rs:657`), and a chunk popped from the downlink queue is
  returned without asking the engine at all (`lib.rs:641`).

## Composition of the parts

The modules meet at three places. The row that ShmSeqlock shows to be read whole
is what PolicyScope writes and FaultEngine's `Start` resolves. The owner table
that FdLifecycle keeps over the life of a descriptor is the one that ShmOpen
creates and wipes. ReorderSend and ReorderRecv wrap
the call that is `Original` in FaultEngine: they leave the engine's decision open, so
that their properties hold whatever it decides, and FaultEngine does not rely on
their locks. The converse does not hold: with duplicates or reordering one decision
is followed by several system calls (`lib.rs:610-617`, `lib.rs:657-670`), and chunks
popped from the downlink queue bypass the engine and the byte count
(`lib.rs:641-643`). `BudgetHeld`, `HalfOpenHeld` and `GrantsConform` are therefore
about policies that do neither. The lock under which FaultEngine decides is the one
RecordReplay records under.

## Not modelled

- What R7 does to a payload: a function of one buffer without state. That it decides
  live is in RecordReplay.
- Observability: relaxed counters and a ring of latencies that no decision reads
  back; for a snapshot taken meanwhile the repository promises nothing.
- Parsing (profile strings, TLS ClientHello, `sockaddr`) and byte layouts.
- Command line, discovery of the native library, reports: I/O and formatting.
- `fork()` and descriptors received over sockets, which pass by the hooks.
- Calls of an application on a descriptor that another of its threads is just
  aliasing over (FdLifecycle), and sends on one it is closing (ReorderSend).
- The generation's wrap-around after 2^63 publications.
- Thread ids whose slots collide: the threads then share a row by design.

## Plan

Done: all modules and runs above, and theorems for every safety property of the
passing runs but `CidrByBits`.

Worth doing next: a module composing row resolution (ShmSeqlock) with ownership
(FdLifecycle), on which policy applies to a descriptor handed from thread to
thread.
