---------------------------- MODULE FaultEngine ----------------------------
(***************************************************************************)
(* The fault engine seen from one file descriptor: connect(), send() and   *)
(* recv() calls of several threads, and host-name lookups, on their way    *)
(* through the stages R1 to R6, the delay of non-blocking calls, the       *)
(* original function and the byte count, and close() of the descriptor.    *)
(*                                                                         *)
(* A call resolves its configuration, takes the lock of the record/replay  *)
(* session and goes through the stages with it, one step each; then it     *)
(* waits or sleeps, calls the original function and counts its bytes       *)
(* without that lock.  Queues (ReorderSend, ReorderRecv) are not relied on *)
(* to keep two calls of a descriptor apart: with_reorder_pending can hand  *)
(* out two of them.  No policy of this module reorders, duplicates or      *)
(* mutates.  Time is what has passed since the events the engine           *)
(* remembers.                                                              *)
(*                                                                         *)
(* A probability is 0, Sometimes or Always; rates and times of policies    *)
(* are small numbers.                                                      *)
(***************************************************************************)
EXTENDS Integers, FiniteSetsExt

CONSTANTS
  Threads,    \* threads that use the descriptor
  Policies,   \* policies whose configuration a row may hold
  ConfigOf,   \* policy -> its Config
  Lengths,    \* buffer lengths of the calls
  Second,     \* ticks of the clock per second, the unit of bandwidths
  Cap,        \* bound: counters and ages stop here; no limit is larger
  MaxCalls,   \* bound: calls made; retries of a call are not counted
  Unset       \* no entry in a map: no number, and no counters of a session

Sometimes == 1
Always == 2

\* What a policy may set in a direction only, and for both.
Basic == [latency : Nat, jitter : Nat, packet_loss : 0 .. 2,
          burst_loss_len : Nat, bandwidth : Nat]

Config ==
  [ base : Basic, uplink : Basic, downlink : Basic,
    connect_timeout : Nat, recv_timeout : Nat,
    ge : [enabled : BOOLEAN, loss_good : 0 .. 2, loss_bad : 0 .. 2],
    conn_err : 0 .. 2,
    half_open_after_bytes : Nat,
    dns : [timeout : Nat, nxdomain : 0 .. 2, delay : Nat],
    session : [max_ops : Nat, max_bytes_tx : Nat, max_bytes_rx : Nat,
               max_duration : Nat,
               action : {"none", "Drop", "Timeout", "ConnectionError"}],
    schedule : {"none", "window", "ramp"} ]

\* The counters of a session, and how long ago it began.
SessionState == [ops : 0 .. Cap, tx : 0 .. Cap, rx : 0 .. Cap, age : 0 .. Cap]

ASSUME EngineAssumption ==
  /\ ConfigOf \in [Policies -> Config]
  /\ Lengths \subseteq Nat
  /\ Second \in Nat \ {0}
  /\ Cap \in Nat
  /\ MaxCalls \in Nat
  /\ Unset \notin Nat \cup Policies \cup SessionState

\* There are finitely many threads and policies, and no limit exceeds the bound.
ASSUME BoundAssumption ==
  /\ IsFiniteSet(Threads)
  /\ IsFiniteSet(Policies) /\ Policies # {}
  /\ \A p \in Policies :
       LET b == ConfigOf[p].session
       IN  {b.max_ops, b.max_bytes_tx, b.max_bytes_rx, b.max_duration} \subseteq 0 .. Cap

Streams == {"send", "recv"}
Operations == Streams \cup {"connect", "dns"}

Stages == {"R1", "R2", "R3", "R4", "R5", "R6"}

VARIABLES
  nonblocking, \* the descriptor has O_NONBLOCK
  pc,       \* thread: idle, lock, a stage, apply, orig, record or again
  call,     \* thread: its call
  session,  \* state_by_fd of R1: Unset, or the counters of the session
  burst,    \* burst_remaining_by_fd of R2: Unset or drops to come
  ge,       \* ge_state_by_fd of R2: 0 good, 1 bad
  bucket,   \* tokens of R3, and how long ago last_refill was
  seen,     \* stream_bytes of R5
  waiting,  \* latency_start_by_fd: Unset, or how long ago it was set
  calls,    \* calls made
  used,     \* history: what calls under a policy's budget did in this session
  settled,  \* history: bytes returned by stream calls on this connection
  polling,  \* history: how long ago the descriptor's first EAGAIN was, since a
            \* delayed call last got through
  owed,     \* history: losses so far, each with its burst, less the drops
  credit    \* history: what the highest bandwidth would still let through at
            \* once, if calls that were delayed are left out

vars == <<nonblocking, pc, call, session, burst, ge, bucket, seen, waiting, calls,
          used, settled, polling, owed, credit>>

\* saturating_add.
Sat(n) == IF n > Cap THEN Cap ELSE n

\* The maps of the engine and the runtime, and the history.
maps == <<session, burst, ge, bucket, seen, waiting>>
history == <<used, settled, polling, owed, credit>>

\* A call is its PacketContext, the delay added up so far, the bytes it moved, and
\* whether it began after the connection had carried what its policy lets through.
NoCall == [op |-> "none"]

\* The highest bandwidth of any policy, and what a bucket of that rate holds.
TopRate ==
  Max({ConfigOf[p][b].bandwidth : p \in Policies, b \in {"base", "uplink", "downlink"}})
FullCredit == 2 * TopRate * Second

\* The values every variable takes; in particular a burst never has more drops
\* to come than its length less the one that started it.
TypeOK ==
  /\ nonblocking \in BOOLEAN
  /\ pc \in [Threads -> {"idle", "lock", "apply", "orig", "record", "again"}
                             \cup Stages]
  /\ \A t \in Threads :
       pc[t] # "idle" =>
         /\ call[t].op \in Operations
         /\ call[t].len \in Lengths \cup {0}
         /\ call[t].policy \in Policies \cup {Unset}
         /\ call[t].delay \in Nat
  /\ session = Unset \/ session \in SessionState
  /\ burst = Unset \/ \E p \in Policies, b \in {"base", "uplink", "downlink"} :
                         burst \in 0 .. ConfigOf[p][b].burst_loss_len - 1
  /\ ge \in {0, 1}
  /\ bucket \in [tokens : 0 .. 2 * TopRate, age : 0 .. 2 * Second]
  /\ seen \in 0 .. Cap
  /\ waiting = Unset \/ waiting \in 0 .. Cap
  /\ calls \in 0 .. MaxCalls

Unused == [p \in Policies |-> [ops |-> 0, tx |-> 0, rx |-> 0]]

Init ==
  /\ nonblocking \in BOOLEAN
  /\ pc = [t \in Threads |-> "idle"]
  /\ call = [t \in Threads |-> NoCall]
  /\ session = Unset
  /\ burst = Unset
  /\ ge = 0
  /\ bucket = [tokens |-> 0, age |-> 0]
  /\ seen = 0
  /\ waiting = Unset
  /\ calls = 0
  /\ used = Unused
  /\ settled = 0
  /\ polling = Unset
  /\ owed = 0
  /\ credit = FullCredit

-----------------------------------------------------------------------------
\* The configuration a call works with.

Zero == [latency |-> 0, jitter |-> 0, packet_loss |-> 0, burst_loss_len |-> 0,
         bandwidth |-> 0]

\* zero_faults: everything but the budget.
zero_faults(c) ==
  [c EXCEPT !.base = Zero, !.uplink = Zero, !.downlink = Zero,
            !.connect_timeout = 0, !.recv_timeout = 0,
            !.ge = [enabled |-> FALSE, loss_good |-> 0, loss_bad |-> 0],
            !.conn_err = 0, !.half_open_after_bytes = 0,
            !.dns = [timeout |-> 0, nxdomain |-> 0, delay |-> 0]]

\* scale_u64: rounded, by a factor of k / 2.
scale_u64(n, k) == (n * k + 1) \div 2

Scaled(b, k) ==
  [ latency |-> scale_u64(b.latency, k), jitter |-> scale_u64(b.jitter, k),
    packet_loss |-> scale_u64(b.packet_loss, k),
    burst_loss_len |-> scale_u64(b.burst_loss_len, k),
    bandwidth |-> scale_u64(b.bandwidth, k) ]

\* scale_faults: Gilbert-Elliott loss, the half-open limit and the budget keep
\* their values.
scale_faults(c, k) ==
  [c EXCEPT !.base = Scaled(@, k), !.uplink = Scaled(@, k),
            !.downlink = Scaled(@, k),
            !.connect_timeout = scale_u64(@, k), !.recv_timeout = scale_u64(@, k),
            !.conn_err = scale_u64(@, k),
            !.dns = [timeout |-> scale_u64(@.timeout, k),
                     nxdomain |-> scale_u64(@.nxdomain, k),
                     delay |-> scale_u64(@.delay, k)]]

\* apply_schedule.  Phase 2 is the active window of a spike or of a flapping
\* link, or the end of a ramp; the other phases are outside the window, or the
\* beginning and the middle of a ramp.
Phases(c) ==
  CASE c.schedule = "none" -> {2}
    [] c.schedule = "window" -> {0, 2}
    [] c.schedule = "ramp" -> {0, 1, 2}

apply_schedule(c, phase) ==
  IF phase = 2 THEN c
  ELSE IF c.schedule = "ramp" THEN scale_faults(c, phase) ELSE zero_faults(c)

\* apply_direction_overrides: a value of the direction counts if it is positive.
apply_direction_overrides(base, own) ==
  [ latency |-> IF own.latency > 0 THEN own.latency ELSE base.latency,
    jitter |-> IF own.jitter > 0 THEN own.jitter ELSE base.jitter,
    packet_loss |-> IF own.packet_loss > 0 THEN own.packet_loss
                                           ELSE base.packet_loss,
    burst_loss_len |-> IF own.burst_loss_len > 0 THEN own.burst_loss_len
                                                 ELSE base.burst_loss_len,
    bandwidth |-> IF own.bandwidth > 0 THEN own.bandwidth ELSE base.bandwidth ]

\* effective_for_send, also used for connect(), and effective_for_recv; a lookup
\* takes the configuration as it is.
effective(c, op) ==
  CASE op \in {"send", "connect"} ->
         [c EXCEPT !.base = apply_direction_overrides(@, c.uplink)]
    [] op = "recv" -> [c EXCEPT !.base = apply_direction_overrides(@, c.downlink)]
    [] op = "dns" -> c

\* runtime_filtered and then effective_for_*, for every policy, phase and
\* operation.
EffectiveConfig ==
  [p \in Policies |-> [k \in 0 .. 2 |-> [op \in Operations |->
     effective(apply_schedule(ConfigOf[p], k), op)]]]

\* The configuration of a call, as it was when the call began.
Cfg(c) == EffectiveConfig[c.policy][c.phase][c.op]

-----------------------------------------------------------------------------
\* event_happens: what the draw may be.
event_happens(p) ==
  CASE p = 0 -> {FALSE} [] p = Always -> {TRUE} [] OTHER -> BOOLEAN

\* applies_to of the stages of process_pipeline.
applies_to(stage, op) ==
  CASE stage \in {"R2", "R4", "R5"} -> op # "dns"
    [] stage = "R3" -> op \in Streams
    [] stage = "R6" -> op = "dns"

Pipeline == <<"R2", "R3", "R4", "R5", "R6">>

\* The first stage from the i-th on that applies, or the end of the pipeline.
StageFrom(i, op) ==
  LET rest == {j \in i .. 5 : applies_to(Pipeline[j], op)}
  IN  IF rest = {} THEN "apply" ELSE Pipeline[Min(rest)]

\* A stage of the pipeline continues, perhaps with a delay ...
Continue(t, i, delay) ==
  /\ call' = [call EXCEPT ![t].delay = Sat(@ + delay)]
  /\ pc' = [pc EXCEPT ![t] = StageFrom(i + 1, call[t].op)]

\* ... or has the last word: the mapping of decisions makes each of Drop,
\* TimeoutMs, ConnectionErrorKind and NxDomain an error the call returns.
Terminal(t) ==
  /\ call' = [call EXCEPT ![t] = NoCall]
  /\ pc' = [pc EXCEPT ![t] = "idle"]

\* The calls that returned so far have carried what the policy lets through.
CutOff(c) ==
  LET limit == Cfg(c).half_open_after_bytes
  IN  c.op \in Streams /\ limit > 0 /\ settled >= limit

\* A call begins with its configuration.
Enter(t, op, len, policy) ==
  \E phase \in Phases(ConfigOf[policy]) :
    LET c == [ op |-> op, len |-> len, policy |-> policy, phase |-> phase,
               delay |-> 0, moved |-> 0, late |-> FALSE ]
    IN  /\ call' = [call EXCEPT ![t] = [c EXCEPT !.late = CutOff(c)]]
        /\ pc' = [pc EXCEPT ![t] = "lock"]

Start(t) ==
  /\ pc[t] = "idle"
  /\ calls < MaxCalls
  /\ \E op \in Operations, p \in Policies :
       \E len \in (IF op \in Streams THEN Lengths ELSE {0}) : Enter(t, op, len, p)
  /\ calls' = calls + 1
  /\ UNCHANGED <<nonblocking, maps, history>>

\* No configuration resolves for the call: it goes straight to the original
\* function, and its bytes count all the same.
StartUnconfigured(t) ==
  /\ pc[t] = "idle"
  /\ calls < MaxCalls
  /\ \E op \in Streams, len \in Lengths :
       call' = [call EXCEPT ![t] =
         [ op |-> op, len |-> len, policy |-> Unset, phase |-> 2,
           delay |-> 0, moved |-> 0, late |-> FALSE ]]
  /\ pc' = [pc EXCEPT ![t] = "orig"]
  /\ calls' = calls + 1
  /\ UNCHANGED <<nonblocking, maps, history>>

\* The program makes a call again that was answered EAGAIN.
Retry(t) ==
  /\ pc[t] = "again"
  /\ Enter(t, call[t].op, call[t].len, call[t].policy)
  /\ UNCHANGED <<nonblocking, maps, calls, history>>

\* record_replay_evaluate_or_replay holds its lock while it evaluates:
\* evaluate_stream_pre asks R1 first, evaluate_connect and evaluate_dns_lookup go
\* straight to the pipeline.
Evaluate(t) ==
  /\ pc[t] = "lock"
  /\ \A u \in Threads : pc[u] \notin Stages
  /\ pc' = [pc EXCEPT ![t] = IF call[t].op \in Streams THEN "R1"
                                                        ELSE StageFrom(1, call[t].op)]
  /\ UNCHANGED <<nonblocking, call, maps, calls, history>>

-----------------------------------------------------------------------------
\* R1.

NewSession == [ops |-> 0, tx |-> 0, rx |-> 0, age |-> 0]

\* Mutant of OverBudget: one operation too many.
OverBudgetLate(s, b, op, len) ==
  \/ b.max_duration > 0 /\ s.age >= b.max_duration
  \/ b.max_ops > 0 /\ s.ops > b.max_ops
  \/ op = "send" /\ b.max_bytes_tx > 0 /\ s.tx + len > b.max_bytes_tx
  \/ op = "recv" /\ b.max_bytes_rx > 0 /\ s.rx + len > b.max_bytes_rx

\* The limits, in the order in which precheck looks at them.
OverBudget(s, b, op, len) ==
  \/ b.max_duration > 0 /\ s.age >= b.max_duration
  \/ b.max_ops > 0 /\ s.ops >= b.max_ops
  \/ op = "send" /\ b.max_bytes_tx > 0 /\ s.tx + len > b.max_bytes_tx
  \/ op = "recv" /\ b.max_bytes_rx > 0 /\ s.rx + len > b.max_bytes_rx

Counted(s, op, len) ==
  [s EXCEPT !.ops = Sat(@ + 1),
            !.tx = IF op = "send" THEN Sat(@ + len) ELSE @,
            !.rx = IF op = "recv" THEN Sat(@ + len) ELSE @]

\* precheck: an attempt that is let through counts whatever becomes of it.
SessionGuard(t) ==
  /\ pc[t] = "R1"
  /\ LET c == call[t]
         b == Cfg(c).session
         s == IF session = Unset THEN NewSession ELSE session
     IN  IF b.action = "none"
         THEN /\ pc' = [pc EXCEPT ![t] = StageFrom(1, c.op)]
              /\ UNCHANGED <<call, session>>
         ELSE IF OverBudget(s, b, c.op, c.len)
         THEN /\ session' = s
              /\ Terminal(t)
         ELSE /\ session' = Counted(s, c.op, c.len)
              /\ pc' = [pc EXCEPT ![t] = StageFrom(1, c.op)]
              /\ UNCHANGED call
  /\ UNCHANGED <<nonblocking, burst, ge, bucket, seen, waiting, calls, history>>

-----------------------------------------------------------------------------
\* R2.

\* Mutant of BurstAfterDrop: the burst is not counted down.
BurstKept(n) == n

\* What is left of a burst after one drop.
BurstAfterDrop(n) == IF n = 1 THEN Unset ELSE n - 1

\* correlated_loss_ppm: the states the model may move to; which of its moves are
\* likely is left open.
NextGe(c) == IF c.ge.enabled THEN {0, 1} ELSE {ge}

LossProbability(c, g) ==
  IF ~c.ge.enabled THEN c.base.packet_loss
  ELSE IF g = 0 THEN c.ge.loss_good ELSE c.ge.loss_bad

\* A loss is one drop and the rest of its burst.
BurstOf(len) == IF len > 0 THEN len - 1 ELSE burst

\* Under a burst the call is dropped, whatever its own policy says; otherwise the
\* draw decides, and a call that is not lost gets its latency.
ChaosBase(t) ==
  /\ pc[t] = "R2"
  /\ LET c == Cfg(call[t])
         len == c.base.burst_loss_len
     IN  \/ /\ burst # Unset /\ burst > 0
            /\ burst' = BurstAfterDrop(burst)
            /\ owed' = owed - 1
            /\ Terminal(t)
            /\ UNCHANGED ge
         \/ /\ burst = Unset \/ burst = 0
            /\ \E g \in NextGe(c) : \E lost \in event_happens(LossProbability(c, g)) :
                 /\ ge' = g
                 /\ IF lost
                    THEN /\ burst' = BurstOf(len)
                         /\ owed' = owed + (IF len > 0 THEN len - 1 ELSE 0)
                         /\ Terminal(t)
                    ELSE /\ Continue(t, 1, c.base.latency)
                         /\ UNCHANGED <<burst, owed>>
  /\ UNCHANGED <<nonblocking, session, bucket, seen, waiting, calls, used, settled,
                 polling, credit>>

-----------------------------------------------------------------------------
\* R3: one token bucket for all calls, at the rate of the policy that asks.

\* Mutant of refill: the time is counted again by the next refill.
RefillAgain(b, rate) ==
  [b EXCEPT !.tokens = Min({@ + (b.age * rate) \div Second, 2 * rate})]

\* refill: fractions of a token are lost; without elapsed time nothing changes.
refill(b, rate) ==
  IF b.age = 0 THEN b
  ELSE [tokens |-> Min({b.tokens + (b.age * rate) \div Second, 2 * rate}), age |-> 0]

\* process_with_bytes: a call is granted its tokens or delayed for what is missing,
\* and then not charged at all.
FlowControl(t) ==
  /\ pc[t] = "R3"
  /\ LET rate == Cfg(call[t]).base.bandwidth
         len == call[t].len
         b == refill(bucket, rate)
     IN  IF rate = 0
         THEN /\ Continue(t, 2, 0)
              /\ UNCHANGED <<bucket, credit>>
         ELSE IF b.tokens >= len
         THEN /\ bucket' = [b EXCEPT !.tokens = @ - len]
              /\ credit' = credit - len * Second
              /\ Continue(t, 2, 0)
         ELSE /\ bucket' = b
              /\ Continue(t, 2, ((len - b.tokens) * Second) \div rate)
              /\ UNCHANGED credit
  /\ UNCHANGED <<nonblocking, session, burst, ge, seen, waiting, calls, used, settled,
                 polling, owed>>

\* R4: jitter.
TimingVariation(t) ==
  /\ pc[t] = "R4"
  /\ \E d \in 0 .. Cfg(call[t]).base.jitter : Continue(t, 3, d)
  /\ UNCHANGED <<nonblocking, maps, calls, history>>

\* Mutant of HalfOpen: the limit itself still passes.
HalfOpenBeyond(op, cfg) ==
  /\ op # "connect"
  /\ cfg.half_open_after_bytes > 0
  /\ seen > cfg.half_open_after_bytes

\* connection_error_kind: the bytes recorded so far reach the limit.
HalfOpen(op, cfg) ==
  /\ op # "connect"
  /\ cfg.half_open_after_bytes > 0
  /\ seen >= cfg.half_open_after_bytes

\* R5: a half-open connection, then connection errors, then the timeout of the
\* operation.
TransportFaults(t) ==
  /\ pc[t] = "R5"
  /\ LET op == call[t].op
         cfg == Cfg(call[t])
     IN  \E failed \in event_happens(cfg.conn_err) :
           IF HalfOpen(op, cfg) \/ failed THEN Terminal(t)
           ELSE IF \/ op = "connect" /\ cfg.connect_timeout > 0
                   \/ op = "recv" /\ cfg.recv_timeout > 0
           THEN Terminal(t)
           ELSE Continue(t, 4, 0)
  /\ UNCHANGED <<nonblocking, maps, calls, history>>

\* R6: lookups only.
ResolverFaults(t) ==
  /\ pc[t] = "R6"
  /\ LET d == Cfg(call[t]).dns
     IN  \E missing \in event_happens(d.nxdomain) :
           IF d.timeout > 0 THEN Terminal(t)
           ELSE IF missing THEN Terminal(t)
           ELSE Continue(t, 5, d.delay)
  /\ UNCHANGED <<nonblocking, maps, calls, history>>

-----------------------------------------------------------------------------
\* Mutant of DelayPending: every retry starts the wait again.
DelayRestarted(delay) ==
  IF waiting = Unset THEN [entry |-> 0, pending |-> TRUE]
  ELSE IF waiting >= delay THEN [entry |-> Unset, pending |-> FALSE]
  ELSE [entry |-> 0, pending |-> TRUE]

\* nonblocking_delay_pending: the new entry, and whether the call has to come
\* back.  The wait of a descriptor is shared by all its calls.
DelayPending(delay) ==
  IF waiting = Unset THEN [entry |-> 0, pending |-> TRUE]
  ELSE IF waiting >= delay THEN [entry |-> Unset, pending |-> FALSE]
  ELSE [entry |-> waiting, pending |-> TRUE]

\* The decision is made: a stream call of a non-blocking descriptor with a delay
\* is answered EAGAIN until the delay is over; it then sleeps the delay off once
\* more, as every other call does, on its way to the original function.
Apply(t) ==
  /\ pc[t] = "apply"
  /\ LET c == call[t]
         answer == DelayPending(c.delay)
     IN  IF nonblocking /\ c.op \in Streams /\ c.delay > 0
         THEN /\ waiting' = answer.entry
              /\ pc' = [pc EXCEPT ![t] = IF answer.pending THEN "again" ELSE "orig"]
              /\ polling' = IF ~answer.pending THEN Unset
                            ELSE IF polling = Unset THEN 0 ELSE polling
         ELSE /\ pc' = [pc EXCEPT ![t] = "orig"]
              /\ UNCHANGED <<waiting, polling>>
  /\ UNCHANGED <<nonblocking, call, session, burst, ge, bucket, seen, calls, used,
                 settled, owed, credit>>

Budgeted(c) ==
  /\ c.policy # Unset
  /\ ConfigOf[c.policy].session.action # "none"

Spent(u, op, n) ==
  [ops |-> u.ops + 1, tx |-> u.tx + (IF op = "send" THEN n ELSE 0),
   rx |-> u.rx + (IF op = "recv" THEN n ELSE 0)]

\* The sleep is over; the original function takes any part of the buffer, or
\* nothing.  It is called once: a policy that duplicates or reorders, of which
\* there is none here, makes further system calls that the engine is not asked
\* about.
Original(t) ==
  /\ pc[t] = "orig"
  /\ call[t].delay = 0
  /\ LET c == call[t]
     IN  IF c.op \in Streams
         THEN \E n \in 0 .. c.len :
                /\ call' = [call EXCEPT ![t].moved = n]
                /\ pc' = [pc EXCEPT ![t] = "record"]
                /\ used' = IF Budgeted(c)
                           THEN [used EXCEPT ![c.policy] = Spent(@, c.op, n)]
                           ELSE used
         ELSE /\ call' = [call EXCEPT ![t] = NoCall]
              /\ pc' = [pc EXCEPT ![t] = "idle"]
              /\ UNCHANGED used
  /\ UNCHANGED <<nonblocking, maps, calls, settled, polling, owed, credit>>

\* record_stream_bytes, and the call returns.
Record(t) ==
  /\ pc[t] = "record"
  /\ seen' = Sat(seen + call[t].moved)
  /\ settled' = Sat(settled + call[t].moved)
  /\ pc' = [pc EXCEPT ![t] = "idle"]
  /\ call' = [call EXCEPT ![t] = NoCall]
  /\ UNCHANGED <<nonblocking, session, burst, ge, bucket, waiting, calls, used,
                 polling, owed, credit>>

\* clear_fd_state of engine and runtime.  Nothing uses the descriptor meanwhile
\* (FdLifecycle has close() against other hooks); what R2 keeps stays.
Close ==
  /\ \A t \in Threads : pc[t] = "idle"
  /\ seen' = 0
  /\ session' = Unset
  /\ waiting' = Unset
  /\ used' = Unused
  /\ settled' = 0
  /\ polling' = Unset
  /\ UNCHANGED <<nonblocking, pc, call, burst, ge, bucket, calls, owed, credit>>

LongestSession == Max({ConfigOf[p].session.max_duration : p \in Policies})

\* Time passes, as far as any comparison can tell.  An evaluation takes no time
\* worth counting.
Tick ==
  /\ \A t \in Threads : pc[t] \notin Stages
  /\ waiting' = IF waiting = Unset THEN Unset ELSE Sat(waiting + 1)
  /\ polling' = IF polling = Unset THEN Unset ELSE Sat(polling + 1)
  /\ session' = IF session = Unset THEN Unset
                ELSE [session EXCEPT !.age = Min({@ + 1, LongestSession})]
  /\ bucket' = [bucket EXCEPT !.age = Min({@ + 1, 2 * Second})]
  /\ call' = [t \in Threads |->
                IF pc[t] = "orig" /\ call[t].delay > 0
                THEN [call[t] EXCEPT !.delay = @ - 1] ELSE call[t]]
  /\ credit' = Min({credit + TopRate, FullCredit})
  /\ UNCHANGED <<nonblocking, pc, burst, ge, seen, calls, used, settled, owed>>

ThreadStep(t) ==
  \/ Start(t) \/ StartUnconfigured(t) \/ Retry(t) \/ Evaluate(t)
  \/ SessionGuard(t) \/ ChaosBase(t) \/ FlowControl(t) \/ TimingVariation(t)
  \/ TransportFaults(t) \/ ResolverFaults(t)
  \/ Apply(t) \/ Original(t) \/ Record(t)

Next == Close \/ Tick \/ \E t \in Threads : ThreadStep(t)

Spec == Init /\ [][Next]_vars

-----------------------------------------------------------------------------
\* A session budget holds for what reaches the kernel, however calls overlap
\* and are retried: no more operations and no more bytes than the policy allows
\* until the descriptor is closed (precheck counts before the call is made).
\* Copies and packets sent from a reorder queue are not counted by the code; no
\* policy here makes any.
BudgetHeld ==
  \A p \in Policies :
    LET b == ConfigOf[p].session
    IN  /\ b.max_ops > 0 => used[p].ops <= b.max_ops
        /\ b.max_bytes_tx > 0 => used[p].tx <= b.max_bytes_tx
        /\ b.max_bytes_rx > 0 => used[p].rx <= b.max_bytes_rx

\* A half-open connection stays cut: once calls have returned as many bytes as
\* the policy lets through, no call that begins later reaches the kernel
\* (record_stream_bytes before the call returns, connection_error_kind).
HalfOpenHeld == \A t \in Threads : pc[t] = "orig" => ~call[t].late

\* Bursts are no longer than asked for, also when losses of several threads
\* overlap: every dropped call is a loss or one of the burst_loss_len - 1 that
\* follow one (burst_remaining_by_fd).
BurstNoLonger == owed >= 0

\* What passes without a delay keeps to the bandwidth: in no interval do the calls
\* that the bucket grants carry more than two seconds' worth at once and the
\* highest rate for the length of the interval, whichever policies share it
\* (refill, try_acquire).
GrantsConform == credit >= 0

Delayed(t) ==
  nonblocking /\ pc[t] = "apply" /\ call[t].op \in Streams /\ call[t].delay > 0

\* The delay of a non-blocking descriptor: a call is told to come back as long as
\* its delay has not passed since the first EAGAIN, and it is not told so any
\* longer, whichever thread asks and however often
\* (nonblocking_delay_pending sets latency_start_by_fd once per wait).
WaitHonoured ==
  [][\A t \in Threads :
       Delayed(t) =>
         (pc'[t] = "orig" <=> polling # Unset /\ polling >= call[t].delay)
         \/ pc'[t] = "apply"]_vars

=============================================================================
