----------------------------- MODULE PolicyScope -----------------------------
(***************************************************************************)
(* The Python side of faultcore: decorated calls, the policy registry and  *)
(* policy contexts, over the shared-memory row of each thread.             *)
(*                                                                         *)
(* A FLOW is a line of Python execution: a thread, or one asyncio task of  *)
(* a thread.  Flows of one thread take turns and give way only at an       *)
(* await; flows of different threads interleave between any two steps.     *)
(* Every decorated call of a flow writes its profiles, one published write *)
(* per profile, into the row of the thread it was made on, and empties the *)
(* WHOLE row when it ends.  The row is represented by the call that last   *)
(* wrote each profile; the values themselves are left out.                 *)
(***************************************************************************)
EXTENDS Naturals, Sequences, FiniteSets, FiniteSetsExt, Functions

CONSTANTS
  Flows,        \* lines of Python execution
  Callers,      \* those that call decorated functions and open contexts; the
                \* others only administer the registry
  Threads,      \* native threads
  ThreadOf,     \* the thread each flow runs on
  Names,        \* policy names used by register_policy
  TempNames,    \* names policy_context generates (uuid4)
  Objects,      \* policy_context objects
  Argument,     \* the name an object was built with, or Inline
  Bodies,       \* the sets of profiles a decorator or a policy may carry
  Refused,      \* profiles the writer may reject (9 targets: ValueError)
  MaxDepth,     \* bound: wrappers active at once in a flow
  MaxContexts,  \* bound: with-blocks open at once in a flow
  MayNest,      \* may a decorated function call another one?
  MayDrop,      \* may a coroutine be dropped before it is awaited?
  None,         \* no policy name / no flow / a profile nobody wrote
  Inline        \* an object built with policy keywords

AllNames == Names \cup TempNames

(* The order of the writes of apply_fault_profiles.                        *)
WriteOrder ==
  << "seed", "latency", "jitter", "packet_loss_ppm", "burst_loss", "rate",
     "timeouts", "uplink_profile", "downlink_profile",
     "correlated_loss_profile", "connection_error_profile",
     "half_open_profile", "packet_duplicate_profile",
     "packet_reorder_profile", "dns_profile", "payload_mutation_profile",
     "target_profiles", "schedule_profile", "session_budget_profile" >>

Fields == UNION Bodies
Unwritten == [x \in Fields |-> None]

ASSUME ScopeAssumption ==
  /\ ThreadOf \in [Flows -> Threads]
  /\ Callers \subseteq Flows
  /\ Bodies \subseteq SUBSET Range(WriteOrder)
  /\ Argument \in [Objects -> Names \cup {Inline}]
  /\ Names \cap TempNames = {}
  /\ None \notin AllNames \cup Flows
  /\ MaxDepth \in Nat

VARIABLES
  row,          \* thread -> profile -> the call <<flow, depth>> that wrote it
  policyName,   \* the policy region: one name for all threads
  registry,     \* _POLICY_REGISTRY: name -> profiles
  running,      \* thread -> the flow it executes
  calls,        \* flow -> stack of wrapper activations
  ctx,          \* flow -> _THREAD_POLICY, a contextvar
  blocks,       \* flow -> stack of open with-blocks
  objs          \* context object -> its _previous and _temporary_policy

vars == <<row, policyName, registry, running, calls, ctx, blocks, objs>>

Frame ==
  [profiles : Bodies \cup {{}}, todo : SUBSET Fields,
   phase : {"apply", "run", "waiting", "pending", "raised"},
   role : {"function", "wrapper"}, async : BOOLEAN,
   source : {"decorator", "policy", "none"}]

Block == [obj : Objects, entered : AllNames \cup {None},
          temp : TempNames \cup {None}]

Init ==
  /\ row = [th \in Threads |-> Unwritten]
  /\ policyName = None
  /\ registry = << >>
  /\ running = [th \in Threads |-> None]
  /\ calls = [f \in Flows |-> << >>]
  /\ ctx = [f \in Flows |-> None]
  /\ blocks = [f \in Flows |-> << >>]
  /\ objs = [o \in Objects |-> [previous |-> None, temp |-> None]]

-----------------------------------------------------------------------------
(* Decorated calls                                                         *)

Depth(f) == Len(calls[f])
Top(f) == calls[f][Depth(f)]
Runs(f) == running[ThreadOf[f]] = f
Phase(f) == IF Depth(f) = 0 THEN "idle" ELSE Top(f).phase
InFunction(f) == Phase(f) = "run" /\ Top(f).role = "function"
InWrapper(f) == Phase(f) = "run" /\ Top(f).role = "wrapper"

(* The flow is at a point where its code may call a decorated function:    *)
(* outside every call, as the inner wrapper of a stack of decorators, or   *)
(* (MayNest) from the body of a decorated function.                        *)
MayCall(f) ==
  /\ f \in Callers
  /\ Runs(f)
  /\ Depth(f) < MaxDepth
  /\ Phase(f) = "idle" \/ InWrapper(f) \/ (MayNest /\ InFunction(f))

(* Decorators are applied to one function: a stack is async as a whole.    *)
Styles(f) ==
  IF InWrapper(f) THEN {Top(f).async} ELSE BOOLEAN

Roles(f) ==
  IF Depth(f) + 1 = MaxDepth THEN {"function"} ELSE {"function", "wrapper"}

(* source is where the profiles come from; with "none" there is no wrapper. *)
NewFrame(profiles, role, async, source) ==
  [profiles |-> profiles,
   todo |-> profiles,
   phase |-> "apply", role |-> role, async |-> async, source |-> source]

(* A wrapper that has called the wrapper below it only waits for it.       *)
Push(f, frame) ==
  calls' = [calls EXCEPT ![f] =
    Append([i \in DOMAIN @ |-> IF @[i].role = "wrapper"
                               THEN [@[i] EXCEPT !.phase = "waiting"]
                               ELSE @[i]], frame)]
SetTop(f, frame) == calls' = [calls EXCEPT ![f][Depth(f)] = frame]

(* A decorator that carries its own profiles: latency(...), uplink(...).   *)
CallDirect(f) ==
  /\ MayCall(f)
  /\ \E body \in Bodies, role \in Roles(f), async \in Styles(f) :
       Push(f, NewFrame(body, role, async, "decorator"))
  /\ UNCHANGED <<row, policyName, registry, running, ctx, blocks, objs>>

(* fault(name): the policy is looked up at every call.  A missing or an    *)
(* empty policy calls the function with no wrapper at all.                 *)
CallPolicy(f, name) ==
  /\ MayCall(f)
  /\ LET known == name \in DOMAIN registry
         profiles == IF known THEN registry[name] ELSE {}
     IN \E role \in Roles(f), async \in Styles(f) :
          /\ Push(f, NewFrame(profiles, role, async,
                              IF profiles = {} THEN "none" ELSE "policy"))
          /\ policyName' = IF profiles = {} THEN policyName ELSE name
  /\ UNCHANGED <<row, registry, running, ctx, blocks, objs>>

CallNamed(f) == \E name \in Names : CallPolicy(f, name)
CallAuto(f) == CallPolicy(f, ctx[f])

(* The keywords the writer of a profile accepts, where they differ from    *)
(* the ones apply_fault_profiles passes.                                   *)
Mismatched ==
  LET passed == [uplink_profile |-> {"latency", "jitter", "packet_loss_ppm",
                                     "burst_loss", "rate"},
                 downlink_profile |-> {"latency", "jitter", "packet_loss_ppm",
                                       "burst_loss", "rate"},
                 half_open_profile |-> {"after", "err_kind"}]
      accepted == [uplink_profile |-> {"latency_ms", "jitter_ms",
                      "packet_loss_ppm", "burst_loss_len", "bandwidth_bps"},
                   downlink_profile |-> {"latency_ms", "jitter_ms",
                      "packet_loss_ppm", "burst_loss_len", "bandwidth_bps"},
                   half_open_profile |-> {"after_bytes", "err_kind"}]
  IN {x \in DOMAIN passed : ~ passed[x] \subseteq accepted[x]}

(* Profiles whose write raises whatever their value: the ones above, and   *)
(* the pair register_policy stores for timeout=, read as a mapping.        *)
Raising(f) ==
  Mismatched \cup (IF Top(f).source = "policy" THEN {"timeouts"} ELSE {})

(* The profile to be written next: the first of those still to be written.  *)
Position(x) == CHOOSE i \in DOMAIN WriteOrder : WriteOrder[i] = x
Due(f) == {x \in Top(f).todo : \A y \in Top(f).todo : Position(x) <= Position(y)}

(* One published write, under SHMWriter._lock.                             *)
ApplyOne(f) ==
  /\ Runs(f) /\ Phase(f) = "apply"
  /\ \E x \in Due(f) :
       /\ x \notin Raising(f)
       /\ SetTop(f, [Top(f) EXCEPT !.todo = @ \ {x}])
       /\ row' = [row EXCEPT ![ThreadOf[f]][x] = <<f, Depth(f)>>]
  /\ UNCHANGED <<policyName, registry, running, ctx, blocks, objs>>

(* Mutant: the profiles are written before the try block.                  *)
ApplyRaisesUncaught(f) ==
  /\ Runs(f) /\ Phase(f) = "apply"
  /\ Due(f) \cap (Raising(f) \cup Refused) # {}
  /\ calls' = [calls EXCEPT ![f] = SubSeq(@, 1, Len(@) - 1)]
  /\ UNCHANGED <<row, policyName, registry, running, ctx, blocks, objs>>

(* The writer of the next profile raises instead.                          *)
ApplyRaises(f) ==
  /\ Runs(f) /\ Phase(f) = "apply"
  /\ Due(f) \cap (Raising(f) \cup Refused) # {}
  /\ SetTop(f, [Top(f) EXCEPT !.phase = "raised"])
  /\ UNCHANGED <<row, policyName, registry, running, ctx, blocks, objs>>

(* Mutant: the row is cleared although the coroutine has not run yet       *)
(* (keeps_shm_until_await is forgotten).                                   *)
CallFunctionClearing(f) ==
  /\ Runs(f) /\ Phase(f) = "apply" /\ Top(f).todo = {}
  /\ LET awaitable == Top(f).async /\ Top(f).role = "function" IN
       /\ SetTop(f, [Top(f) EXCEPT !.phase =
                       IF awaitable THEN "pending" ELSE "run"])
       /\ row' = IF awaitable THEN [row EXCEPT ![ThreadOf[f]] = Unwritten] ELSE row
  /\ UNCHANGED <<policyName, registry, running, ctx, blocks, objs>>

(* All profiles are written: a wrapper goes on to the wrapper below it, a  *)
(* synchronous function runs, a coroutine function only returns its        *)
(* coroutine, which every wrapper of the stack wraps and hands on.         *)
CallFunction(f) ==
  /\ Runs(f) /\ Phase(f) = "apply" /\ Top(f).todo = {}
  /\ SetTop(f, [Top(f) EXCEPT !.phase =
       IF Top(f).async /\ Top(f).role = "function" THEN "pending" ELSE "run"])
  /\ UNCHANGED <<row, policyName, registry, running, ctx, blocks, objs>>

(* The coroutine is awaited, or its task takes its first step.             *)
Start(f) ==
  /\ Runs(f) /\ Phase(f) = "pending"
  /\ SetTop(f, [Top(f) EXCEPT !.phase = "run"])
  /\ UNCHANGED <<row, policyName, registry, running, ctx, blocks, objs>>

(* SHMWriter.clear: the whole row of the thread, whoever wrote it.         *)
Cleared(th) == [row EXCEPT ![th] = Unwritten]

(* The function returns or raises, or the wrapper below has: the finally   *)
(* block of __call__ or of _run_async empties the row.                     *)
Finish(f) ==
  /\ Runs(f)
  /\ InFunction(f) \/ Phase(f) \in {"waiting", "raised"}
  /\ row' = IF Top(f).source = "none" THEN row ELSE Cleared(ThreadOf[f])
  /\ calls' = [calls EXCEPT ![f] = SubSeq(@, 1, Len(@) - 1)]
  /\ UNCHANGED <<policyName, registry, running, ctx, blocks, objs>>

(* The mark of a profile whose call was dropped.                           *)
LeftBy(f) == <<f, 0>>

(* A coroutine that never ran is discarded, or its task cancelled before   *)
(* its first step: no finally block of it exists yet, and the profiles the *)
(* call wrote stay behind in the row.                                      *)
Drop(f) ==
  /\ MayDrop
  /\ Runs(f) /\ Phase(f) = "pending"
  /\ \E first \in 1..Depth(f) :
       /\ \A j \in first..(Depth(f) - 1) : calls[f][j].role = "wrapper"
       /\ first > 1 => calls[f][first - 1].role = "function"
       /\ calls' = [calls EXCEPT ![f] = SubSeq(@, 1, first - 1)]
       /\ row' = [row EXCEPT ![ThreadOf[f]] =
            [x \in Fields |-> IF @[x] \in {f} \X (first..Depth(f)) THEN LeftBy(f)
                              ELSE @[x]]]
  /\ UNCHANGED <<policyName, registry, running, ctx, blocks, objs>>

-----------------------------------------------------------------------------
(* Flows of one thread take turns at their awaits                          *)

Resume(f) ==
  /\ running[ThreadOf[f]] = None
  /\ running' = [running EXCEPT ![ThreadOf[f]] = f]
  /\ UNCHANGED <<row, policyName, registry, calls, ctx, blocks, objs>>

(* A flow that makes no calls and has its thread to itself need not be      *)
(* suspended: nobody would notice.                                         *)
Suspend(f) ==
  /\ Runs(f)
  /\ f \in Callers \/ \E g \in Flows \ {f} : ThreadOf[g] = ThreadOf[f]
  /\ \A i \in 1..Depth(f) : calls[f][i].async
  /\ Phase(f) \in {"idle", "pending"} \/ InFunction(f)
  /\ running' = [running EXCEPT ![ThreadOf[f]] = None]
  /\ UNCHANGED <<row, policyName, registry, calls, ctx, blocks, objs>>

-----------------------------------------------------------------------------
(* The registry and the policy contexts                                    *)

Register(f) ==
  /\ Runs(f) /\ Phase(f) = "idle"
  /\ \E name \in Names, body \in Bodies \cup {{}} :
       registry' = [n \in DOMAIN registry \cup {name} |->
                     IF n = name THEN body ELSE registry[n]]
  /\ UNCHANGED <<row, policyName, running, calls, ctx, blocks, objs>>

Without(names) == Restrict(registry, DOMAIN registry \ names)

(* unregister_policy, and clear_policies, which removes the temporary      *)
(* policies of open contexts too.                                          *)
Unregister(f) ==
  /\ Runs(f) /\ Phase(f) = "idle"
  /\ \E names \in {{n} : n \in Names} \cup {DOMAIN registry} :
       registry' = Without(names)
  /\ UNCHANGED <<row, policyName, running, calls, ctx, blocks, objs>>

SetThreadPolicy(f) ==
  /\ f \in Callers
  /\ Runs(f) /\ Phase(f) = "idle"
  /\ \E name \in Names \cup {None} : ctx' = [ctx EXCEPT ![f] = name]
  /\ UNCHANGED <<row, policyName, registry, running, calls, blocks, objs>>

InUse(o) == \E f \in Flows : \E i \in DOMAIN blocks[f] : blocks[f][i].obj = o

(* uuid4 names do not repeat while anything still refers to them.          *)
FreshNames ==
  TempNames \ (DOMAIN registry \cup Range(ctx)
               \cup {objs[o].temp : o \in Objects}
               \cup {objs[o].previous : o \in Objects}
               \cup UNION {{b.temp : b \in Range(blocks[f])} : f \in Flows})

(* An object serves one with-block at a time: __enter__ does not check it,   *)
(* and entering an active object overwrites what its block has to restore.   *)
CanEnter(f, o) ==
  /\ f \in Callers
  /\ Runs(f) /\ Phase(f) = "idle"
  /\ Len(blocks[f]) < MaxContexts
  /\ ~ InUse(o)

Open(f, o, temp) ==
  blocks' = [blocks EXCEPT ![f] =
    Append(@, [obj |-> o, entered |-> ctx[f], temp |-> temp])]

(* with policy_context(name)                                               *)
EnterNamed(f, o) ==
  /\ CanEnter(f, o) /\ Argument[o] # Inline
  /\ objs' = [objs EXCEPT ![o].previous = ctx[f]]
  /\ ctx' = [ctx EXCEPT ![f] = Argument[o]]
  /\ Open(f, o, None)
  /\ UNCHANGED <<row, policyName, registry, running, calls>>

(* with policy_context(latency=...): a temporary policy is registered.     *)
EnterInline(f, o) ==
  /\ CanEnter(f, o) /\ Argument[o] = Inline
  /\ \E temp \in FreshNames, body \in Bodies :
       /\ objs' = [objs EXCEPT ![o] = [previous |-> ctx[f], temp |-> temp]]
       /\ registry' = [n \in DOMAIN registry \cup {temp} |->
                         IF n = temp THEN body ELSE registry[n]]
       /\ ctx' = [ctx EXCEPT ![f] = temp]
       /\ Open(f, o, temp)
  /\ UNCHANGED <<row, policyName, running, calls>>

(* Mutant: leaving a context sets no policy instead of the previous one.   *)
LeaveObjectToDefault(f, o) ==
  /\ ctx' = [ctx EXCEPT ![f] = None]
  /\ objs' = [objs EXCEPT ![o].temp = None]
  /\ registry' = Without({objs[o].temp})

(* Mutant: _temporary_policy is reset before it is read.                   *)
LeaveObjectReset(f, o) ==
  /\ ctx' = [ctx EXCEPT ![f] = objs[o].previous]
  /\ objs' = [objs EXCEPT ![o].temp = None]
  /\ registry' = Without({objs'[o].temp})

(* __exit__                                                                *)
LeaveObject(f, o) ==
  /\ ctx' = [ctx EXCEPT ![f] = objs[o].previous]
  /\ objs' = [objs EXCEPT ![o].temp = None]
  /\ registry' = Without({objs[o].temp})

(* The kwargs are refused: register_policy raises with the name already    *)
(* stored in the object, and __enter__ calls __exit__ before it raises.    *)
EnterRefused(f, o) ==
  /\ CanEnter(f, o) /\ Argument[o] = Inline
  /\ objs' = [objs EXCEPT ![o] = [previous |-> ctx[f], temp |-> None]]
  /\ UNCHANGED <<row, policyName, registry, running, calls, ctx, blocks>>

Exit(f) ==
  /\ Runs(f) /\ Phase(f) = "idle" /\ blocks[f] # << >>
  /\ LeaveObject(f, blocks[f][Len(blocks[f])].obj)
  /\ blocks' = [blocks EXCEPT ![f] = SubSeq(@, 1, Len(@) - 1)]
  /\ UNCHANGED <<row, policyName, running, calls>>

-----------------------------------------------------------------------------
Step(f) ==
  \/ CallDirect(f) \/ CallNamed(f) \/ CallAuto(f)
  \/ ApplyOne(f) \/ ApplyRaises(f) \/ CallFunction(f) \/ Start(f) \/ Finish(f) \/ Drop(f)
  \/ Resume(f) \/ Suspend(f)
  \/ Register(f) \/ Unregister(f) \/ SetThreadPolicy(f) \/ Exit(f)
  \/ \E o \in Objects : EnterNamed(f, o) \/ EnterInline(f, o) \/ EnterRefused(f, o)

Next == \E f \in Flows : Step(f)

Spec == Init /\ [][Next]_vars

-----------------------------------------------------------------------------
(* Properties                                                              *)

(* Every variable keeps its shape; in particular a call stack is wrappers  *)
(* waiting for the one frame that runs, whatever raised, was cancelled or  *)
(* was dropped in between.                                                 *)
TypeOK ==
  /\ row \in [Threads -> [Fields -> {None} \cup (Flows \X (0..MaxDepth))]]
  /\ policyName \in AllNames \cup {None}
  /\ DOMAIN registry \subseteq AllNames
  /\ \A n \in DOMAIN registry : registry[n] \in Bodies \cup {{}}
  /\ running \in [Threads -> Flows \cup {None}]
  /\ calls \in [Flows -> Seq(Frame)]
  /\ \A f \in Flows : Depth(f) <= MaxDepth
  /\ \A f \in Flows : \A i \in 1..(Depth(f) - 1) :
       calls[f][i].phase \in (IF calls[f][i].role = "wrapper"
                              THEN {"waiting"} ELSE {"run"})
  /\ ctx \in [Flows -> AllNames \cup {None}]
  /\ blocks \in [Flows -> Seq(Block)]
  /\ objs \in [Objects -> [previous : AllNames \cup {None},
                           temp : TempNames \cup {None}]]

(* What the row must hold while a function runs: each profile as written   *)
(* by the innermost of the decorators around the function that carries it. *)
Expected(f) ==
  [x \in Fields |->
     LET carriers == {d \in 1..Depth(f) : x \in calls[f][d].profiles}
     IN IF carriers = {} THEN None ELSE <<f, Max(carriers)>>]

(* While a decorated function runs, the row of its thread holds every      *)
(* profile of the decorators around it, and besides them nothing of an     *)
(* earlier call, of another flow or of a failed one: only what a coroutine *)
(* left that was never awaited (FaultWrapper.__call__, _run_async,         *)
(* apply_fault_profiles).                                                  *)
FaultsInside ==
  \A f \in Flows :
    Runs(f) /\ InFunction(f) =>
      \A x \in Fields :
        \/ row[ThreadOf[f]][x] = Expected(f)[x]
        \/ Expected(f)[x] = None /\ row[ThreadOf[f]][x] = LeftBy(f)

(* Once no decorated call of a thread is active its row is empty, however  *)
(* the calls ended (the finally blocks of __call__ and _run_async), but    *)
(* for what a coroutine left that was never awaited.                       *)
ClearedAfterwards ==
  \A th \in Threads :
    (\A f \in Flows : ThreadOf[f] = th => calls[f] = << >>)
       => Range(row[th]) \subseteq {None} \cup {LeftBy(f) : f \in Flows}

(* Leaving a policy context puts back the thread policy that was set when  *)
(* that with-block was entered (policy_context.__exit__).                  *)
RestoredOnExit ==
  [][\A f \in Flows :
       Len(blocks'[f]) < Len(blocks[f])
         => ctx'[f] = blocks[f][Len(blocks[f])].entered]_vars

(* A temporary policy is registered only while the with-block that created *)
(* it is open (policy_context._resolve_policy_name, __exit__).             *)
NoLeakedPolicy ==
  \A n \in DOMAIN registry \cap TempNames :
    \E f \in Flows : \E b \in Range(blocks[f]) : b.temp = n

=============================================================================
