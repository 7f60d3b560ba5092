------------------------------- MODULE ShmOpen -------------------------------
(***************************************************************************)
(* How processes get at the shared segment, and what they find in its fd   *)
(* owner table: hooks on several threads of several processes, of which    *)
(* some are started as creators of the segment and the others as its       *)
(* consumers, and processes that end and are started again.                *)
(*                                                                         *)
(* The segment outlives the processes.  A new one is empty, then has its   *)
(* size and is all zero, which reads as: every descriptor belongs to slot  *)
(* 0; only then does its creator mark the table as free.                   *)
(***************************************************************************)
EXTENDS Integers, FiniteSets

CONSTANTS
  Processes, Threads,
  Home,      \* thread -> its process
  Creators,  \* processes with FAULTCORE_SHM_OPEN_MODE=creator
  Fds,       \* descriptor numbers, the same in every process
  SlotOf,    \* thread -> tid_slot of its id
  MaxExits,  \* bound: processes that end
  MaxFaults  \* bound: system calls of try_open_shm that fail

ASSUME OpenAssumption ==
  /\ Home \in [Threads -> Processes]
  /\ Creators \subseteq Processes
  /\ SlotOf \in [Threads -> Nat]
  /\ MaxExits \in Nat
  /\ MaxFaults \in Nat

None == -1                \* INVALID_TID_SLOT; also: not bound
Slots == {SlotOf[t] : t \in Threads} \cup {0}

VARIABLES
  segment,  \* "absent", "empty" (no size yet) or "sized"
  owner,    \* the fd owner table: descriptor -> slot, or None
  proc,     \* process: initialized, pointer (SHM_POINTER set), open (SHM_OPEN)
            \* and the number of mappings it has made
  pc,       \* thread: idle, lock, create, size, map, wipe, publish, flag or act
  job,      \* thread: the operation and the descriptor of its hook
  exits,    \* processes that have ended
  faults,   \* system calls that have failed
  bound,    \* history: process -> descriptor -> the slot it has bound it to
  strange,  \* history: <<process, descriptor>> whose entry another process has
            \* written since
  used      \* history: thread -> the owner its last look-up found

vars == <<segment, owner, proc, pc, job, exits, faults, bound, strange, used>>
history == <<bound, strange, used>>

Fresh == [initialized |-> FALSE, pointer |-> FALSE, open |-> FALSE, mappings |-> 0]
NoJob == [op |-> "none", fd |-> None]
Opening == {"create", "size", "map", "wipe", "publish", "flag"}
Operations == {"bind", "clear", "resolve"}

\* The values every variable takes: in particular a process whose SHM_OPEN is set
\* has its pointer, and what is mapped has its size.
TypeOK ==
  /\ segment \in {"absent", "empty", "sized"}
  /\ owner \in [Fds -> Slots \cup {None}]
  /\ \A p \in Processes : /\ proc[p].initialized \in BOOLEAN
                          /\ proc[p].mappings \in Nat
                          /\ proc[p].open => proc[p].pointer
                          /\ proc[p].pointer => proc[p].mappings > 0
                          /\ proc[p].mappings > 0 => segment = "sized"
  /\ pc \in [Threads -> {"idle", "lock", "act"} \cup Opening]
  /\ \A t \in Threads : pc[t] # "idle" => job[t].op \in Operations /\ job[t].fd \in Fds
  /\ exits \in 0 .. MaxExits
  /\ faults \in 0 .. MaxFaults

Init ==
  /\ segment = "absent"
  /\ owner = [f \in Fds |-> None]
  /\ proc = [p \in Processes |-> Fresh]
  /\ pc = [t \in Threads |-> "idle"]
  /\ job = [t \in Threads |-> NoJob]
  /\ exits = 0
  /\ faults = 0
  /\ bound = [p \in Processes |-> [f \in Fds |-> None]]
  /\ strange = {}
  /\ used = [t \in Threads |-> None]

Goto(t, l) == pc' = [pc EXCEPT ![t] = l]
Return(t) == Goto(t, "idle") /\ job' = [job EXCEPT ![t] = NoJob]

-----------------------------------------------------------------------------
\* Mutant of MustOpen: an attempt that failed is not repeated.
MustOpenOnce(p, op) == ~proc[p].open /\ ~proc[p].initialized

\* The hook calls try_open_shm before it does its work.
MustOpen(p, op) == ~proc[p].open /\ (~proc[p].initialized \/ op = "resolve")

\* A hook: the first of a process opens the segment (initialize), the others go on
\* although it may not be open yet; a look-up tries again.
Begin(t) ==
  /\ pc[t] = "idle"
  /\ \E op \in Operations, f \in Fds :
       /\ job' = [job EXCEPT ![t] = [op |-> op, fd |-> f]]
       /\ Goto(t, IF MustOpen(Home[t], op) THEN "lock" ELSE "act")
  /\ proc' = [proc EXCEPT ![Home[t]].initialized = TRUE]
  /\ used' = [used EXCEPT ![t] = None]
  /\ UNCHANGED <<segment, owner, exits, faults, bound, strange>>

\* Mutant of Recheck: whoever gets the lock opens the segment.
RecheckNot(p) == FALSE

\* Somebody else has opened it meanwhile.
Recheck(p) == proc[p].open

\* SHM_INIT_LOCK of the process.
Lock(t) ==
  /\ pc[t] = "lock"
  /\ \A u \in Threads : Home[u] = Home[t] => pc[u] \notin Opening
  /\ Goto(t, IF Recheck(Home[t]) THEN "act" ELSE "create")
  /\ UNCHANGED <<segment, owner, proc, job, exits, faults, history>>

\* shm_open: with O_CREAT for a creator; a consumer needs the segment.
Create(t) ==
  /\ pc[t] = "create"
  /\ IF Home[t] \in Creators
     THEN /\ segment' = IF segment = "absent" THEN "empty" ELSE segment
          /\ Goto(t, "size")
     ELSE /\ UNCHANGED segment
          /\ Goto(t, IF segment = "absent" THEN "act" ELSE "size")
  /\ UNCHANGED <<owner, proc, job, exits, faults, history>>

\* ftruncate of a creator, which gives zeros; fstat of a consumer.
Size(t) ==
  /\ pc[t] = "size"
  /\ IF Home[t] \in Creators
     THEN /\ segment' = "sized"
          /\ owner' = IF segment = "empty" THEN [f \in Fds |-> 0] ELSE owner
          /\ Goto(t, "map")
     ELSE /\ Goto(t, IF segment = "sized" THEN "map" ELSE "act")
          /\ UNCHANGED <<segment, owner>>
  /\ UNCHANGED <<proc, job, exits, faults, history>>

\* Mutants of Following: the pointer is published before the table is wiped, or the
\* table is not wiped at all.
FollowingWipeLast(p, l) ==
  CASE l = "map" -> "publish"
    [] l = "publish" -> IF p \in Creators THEN "wipe" ELSE "flag"
    [] l = "wipe" -> "flag"
FollowingUnwiped(p, l) == IF l = "map" THEN "publish" ELSE "flag"

\* The order of the last steps of try_open_shm.
Following(p, l) ==
  CASE l = "map" -> IF p \in Creators THEN "wipe" ELSE "publish"
    [] l = "wipe" -> "publish"
    [] l = "publish" -> "flag"

Map(t) ==
  /\ pc[t] = "map"
  /\ proc' = [proc EXCEPT ![Home[t]].mappings = @ + 1]
  /\ Goto(t, Following(Home[t], "map"))
  /\ UNCHANGED <<segment, owner, job, exits, faults, history>>

\* shm_open, ftruncate or fstat, or mmap fails: the attempt is over, what it has done to
\* the segment stays, and the hook goes on without it.
CallFails(t) ==
  /\ pc[t] \in {"create", "size", "map"}
  /\ faults < MaxFaults
  /\ faults' = faults + 1
  /\ Goto(t, "act")
  /\ UNCHANGED <<segment, owner, proc, job, exits, history>>

\* Entries of other processes that this one writes.
Foreign(p, fs) == {<<q, f>> : q \in Processes \ {p}, f \in fs}

\* A creator marks every descriptor as free, whoever is running.
Wipe(t) ==
  /\ pc[t] = "wipe"
  /\ owner' = [f \in Fds |-> None]
  /\ strange' = strange \cup Foreign(Home[t], Fds)
  /\ Goto(t, Following(Home[t], "wipe"))
  /\ UNCHANGED <<segment, proc, job, exits, faults, bound, used>>

Publish(t) ==
  /\ pc[t] = "publish"
  /\ proc' = [proc EXCEPT ![Home[t]].pointer = TRUE]
  /\ Goto(t, Following(Home[t], "publish"))
  /\ UNCHANGED <<segment, owner, job, exits, faults, history>>

Flag(t) ==
  /\ pc[t] = "flag"
  /\ proc' = [proc EXCEPT ![Home[t]].open = TRUE]
  /\ Goto(t, "act")
  /\ UNCHANGED <<segment, owner, job, exits, faults, history>>

\* assign_rule_to_fd and clear_rule_for_fd: without a pointer nothing is written.
Assign(t) ==
  LET p == Home[t]
      f == job[t].fd
      slot == IF job[t].op = "bind" THEN SlotOf[t] ELSE None
  IN  /\ pc[t] = "act" /\ job[t].op \in {"bind", "clear"}
      /\ IF proc[p].pointer
         THEN /\ owner' = [owner EXCEPT ![f] = slot]
              /\ bound' = [bound EXCEPT ![p][f] = slot]
              /\ strange' = (strange \ {<<p, f>>}) \cup Foreign(p, {f})
         ELSE UNCHANGED <<owner, bound, strange>>
      /\ Return(t)
      /\ UNCHANGED <<segment, proc, exits, faults, used>>

\* get_tid_slot_for_fd: the owner, if there is one; the thread's own configuration
\* is used otherwise.
Resolve(t) ==
  /\ pc[t] = "act" /\ job[t].op = "resolve"
  /\ used' = [used EXCEPT ![t] = IF proc[Home[t]].pointer THEN owner[job[t].fd] ELSE None]
  /\ Return(t)
  /\ UNCHANGED <<segment, owner, proc, exits, faults, bound, strange>>

\* A process ends, or crashes, and is started again; its entries stay.
Exit(p) ==
  /\ exits < MaxExits
  /\ exits' = exits + 1
  /\ proc' = [proc EXCEPT ![p] = Fresh]
  /\ pc' = [t \in Threads |-> IF Home[t] = p THEN "idle" ELSE pc[t]]
  /\ job' = [t \in Threads |-> IF Home[t] = p THEN NoJob ELSE job[t]]
  /\ bound' = [bound EXCEPT ![p] = [f \in Fds |-> None]]
  /\ strange' = {x \in strange : x[1] # p} \cup {<<p, f>> : f \in Fds}
  /\ used' = [t \in Threads |-> IF Home[t] = p THEN None ELSE used[t]]
  /\ UNCHANGED <<segment, owner, faults>>

Step(t) ==
  \/ Lock(t) \/ Create(t) \/ Size(t) \/ Map(t) \/ Wipe(t) \/ Publish(t) \/ Flag(t)
  \/ Assign(t) \/ Resolve(t)

Next ==
  \/ \E t \in Threads : Begin(t) \/ Step(t) \/ CallFails(t)
  \/ \E p \in Processes : Exit(p)

\* Threads run, and a process that looks descriptors up does so again.
LookUp(t) == Begin(t) /\ job'[t].op = "resolve"

Fairness ==
  /\ \A t \in Threads : WF_vars(Step(t))
  /\ \A p \in Processes : SF_vars(\E t \in Threads : Home[t] = p /\ LookUp(t))

Spec == Init /\ [][Next]_vars /\ Fairness

-----------------------------------------------------------------------------
(* Properties.                                                             *)

\* A process maps the segment once, whichever of its threads race to open it and
\* however often that failed before (SHM_INIT_LOCK, the second is_shm_open).
MappedOnce == \A p \in Processes : proc[p].mappings <= 1

\* "The bound owner policy stays authoritative unless explicitly cleared/rebound",
\* as far as the process itself goes: whatever its threads do while one of them
\* opens the segment, an entry that no other process has written since is the one
\* this process wrote last.
BoundStays ==
  \A p \in Processes, f \in Fds :
    bound[p][f] # None /\ <<p, f>> \notin strange => owner[f] = bound[p][f]

\* A creator never takes a descriptor that nobody has bound for one of slot 0: what a
\* look-up finds is the slot of a thread that bound it, not the zeros of a new
\* segment (write_bytes before SHM_POINTER is set).
NoPhantom ==
  \A t \in Threads :
    Home[t] \in Creators /\ used[t] # None => \E u \in Threads : SlotOf[u] = used[t]

\* A process that keeps looking descriptors up has the segment in the end, once
\* there is one of the right size, however early it was started, and whoever found it
\* missing or had a system call fail before, unless processes end meanwhile.
OpensEventually ==
  \A p \in Processes, n \in 0 .. MaxExits :
    segment = "sized" /\ exits = n ~> proc[p].open \/ exits # n
=====
