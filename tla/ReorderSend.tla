----------------------------- MODULE ReorderSend -----------------------------
(***************************************************************************)
(* The uplink reorder queue of one file descriptor: the send(), sendto()   *)
(* and write() hooks of several threads around handle_uplink_send, and     *)
(* close() of the descriptor.                                              *)
(*                                                                         *)
(* A queue is created on demand, shared through an Arc, locked for the     *)
(* whole of a call and taken out of the map again by the call that leaves  *)
(* it empty.  Map and queue have a lock each, and every packet is a system *)
(* call of its own, so a call is many steps: look the queue up, lock it,   *)
(* give each packet due to the kernel, one after the other, unlock, and    *)
(* (only if it left the queue empty) take the queue out of the map.  Calls *)
(* that hold different queues interleave all of these.                     *)
(*                                                                         *)
(* A packet is a number, given out in the order the calls are made.  What  *)
(* the engine decides is left open; the data a call sends (mutated or not) *)
(* is the packet's own affair.                                             *)
(***************************************************************************)
EXTENDS Integers, Sequences, SequencesExt, FiniteSets

CONSTANTS
  Threads,     \* threads that use the descriptor
  Packets,     \* bound: number of calls made
  Window,      \* reorder_window of the policy
  Expires,     \* reorder_max_delay_ns > 0
  MaxDup,      \* bound: copies a Duplicate decision asks for
  MaxEpoch,    \* bound: sockets that get this descriptor
  MayRefuse,   \* the kernel may refuse the packet of a call
  PolicyEnds,  \* the policy of the descriptor may be cleared and set again
  NoQueue      \* no queue: not in Queues

ASSUME SendAssumption ==
  /\ IsFiniteSet(Threads)
  /\ Packets \in Nat
  /\ Window \in Nat
  /\ Expires \in BOOLEAN
  /\ MaxDup \in Nat
  /\ MaxEpoch \in Nat
  /\ MayRefuse \in BOOLEAN
  /\ PolicyEnds \in BOOLEAN

\* Identities of the queues alive at one time: one in the map, one per call.
Queues == Threads \cup {"spare"}

ASSUME NoQueueAssumption == NoQueue \notin Queues /\ "spare" \notin Threads

VARIABLES
  entry,     \* reorder_pending_by_fd[fd]: a queue, or NoQueue
  queue,     \* queue -> its packets, oldest first
  due,       \* queue -> how many of them, from the front, the call that holds
             \* it has taken off and not yet given to the kernel
  pc,        \* thread: idle, lock, send, copy, done, cleanup
  que,       \* thread: the queue its call has looked up
  pkt,       \* thread: the packet of its call
  faults,    \* thread: the call found a configuration
  more,      \* thread: copies of its packet it has yet to send
  calls,     \* calls made so far, the last packet's number
  policy,    \* a configuration resolves for the descriptor
  aged,      \* packets staged at least reorder_max_delay_ns ago
  epoch,     \* which socket has the descriptor
  home,      \* packet -> the socket it was sent on
  asked,     \* history: packet -> copies a Duplicate decision asked for
  accepted,  \* packets sent or staged, whose calls report success, in order
  wire,      \* what was given to the kernel, but for calls it refused:
             \* <<packet, socket>>, in order
  discarded, \* packets dropped by close()
  seen       \* history: did calls overlap, did the policy change?

vars == <<entry, queue, due, pc, que, pkt, faults, more, calls, policy, aged,
          epoch, home, asked, accepted, wire, discarded, seen>>

\* The values every variable takes: in particular a queue holds packets of
\* calls that were made, and nothing else reaches the wire.
TypeOK ==
  /\ entry \in Queues \cup {NoQueue}
  /\ queue \in [Queues -> Seq(1 .. Packets)]
  /\ due \in [Queues -> Nat]
  /\ pc \in [Threads -> {"idle", "lock", "send", "copy", "done", "cleanup"}]
  /\ que \in [Threads -> Queues \cup {NoQueue}]
  /\ pkt \in [Threads -> 0 .. Packets]
  /\ faults \in [Threads -> BOOLEAN]
  /\ more \in [Threads -> 0 .. MaxDup]
  /\ calls \in 0 .. Packets
  /\ policy \in BOOLEAN
  /\ aged \subseteq 1 .. Packets
  /\ epoch \in 0 .. MaxEpoch
  /\ home \in [1 .. Packets -> 0 .. MaxEpoch]
  /\ asked \in [1 .. Packets -> 0 .. MaxDup]
  /\ accepted \in Seq(1 .. Packets)
  /\ wire \in Seq((1 .. Packets) \X (0 .. MaxEpoch))
  /\ discarded \subseteq 1 .. Packets
  /\ seen \subseteq {"overlap", "policy"}

Init ==
  /\ entry = NoQueue
  /\ queue = [q \in Queues |-> <<>>]
  /\ due = [q \in Queues |-> 0]
  /\ pc = [t \in Threads |-> "idle"]
  /\ que = [t \in Threads |-> NoQueue]
  /\ pkt = [t \in Threads |-> 0]
  /\ faults = [t \in Threads |-> FALSE]
  /\ more = [t \in Threads |-> 0]
  /\ calls = 0
  /\ policy = TRUE
  /\ aged = {}
  /\ epoch = 0
  /\ home = [p \in 1 .. Packets |-> 0]
  /\ asked = [p \in 1 .. Packets |-> 0]
  /\ accepted = <<>>
  /\ wire = <<>>
  /\ discarded = {}
  /\ seen = {}

-----------------------------------------------------------------------------
\* A queue nobody refers to: its memory is free for a new one.
Unreferenced(q) == q # entry /\ \A t \in Threads : que[t] # q

\* with_reorder_pending: under the map's lock, the descriptor's queue, made
\* if there is none.
LookUp(t) ==
  /\ pc[t] = "idle"
  /\ calls < Packets
  /\ calls' = calls + 1
  /\ pkt' = [pkt EXCEPT ![t] = calls + 1]
  /\ home' = [home EXCEPT ![calls + 1] = epoch]
  /\ pc' = [pc EXCEPT ![t] = "lock"]
  /\ \/ /\ entry # NoQueue
        /\ que' = [que EXCEPT ![t] = entry]
        /\ UNCHANGED <<entry, queue>>
     \/ /\ entry = NoQueue
        /\ LET q == CHOOSE x \in Queues : Unreferenced(x)
           IN /\ que' = [que EXCEPT ![t] = q]
              /\ entry' = q
              /\ queue' = [queue EXCEPT ![q] = <<>>]
  /\ seen' = IF \E u \in Threads : pc[u] # "idle" THEN seen \cup {"overlap"} ELSE seen
  /\ UNCHANGED <<due, faults, more, policy, aged, epoch, asked, accepted, wire,
                 discarded>>

\* The call holds the lock of its queue.
Holds(t) == pc[t] \in {"send", "copy", "done"}

\* One system call: the kernel is given packet p.
Transmit(p) == wire' = Append(wire, <<p, epoch>>)

\* flush_expired_reorder: the longest expired prefix of the queue.
ExpiredCount(q) ==
  IF ~Expires THEN 0
  ELSE CHOOSE n \in 0 .. Len(q) :
         /\ \A i \in 1 .. n : q[i] \in aged
         /\ n < Len(q) => q[n + 1] \notin aged

\* Mutant of Lock: expired packets are dropped from the queue, not sent.
LockDiscarding(t) ==
  /\ pc[t] = "lock"
  /\ \A u \in Threads \ {t} : Holds(u) => que[u] # que[t]
  /\ pc' = [pc EXCEPT ![t] = "send"]
  /\ faults' = [faults EXCEPT ![t] = policy]
  /\ LET q == queue[que[t]]
         n == IF policy THEN ExpiredCount(q) ELSE 0
     IN queue' = [queue EXCEPT ![que[t]] = SubSeq(q, n + 1, Len(q))]
  /\ UNCHANGED <<entry, due, que, pkt, more, calls, policy, aged, epoch, home,
                 asked, accepted, wire, discarded, seen>>

\* Locks the queue and looks the configuration up; with one, what has expired
\* is due before anything else.
Lock(t) ==
  /\ pc[t] = "lock"
  /\ \A u \in Threads \ {t} : Holds(u) => que[u] # que[t]
  /\ pc' = [pc EXCEPT ![t] = "send"]
  /\ faults' = [faults EXCEPT ![t] = policy]
  /\ due' = [due EXCEPT ![que[t]] = IF policy THEN ExpiredCount(queue[que[t]]) ELSE 0]
  /\ UNCHANGED <<entry, queue, que, pkt, more, calls, policy, aged, epoch, home,
                 asked, accepted, wire, discarded, seen>>

\* send_pending_datagram for the next packet due.  What the kernel makes of it
\* is not looked at.
Emit(t) ==
  /\ pc[t] \in {"send", "done"}
  /\ due[que[t]] > 0
  /\ Transmit(Head(queue[que[t]]))
  /\ queue' = [queue EXCEPT ![que[t]] = Tail(@)]
  /\ due' = [due EXCEPT ![que[t]] = @ - 1]
  /\ UNCHANGED <<entry, pc, que, pkt, faults, more, calls, policy, aged, epoch,
                 home, asked, accepted, discarded, seen>>

\* The packets due before it are sent, and the call comes to its own packet.
Ready(t) == pc[t] = "send" /\ due[que[t]] = 0

\* The engine's decision ends the call (a drop, a timeout, an error, EAGAIN for
\* a delay on a non-blocking descriptor), or the kernel refuses the packet.
Fail(t) ==
  /\ Ready(t)
  /\ faults[t] \/ MayRefuse
  /\ pc' = [pc EXCEPT ![t] = "done"]
  /\ UNCHANGED <<entry, queue, due, que, pkt, faults, more, calls, policy, aged,
                 epoch, home, asked, accepted, wire, discarded, seen>>

\* enforce_reorder_window
Limit == IF Window > 1 THEN Window ELSE 1

\* stage_reorder_send and stage_reorder_sendto: the buffer is copied to the end.
Staged(t) == Append(queue[que[t]], pkt[t])

\* Mutant of Stage: the window is not enforced.
StageUnbounded(t) ==
  /\ Ready(t)
  /\ faults[t]
  /\ queue' = [queue EXCEPT ![que[t]] = Staged(t)]
  /\ accepted' = Append(accepted, pkt[t])
  /\ pc' = [pc EXCEPT ![t] = "done"]
  /\ UNCHANGED <<entry, due, que, pkt, faults, more, calls, policy, aged, epoch,
                 home, asked, wire, discarded, seen>>

\* StageReorder: the packet is queued and the call reports it sent; what
\* exceeds the window is due in its place.
Stage(t) ==
  /\ Ready(t)
  /\ faults[t]
  /\ queue' = [queue EXCEPT ![que[t]] = Staged(t)]
  /\ due' = [due EXCEPT ![que[t]] =
               IF Len(Staged(t)) > Limit THEN Len(Staged(t)) - Limit ELSE 0]
  /\ accepted' = Append(accepted, pkt[t])
  /\ pc' = [pc EXCEPT ![t] = "done"]
  /\ UNCHANGED <<entry, que, pkt, faults, more, calls, policy, aged, epoch, home,
                 asked, wire, discarded, seen>>

\* maybe_duplicate_*: how often the packet is sent again.  The engine is asked
\* anew, under the policy of that moment.
Copies(t) == IF faults[t] THEN 0 .. MaxDup ELSE {0}

\* The kernel takes the packet of the call, and a decision says how many copies
\* are to follow.
Pass(t) ==
  /\ Ready(t)
  /\ Transmit(pkt[t])
  /\ accepted' = Append(accepted, pkt[t])
  /\ \E n \in Copies(t) :
       /\ more' = [more EXCEPT ![t] = n]
       /\ asked' = [asked EXCEPT ![pkt[t]] = n]
  /\ pc' = [pc EXCEPT ![t] = "copy"]
  /\ UNCHANGED <<entry, queue, due, que, pkt, faults, calls, policy, aged, epoch,
                 home, discarded, seen>>

\* maybe_duplicate_common: one more copy of the packet.
Copy(t) ==
  /\ pc[t] = "copy"
  /\ more[t] > 0
  /\ Transmit(pkt[t])
  /\ more' = [more EXCEPT ![t] = @ - 1]
  /\ UNCHANGED <<entry, queue, due, pc, que, pkt, faults, calls, policy, aged,
                 epoch, home, asked, accepted, discarded, seen>>

\* Mutants of Pop: the held packet is sent but stays in the queue, or is not
\* sent at all.
PopPeeking(t) ==
  /\ pc[t] = "copy"
  /\ more[t] = 0
  /\ IF faults[t] /\ queue[que[t]] # <<>> THEN Transmit(Head(queue[que[t]]))
                                          ELSE UNCHANGED wire
  /\ pc' = [pc EXCEPT ![t] = "done"]
  /\ UNCHANGED <<entry, queue, due, que, pkt, faults, more, calls, policy, aged,
                 epoch, home, asked, accepted, discarded, seen>>
PopNothing(t) ==
  /\ pc[t] = "copy"
  /\ more[t] = 0
  /\ pc' = [pc EXCEPT ![t] = "done"]
  /\ UNCHANGED <<entry, queue, due, que, pkt, faults, more, calls, policy, aged,
                 epoch, home, asked, accepted, wire, discarded, seen>>

\* pop_reorder_after_success: under a policy, the oldest held packet follows.
Pop(t) ==
  /\ pc[t] = "copy"
  /\ more[t] = 0
  /\ due' = [due EXCEPT ![que[t]] =
               IF faults[t] /\ queue[que[t]] # <<>> THEN 1 ELSE 0]
  /\ pc' = [pc EXCEPT ![t] = "done"]
  /\ UNCHANGED <<entry, queue, que, pkt, faults, more, calls, policy, aged, epoch,
                 home, asked, accepted, wire, discarded, seen>>

\* The end of with_reorder_pending: the queue is unlocked; a call that leaves
\* it empty takes it out of the map later, another returns now.
Unlock(t) ==
  /\ pc[t] = "done"
  /\ due[que[t]] = 0
  /\ LET empty == queue[que[t]] = <<>>
     IN /\ pc' = [pc EXCEPT ![t] = IF empty THEN "cleanup" ELSE "idle"]
        /\ que' = [que EXCEPT ![t] = IF empty THEN @ ELSE NoQueue]
  /\ pkt' = [pkt EXCEPT ![t] = 0]
  /\ faults' = [faults EXCEPT ![t] = FALSE]
  /\ UNCHANGED <<entry, queue, due, more, calls, policy, aged, epoch, home, asked,
                 accepted, wire, discarded, seen>>

\* The call that left the queue empty takes it out of the map if it is still
\* the one there.  Whether it is still empty is not looked at again.
Cleanup(t) ==
  /\ pc[t] = "cleanup"
  /\ entry' = IF entry = que[t] THEN NoQueue ELSE entry
  /\ pc' = [pc EXCEPT ![t] = "idle"]
  /\ que' = [que EXCEPT ![t] = NoQueue]
  /\ UNCHANGED <<queue, due, pkt, faults, more, calls, policy, aged, epoch, home,
                 asked, accepted, wire, discarded, seen>>

\* Mutant of Close: the queue outlives the socket.
CloseKeeping ==
  /\ epoch < MaxEpoch
  /\ \A t \in Threads : pc[t] = "idle"
  /\ epoch' = epoch + 1
  /\ UNCHANGED <<entry, queue, due, pc, que, pkt, faults, more, calls, policy, aged,
                 home, asked, accepted, wire, discarded, seen>>

\* close() outside any call on the descriptor: clear_fd_state forgets the
\* queue, and the next socket gets the number.
Close ==
  /\ epoch < MaxEpoch
  /\ \A t \in Threads : pc[t] = "idle"
  /\ discarded' = IF entry = NoQueue THEN discarded
                  ELSE discarded \cup Range(queue[entry])
  /\ entry' = NoQueue
  /\ epoch' = epoch + 1
  /\ UNCHANGED <<queue, due, pc, que, pkt, faults, more, calls, policy, aged, home,
                 asked, accepted, wire, seen>>

\* Outside: the decorated call ends, or another begins, on the owner thread.
TogglePolicy ==
  /\ PolicyEnds
  /\ policy' = ~policy
  /\ seen' = seen \cup {"policy"}
  /\ UNCHANGED <<entry, queue, due, pc, que, pkt, faults, more, calls, aged, epoch,
                 home, asked, accepted, wire, discarded>>

\* Time: everything staged so far is past reorder_max_delay_ns.
Tick ==
  /\ Expires
  /\ aged' = aged \cup UNION {Range(queue[q]) : q \in Queues}
  /\ UNCHANGED <<entry, queue, due, pc, que, pkt, faults, more, calls, policy, epoch,
                 home, asked, accepted, wire, discarded, seen>>

Next ==
  \/ \E t \in Threads :
       \/ LookUp(t) \/ Lock(t) \/ Emit(t)
       \/ Fail(t) \/ Stage(t) \/ Pass(t) \/ Copy(t) \/ Pop(t)
       \/ Unlock(t) \/ Cleanup(t)
  \/ Close \/ TogglePolicy \/ Tick

Spec == Init /\ [][Next]_vars

-----------------------------------------------------------------------------
(* Properties.                                                             *)

OnWire == {wire[i][1] : i \in DOMAIN wire}

\* Held: in a queue that the map or a call in progress still refers to.
Held == UNION {Range(queue[q]) : q \in {x \in Queues : ~Unreferenced(x)}}

\* What the concurrency test of with_reorder_pending asserts of pushes alone: a
\* packet whose send reported success was given to the kernel or is still held,
\* unless the descriptor was closed.  A second thread may
\* stage its packet in a queue that the first then takes out of the map.
NothingLost ==
  \A i \in DOMAIN accepted :
    accepted[i] \in OnWire \cup Held \cup discarded

\* The same as long as no two calls on the descriptor overlap, whichever
\* threads make them and whatever becomes of the policy in between.
KeptInTurn == "overlap" \notin seen => NothingLost

\* No call leaves more in a queue than the window, however calls interleave.
WithinWindow == \A q \in Queues : Len(queue[q]) - due[q] <= Limit

\* Packets held for a closed descriptor never reach the socket that gets its
\* number next.
OwnSocket == \A i \in DOMAIN wire : wire[i][2] = home[wire[i][1]]

\* What was sent until packet p was: all of the wire if p was not.
Before(p) ==
  {wire[m][1] : m \in {k \in DOMAIN wire : \A j \in 1 .. k - 1 : wire[j][1] # p}}

\* The packets sent before packet accepted[i] though their calls returned later.
Overtaking(i) == {j \in i + 1 .. Len(accepted) : accepted[j] \in Before(accepted[i])}

\* Reordering is bounded by the window while the policy stays and calls do not
\* overlap: a packet is overtaken by at most Limit packets sent after it.
BoundedDisplacement ==
  \A i \in DOMAIN accepted :
    seen = {} /\ accepted[i] \notin discarded => Cardinality(Overtaking(i)) <= Limit

\* The places of a packet on the wire.
Times(p) == {i \in DOMAIN wire : wire[i][1] = p}

\* A packet reaches the kernel at most once, and once more for every copy that a
\* Duplicate decision of its own call asked for, however the calls that stage,
\* expire, flush and pop it interleave and whichever queues they hold: a packet
\* that was held is never duplicated, and never both flushed and popped.
SentOnce ==
  \A p \in 1 .. Packets : Cardinality(Times(p)) <= 1 + asked[p]
=============================================================================
