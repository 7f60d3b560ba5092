------------------------- MODULE ReorderSendProofs -------------------------
(***************************************************************************)
(* Proofs about ReorderSend, for every set of threads, every window and    *)
(* every number of packets.                                                *)
(***************************************************************************)
EXTENDS ReorderSend, FiniteSetTheorems, SequenceTheorems, TLAPS

\* A finite set of integers that is not empty has a smallest element: among its
\* subsets that have none, none is smallest.
LEMMA SmallestExists ==
  ASSUME NEW S \in SUBSET Int, IsFiniteSet(S), S # {}
  PROVE  \E m \in S : \A y \in S : m <= y
<1> DEFINE Bad == {U \in FiniteSubsetsOf(S) : U # {} /\ ~\E m \in U : \A y \in U : m <= y}
<1>1. SUFFICES ASSUME Bad # {} PROVE FALSE
  <2>1. S \in FiniteSubsetsOf(S)
    BY DEF FiniteSubsetsOf
  <2> QED
    BY <1>1, <2>1
<1>2. PICK U \in Bad : \A V \in Bad : ~(<<V, U>> \in StrictSubsetOrdering(S))
  <2>1. IsWellFoundedOn(StrictSubsetOrdering(S), FiniteSubsetsOf(S))
    BY FS_StrictSubsetOrderingWellFounded
  <2>2. Bad \subseteq FiniteSubsetsOf(S)
    OBVIOUS
  <2> HIDE DEF Bad
  <2> QED
    BY <1>1, <2>1, <2>2, WFMin
<1>3. U \in SUBSET S /\ IsFiniteSet(U) /\ U # {} /\ ~\E m \in U : \A y \in U : m <= y
  BY <1>2 DEF FiniteSubsetsOf
<1>4. PICK x \in U : TRUE
  BY <1>3
<1>5. U \ {x} \in FiniteSubsetsOf(S)
  BY <1>3, FS_RemoveElement DEF FiniteSubsetsOf
<1>6. U \in FiniteSubsetsOf(S)
  BY <1>2
<1>7. U \ {x} \notin Bad
  <2>1. <<U \ {x}, U>> \in StrictSubsetOrdering(S)
    BY <1>3, <1>4 DEF StrictSubsetOrdering
  <2> HIDE DEF Bad
  <2> QED
    BY <1>2, <2>1
<1>8. CASE U \ {x} = {}
  BY <1>3, <1>4, <1>8
<1>9. CASE U \ {x} # {}
  <2>1. PICK m \in U \ {x} : \A y \in U \ {x} : m <= y
    BY <1>5, <1>7, <1>9
  <2>2. m \in Int /\ x \in Int /\ U \subseteq Int
    BY <1>3, <1>4, <2>1
  <2>3. \E k \in {m, x} : \A y \in U : k <= y
    <3>1. CASE m <= x
      BY <2>1, <2>2, <3>1
    <3>2. CASE x < m
      BY <2>1, <2>2, <3>2
    <3> QED
      BY <2>2, <3>1, <3>2
  <2> QED
    BY <1>3, <1>4, <2>1, <2>3
<1> QED
  BY <1>8, <1>9

-----------------------------------------------------------------------------
(* The calls.                                                              *)

\* A call that has its queue and is not done with it.
Active(t) == pc[t] \notin {"idle", "cleanup"}

\* Its packet is still with it, neither sent nor staged.
Sending(t) == pc[t] \in {"lock", "send"}

\* It may yet give its packet to the kernel.
Owning(t) == pc[t] \in {"lock", "send", "copy"}

\* A call has a queue until it returns, and a packet of its own until it is done with it.
CallInv ==
  \A t \in Threads : /\ pc[t] = "idle" <=> que[t] = NoQueue
                     /\ Owning(t) => pkt[t] \in 1 .. calls

\* One call at a time holds a queue, and only packets of a queue that is held are due.
LockInv ==
  /\ \A t, u \in Threads : Holds(t) /\ Holds(u) /\ que[t] = que[u] => t = u
  /\ \A q \in Queues : due[q] <= Len(queue[q])
  /\ \A q \in Queues : due[q] > 0 => \E t \in Threads : pc[t] \in {"send", "done"} /\ que[t] = q

\* There is always a queue that nobody refers to when a call needs one: the others cannot
\* refer to them all.
LEMMA QueueFree ==
  ASSUME TypeOK, CallInv, NEW t \in Threads, pc[t] = "idle", entry = NoQueue
  PROVE  \E q \in Queues : Unreferenced(q)
<1> USE SendAssumption, NoQueueAssumption
<1>1. SUFFICES ASSUME \A q \in Queues : ~Unreferenced(q) PROVE FALSE
  OBVIOUS
<1>2. \A q \in Queues : \E u \in Threads : que[u] = q
  BY <1>1 DEF Unreferenced
<1> DEFINE f == [u \in Threads |-> que[u]]
           R == {que[u] : u \in Threads}
<1>3. f \in Surjection(Threads, R)
  BY DEF Surjection
<1>4. IsFiniteSet(R) /\ Cardinality(R) <= Cardinality(Threads)
  <2> HIDE DEF f, R
  <2> QED
    BY <1>3, FS_Surjection
<1>5. Queues \in SUBSET R
  BY <1>2
<1>6. Cardinality(Queues) <= Cardinality(R)
  <2> HIDE DEF R
  <2> QED
    BY <1>4, <1>5, FS_Subset
<1>7. Cardinality(Queues) = Cardinality(Threads) + 1 /\ IsFiniteSet(Queues)
  BY FS_AddElement DEF Queues
<1>8. Cardinality(Threads) \in Nat /\ Cardinality(R) \in Nat
  <2> HIDE DEF R
  <2> QED
    BY <1>4, FS_CardinalityType
<1> QED
  BY <1>4, <1>6, <1>7, <1>8

\* The longest expired prefix exists.
LEMMA ExpiredPrefix ==
  ASSUME NEW q \in Seq(1 .. Packets)
  PROVE  ExpiredCount(q) \in 0 .. Len(q)
<1>0. Len(q) \in Nat
  BY LenProperties
<1>1. CASE ~Expires
  BY <1>0, <1>1 DEF ExpiredCount
<1>2. CASE Expires
  <2> DEFINE P(n) == /\ \A i \in 1 .. n : q[i] \in aged
                     /\ n < Len(q) => q[n + 1] \notin aged
  <2>1. \E n \in 0 .. Len(q) : P(n)
    <3>1. CASE \A i \in 1 .. Len(q) : q[i] \in aged
      <4>1. P(Len(q)) /\ Len(q) \in 0 .. Len(q)
        BY <1>0, <3>1
      <4> HIDE DEF P
      <4> QED
        BY <4>1
    <3>2. CASE \E i \in 1 .. Len(q) : q[i] \notin aged
      <4> DEFINE B == {i \in 1 .. Len(q) : q[i] \notin aged}
      <4>1. B \in SUBSET Int /\ B # {} /\ IsFiniteSet(B)
        <5>1. IsFiniteSet(1 .. Len(q))
          BY <1>0, FS_Interval
        <5> QED
          BY <1>0, <3>2, <5>1, FS_Subset
      <4>2. PICK m \in B : \A j \in B : m <= j
        <5> HIDE DEF B
        <5> QED
          BY <4>1, SmallestExists
      <4>3. m \in 1 .. Len(q) /\ q[m] \notin aged
        BY <4>2
      <4>4. \A i \in 1 .. m - 1 : q[i] \in aged
        BY <1>0, <4>2, <4>3
      <4>5. P(m - 1) /\ m - 1 \in 0 .. Len(q)
        BY <1>0, <4>3, <4>4
      <4> HIDE DEF P
      <4> QED
        BY <4>5
    <3> QED
      BY <3>1, <3>2
  <2>2. ExpiredCount(q) = CHOOSE n \in 0 .. Len(q) : P(n)
    BY <1>2 DEF ExpiredCount
  <2> HIDE DEF P
  <2> QED
    BY <2>1, <2>2
<1> QED
  BY <1>1, <1>2

Entries == (1 .. Packets) \X (0 .. MaxEpoch)

Live(q) == ~Unreferenced(q)

\* What a step of call t does to the queues: of all, its queue with perhaps its own packet
\* at the end, the first n leave.
QueueAfter(t, all, n, k) ==
  /\ que[t] \in Queues /\ Live(que[t])
  /\ \A q \in Queues : Live(q)' => Live(q)
  /\ queue' \in [Queues -> Seq(1 .. Packets)]
  /\ \A q \in Queues : q # que[t] => queue'[q] = queue[q]
  /\ Len(queue'[que[t]]) = Len(all) - n
  /\ \A i \in 1 .. Len(all) - n : queue'[que[t]][i] = all[i + n]
  /\ Len(queue[que[t]]) \in Nat /\ Len(queue[que[t]]) <= Len(all)
  /\ Len(all) \in Nat /\ n <= Len(all)
  /\ \A i \in 1 .. Len(all) : \/ i <= Len(queue[que[t]]) /\ all[i] = queue[que[t]][i]
                              \/ /\ i = Len(queue[que[t]]) + 1 /\ all[i] = pkt[t]
                                 /\ k = 0 /\ Sending(t) /\ ~Sending(t)'
  /\ \A i \in 1 .. Len(queue[que[t]]) : all[i] = queue[que[t]][i]

\* To the wire: its packet joins it if k is 1, then the first n of all.
WireAfter(t, all, n, k) ==
  /\ wire' \in Seq(Entries) /\ Len(wire) \in Nat
  /\ Len(wire') = Len(wire) + k + n
  /\ \A i \in 1 .. Len(wire) : wire'[i] = wire[i]
  /\ \A i \in Len(wire) + 1 .. Len(wire) + k : wire'[i] = <<pkt[t], epoch>>
  /\ \A i \in 1 .. n : wire'[Len(wire) + k + i] = <<all[i], epoch>>

\* To the calls: only this one is disturbed.
CallsAfter(t, k) ==
  /\ Active(t) /\ calls \in Nat /\ calls <= Packets
  /\ Owning(t) => pkt[t] \in 1 .. calls
  /\ \A u \in Threads : u # t => pc'[u] = pc[u] /\ pkt'[u] = pkt[u] /\ que'[u] = que[u]
  /\ Sending(t)' => Sending(t) /\ k = 0
  /\ Owning(t)' => Owning(t) /\ pkt'[t] = pkt[t]
  /\ Active(t)' => que'[t] = que[t]
  /\ k > 0 => Sending(t)
  /\ pc'[t] = "copy" <=> k > 0

\* To what was accepted: its packet joins it when it leaves the call.
AcceptedAfter(t, all, k) ==
  /\ accepted' \in Seq(1 .. Packets)
  /\ Len(accepted) \in Nat
  /\ \A i \in 1 .. Len(accepted) : accepted[i] \in Nat /\ accepted'[i] = accepted[i]
  /\ \/ Len(accepted') = Len(accepted) /\ k = 0 /\ all = queue[que[t]]
     \/ /\ Len(accepted') = Len(accepted) + 1 /\ accepted'[Len(accepted) + 1] = pkt[t]
        /\ Sending(t) /\ ~Sending(t)'
        /\ k > 0 \/ all = Append(queue[que[t]], pkt[t])

\* And to nothing else.
Serves(t, all, n, k) ==
  /\ QueueAfter(t, all, n, k) /\ WireAfter(t, all, n, k)
  /\ CallsAfter(t, k) /\ AcceptedAfter(t, all, k)
  /\ n + k <= 1
  /\ UNCHANGED <<entry, calls, policy, aged, epoch, home, discarded, seen>>

\* The steps of a call with its queue locked, but for copies of its packet.
Served(t) ==
  Lock(t) \/ Emit(t) \/ Fail(t) \/ Stage(t) \/ Pass(t) \/ Pop(t) \/ Unlock(t)

\* A step that moves no packet is of this form,
LEMMA QuietServes ==
  ASSUME TypeOK, CallInv, NEW t \in Threads, Active(t), CallsAfter(t, 0),
         UNCHANGED <<entry, queue, calls, policy, aged, epoch, home, accepted, wire,
                     discarded, seen>>,
         \A u \in Threads : que'[u] = que[u] \/ que'[u] = NoQueue
  PROVE  Serves(t, queue[que[t]], 0, 0)
<1> USE SendAssumption, NoQueueAssumption
<1>1. que[t] \in Queues /\ Live(que[t]) /\ \A q \in Queues : Live(q)' => Live(q)
  BY DEF TypeOK, CallInv, Active, Live, Unreferenced
<1>2. PICK all \in Seq(1 .. Packets) : all = queue[que[t]]
  BY <1>1 DEF TypeOK
<1>3. Len(all) \in Nat
  BY LenProperties
<1>4. QueueAfter(t, all, 0, 0)
  <2>1. \A i \in 1 .. Len(all) - 0 : all[i] = all[i + 0]
    BY <1>3
  <2>2. queue' \in [Queues -> Seq(1 .. Packets)] /\ queue' = queue
    BY DEF TypeOK
  <2>3. Len(all) = Len(all) - 0 /\ Len(all) <= Len(all) /\ 0 <= Len(all)
        /\ \A i \in 1 .. Len(all) : i <= Len(all)
    BY <1>3
  <2> QED
    BY <1>1, <1>2, <1>3, <2>1, <2>2, <2>3, Zenon DEF QueueAfter
<1>5. WireAfter(t, all, 0, 0)
  <2>1. wire \in Seq(Entries) /\ wire' = wire
    BY DEF TypeOK, Entries
  <2>2. Len(wire) \in Nat
    BY <2>1, LenProperties
  <2> QED
    BY <2>1, <2>2 DEF WireAfter
<1>6. AcceptedAfter(t, all, 0)
  <2>1. accepted \in Seq(1 .. Packets) /\ accepted' = accepted
    BY DEF TypeOK
  <2>2. Len(accepted) \in Nat /\ \A i \in 1 .. Len(accepted) : accepted[i] \in 1 .. Packets
    BY <2>1, LenProperties, ElementOfSeq
  <2> QED
    BY <1>2, <2>1, <2>2 DEF AcceptedAfter
<1> QED
  BY <1>2, <1>4, <1>5, <1>6 DEF Serves

\* The wire with one more packet on it.
LEMMA Transmitted ==
  ASSUME TypeOK, NEW p \in 1 .. Packets, Transmit(p)
  PROVE  /\ wire' \in Seq(Entries) /\ Len(wire) \in Nat /\ Len(wire') = Len(wire) + 1
         /\ \A i \in 1 .. Len(wire) : wire'[i] = wire[i]
         /\ wire'[Len(wire) + 1] = <<p, epoch>>
<1>1. wire \in Seq(Entries) /\ <<p, epoch>> \in Entries
  BY DEF TypeOK, Entries
<1>2. PICK e \in Entries : e = <<p, epoch>>
  BY <1>1
<1>3. wire' = Append(wire, e)
  BY <1>2 DEF Transmit
<1> QED
  BY <1>1, <1>2, <1>3, AppendProperties, LenProperties

\* What is accepted with one more packet.
LEMMA Accepted ==
  ASSUME TypeOK, NEW p \in 1 .. Packets, accepted' = Append(accepted, p)
  PROVE  /\ accepted' \in Seq(1 .. Packets)
         /\ Len(accepted) \in Nat /\ Len(accepted') = Len(accepted) + 1
         /\ \A i \in 1 .. Len(accepted) : accepted[i] \in Nat /\ accepted'[i] = accepted[i]
         /\ accepted'[Len(accepted) + 1] = p
<1>1. accepted \in Seq(1 .. Packets)
  BY DEF TypeOK
<1>2. Len(accepted) \in Nat /\ \A i \in 1 .. Len(accepted) : accepted[i] \in 1 .. Packets
  BY <1>1, LenProperties, ElementOfSeq
<1>3. \A i \in 1 .. Len(accepted) : accepted[i] \in Nat
  BY <1>2, SendAssumption
<1> QED
  BY <1>1, <1>2, <1>3, AppendProperties

\* and so is every other.
LEMMA CallServes ==
  ASSUME TypeOK, CallInv, LockInv, NEW t \in Threads, Served(t)
  PROVE  \E all \in Seq(1 .. Packets), n \in Nat, k \in Nat : Serves(t, all, n, k)
<1> USE SendAssumption, NoQueueAssumption
<1>0. Active(t)
  BY DEF Served, Lock, Emit, Fail, Stage, Pass, Pop, Unlock, Ready, Active
<1>1. /\ que[t] \in Queues /\ Live(que[t]) /\ calls \in Nat /\ calls <= Packets
      /\ Owning(t) => pkt[t] \in 1 .. calls /\ pkt[t] \in 1 .. Packets
  BY <1>0 DEF TypeOK, CallInv, Active, Owning, Live, Unreferenced
<1>2. PICK all \in Seq(1 .. Packets) : all = queue[que[t]]
  BY <1>1 DEF TypeOK
<1>3. Len(all) \in Nat
  BY LenProperties
<1>4. /\ queue \in [Queues -> Seq(1 .. Packets)] /\ wire \in Seq(Entries)
      /\ accepted \in Seq(1 .. Packets)
  BY DEF TypeOK, Entries
<1>5. CASE Lock(t) \/ Fail(t) \/ Pop(t) \/ Unlock(t)
  <2>1. CallsAfter(t, 0)
    <3>1. /\ \A u \in Threads : u # t => pc'[u] = pc[u] /\ pkt'[u] = pkt[u] /\ que'[u] = que[u]
          /\ pc'[t] \in {"idle", "send", "done", "cleanup"}
          /\ pc'[t] = "send" => pc[t] = "lock" /\ pkt'[t] = pkt[t]
          /\ pc'[t] \in {"send", "done"} => que'[t] = que[t]
      <4>1. CASE Lock(t)
        BY <4>1 DEF Lock, TypeOK
      <4>2. CASE Fail(t)
        BY <4>2 DEF Fail, TypeOK
      <4>3. CASE Pop(t)
        BY <4>3 DEF Pop, TypeOK
      <4>4. CASE Unlock(t)
        BY <4>4 DEF Unlock, TypeOK
      <4> QED
        BY <1>5, <4>1, <4>2, <4>3, <4>4
    <3>2. Sending(t)' \/ Owning(t)' => pc'[t] = "send"
      BY <3>1 DEF Sending, Owning
    <3>3. pc[t] = "lock" => Sending(t) /\ Owning(t)
      BY DEF Sending, Owning
    <3>4. Active(t)' => pc'[t] \in {"send", "done"}
      BY <3>1 DEF Active
    <3>5. pc'[t] # "copy" /\ ~(0 > 0)
      BY <3>1
    <3> QED
      BY <1>0, <1>1, <3>1, <3>2, <3>3, <3>4, <3>5, Zenon DEF CallsAfter
  <2>2. /\ UNCHANGED <<entry, queue, calls, policy, aged, epoch, home, accepted, wire,
                       discarded, seen>>
        /\ \A u \in Threads : que'[u] = que[u] \/ que'[u] = NoQueue
    BY <1>5 DEF Lock, Fail, Pop, Unlock, TypeOK
  <2>3. Serves(t, all, 0, 0)
    BY <1>0, <1>2, <2>1, <2>2, QuietServes
  <2> QED
    BY <2>3
<1>6. CASE Emit(t)
  <2>1. all # <<>>
    BY <1>1, <1>2, <1>3, <1>6, EmptySeq DEF Emit, LockInv, TypeOK
  <2>2. /\ Head(all) = all[1] /\ Head(all) \in 1 .. Packets
        /\ Tail(all) \in Seq(1 .. Packets) /\ Len(Tail(all)) = Len(all) - 1 /\ Len(all) >= 1
        /\ \A i \in 1 .. Len(all) - 1 : Tail(all)[i] = all[i + 1]
    BY <1>3, <2>1, HeadTailProperties, EmptySeq
  <2>3. PICK rest \in Seq(1 .. Packets) : rest = Tail(all)
    BY <2>2
  <2>4. queue' = [queue EXCEPT ![que[t]] = rest]
    BY <1>2, <1>6, <2>3 DEF Emit
  <2>5. CallsAfter(t, 0) /\ que' = que
    BY <1>0, <1>1, <1>6, SMTT(40) DEF Emit, CallsAfter, Active, Sending, Owning, TypeOK
  <2>6. QueueAfter(t, all, 1, 0)
    <3>1. /\ queue' \in [Queues -> Seq(1 .. Packets)] /\ queue'[que[t]] = rest
          /\ \A q \in Queues : q # que[t] => queue'[q] = queue[q]
      BY <1>1, <1>4, <2>4
    <3>2. \A q \in Queues : Live(q)' => Live(q)
      BY <1>6 DEF Emit, Live, Unreferenced
    <3>3. Len(all) <= Len(all) /\ 1 <= Len(all) /\ \A i \in 1 .. Len(all) : i <= Len(all)
      BY <1>3, <2>2
    <3>4. /\ Len(queue'[que[t]]) = Len(all) - 1
          /\ \A i \in 1 .. Len(all) - 1 : queue'[que[t]][i] = all[i + 1]
      BY <2>2, <2>3, <3>1, Zenon
    <3>5. /\ Len(queue[que[t]]) \in Nat /\ Len(queue[que[t]]) <= Len(all)
          /\ \A i \in 1 .. Len(all) : i <= Len(queue[que[t]]) /\ all[i] = queue[que[t]][i]
          /\ \A i \in 1 .. Len(queue[que[t]]) : all[i] = queue[que[t]][i]
      BY <1>2, <1>3, <3>3, Zenon
    <3> QED
      BY <1>1, <1>3, <3>1, <3>2, <3>3, <3>4, <3>5, Zenon DEF QueueAfter
  <2>7. WireAfter(t, all, 1, 0)
    <3>1. PICK p \in 1 .. Packets : p = all[1] /\ Transmit(p)
      BY <1>2, <1>6, <2>2 DEF Emit
    <3>2. /\ wire' \in Seq(Entries) /\ Len(wire) \in Nat /\ Len(wire') = Len(wire) + 1
          /\ \A i \in 1 .. Len(wire) : wire'[i] = wire[i]
          /\ wire'[Len(wire) + 1] = <<p, epoch>>
      BY <3>1, Transmitted
    <3>3. /\ Len(wire) + 0 + 1 = Len(wire) + 1 /\ (\A i \in 1 .. 1 : i = 1)
          /\ \A i : i \notin Len(wire) + 1 .. Len(wire) + 0
      BY <3>2
    <3> QED
      BY <3>1, <3>2, <3>3 DEF WireAfter
  <2>8. AcceptedAfter(t, all, 0)
    <3>1. accepted' = accepted
      BY <1>6 DEF Emit
    <3>2. Len(accepted) \in Nat /\ \A i \in 1 .. Len(accepted) : accepted[i] \in 1 .. Packets
      BY <1>4, LenProperties, ElementOfSeq
    <3> QED
      BY <1>2, <1>4, <3>1, <3>2 DEF AcceptedAfter
  <2>9. Serves(t, all, 1, 0)
    BY <1>6, <2>5, <2>6, <2>7, <2>8 DEF Serves, Emit
  <2> QED
    BY <2>9
<1>7. CASE Stage(t)
  <2>0. pc[t] = "send" /\ pkt[t] \in 1 .. Packets
    BY <1>1, <1>7 DEF Stage, Ready, Owning
  <2>1. PICK p \in 1 .. Packets : p = pkt[t]
    BY <2>0
  <2>2. PICK big \in Seq(1 .. Packets) : /\ big = Append(all, p) /\ Len(big) = Len(all) + 1
                                         /\ \A i \in 1 .. Len(all) : big[i] = all[i]
                                         /\ big[Len(all) + 1] = p
    <3>1. /\ Append(all, p) \in Seq(1 .. Packets) /\ Len(Append(all, p)) = Len(all) + 1
          /\ \A i \in 1 .. Len(all) : Append(all, p)[i] = all[i]
          /\ Append(all, p)[Len(all) + 1] = p
      BY AppendProperties
    <3> QED
      BY <3>1, Zenon
  <2>3. queue' = [queue EXCEPT ![que[t]] = big]
    BY <1>2, <1>7, <2>1, <2>2 DEF Stage, Staged
  <2>4. CallsAfter(t, 0) /\ que' = que /\ Sending(t) /\ ~Sending(t)'
    BY <1>0, <1>1, <1>7, SMTT(40) DEF Stage, Ready, CallsAfter, Active, Sending, Owning, TypeOK
  <2>5. QueueAfter(t, big, 0, 0)
    <3>1. /\ queue' \in [Queues -> Seq(1 .. Packets)] /\ queue'[que[t]] = big
          /\ \A q \in Queues : q # que[t] => queue'[q] = queue[q]
      BY <1>1, <1>4, <2>3
    <3>2. \A q \in Queues : Live(q)' => Live(q)
      BY <1>7 DEF Stage, Live, Unreferenced
    <3>3. /\ Len(all) <= Len(big) /\ Len(big) \in Nat /\ 0 <= Len(big) /\ Len(big) = Len(big) - 0
          /\ \A i \in 1 .. Len(big) - 0 : big[i] = big[i + 0]
      BY <1>3, <2>2
    <3>4. \A i \in 1 .. Len(big) : (i <= Len(all) /\ i \in 1 .. Len(all)) \/ i = Len(all) + 1
      BY <1>3, <2>2
    <3>5. ASSUME NEW i \in 1 .. Len(big)
          PROVE  (i <= Len(all) /\ big[i] = all[i]) \/ (i = Len(all) + 1 /\ big[i] = p)
      BY <2>2, <3>4
    <3> QED
      BY <1>1, <1>2, <1>3, <2>1, <2>2, <2>4, <3>1, <3>2, <3>3, <3>5, Zenon DEF QueueAfter
  <2>6. WireAfter(t, big, 0, 0)
    <3>1. wire' = wire /\ Len(wire) \in Nat
      BY <1>4, <1>7, LenProperties DEF Stage
    <3> QED
      BY <1>4, <3>1 DEF WireAfter
  <2>7. AcceptedAfter(t, big, 0)
    <3>1. accepted' = Append(accepted, p)
      BY <1>7, <2>1 DEF Stage
    <3> QED
      BY <1>2, <2>1, <2>2, <2>4, <3>1, Accepted DEF AcceptedAfter
  <2>8. Serves(t, big, 0, 0)
    BY <1>7, <2>4, <2>5, <2>6, <2>7 DEF Serves, Stage
  <2> QED
    BY <2>8
<1>8. CASE Pass(t)
  <2>0. pc[t] = "send" /\ pkt[t] \in 1 .. Packets
    BY <1>1, <1>8 DEF Pass, Ready, Owning
  <2>1. PICK p \in 1 .. Packets : p = pkt[t]
    BY <2>0
  <2>2. CallsAfter(t, 1) /\ que' = que /\ queue' = queue /\ Sending(t) /\ ~Sending(t)'
    BY <1>0, <1>1, <1>8, SMTT(40) DEF Pass, Ready, CallsAfter, Active, Sending, Owning, TypeOK
  <2>3. QueueAfter(t, all, 0, 1)
    <3>1. \A q \in Queues : Live(q)' => Live(q)
      BY <1>8 DEF Pass, Live, Unreferenced
    <3>2. /\ Len(all) <= Len(all) /\ 0 <= Len(all) /\ Len(all) = Len(all) - 0
          /\ \A i \in 1 .. Len(all) - 0 : all[i] = all[i + 0]
          /\ \A i \in 1 .. Len(all) : i <= Len(all)
      BY <1>3
    <3> QED
      BY <1>1, <1>2, <1>3, <1>4, <2>2, <3>1, <3>2, Zenon DEF QueueAfter
  <2>4. WireAfter(t, all, 0, 1)
    <3>1. Transmit(p)
      BY <1>8, <2>1 DEF Pass
    <3>2. /\ wire' \in Seq(Entries) /\ Len(wire) \in Nat /\ Len(wire') = Len(wire) + 1
          /\ \A i \in 1 .. Len(wire) : wire'[i] = wire[i]
          /\ wire'[Len(wire) + 1] = <<p, epoch>>
      BY <3>1, Transmitted
    <3>3. /\ Len(wire) + 1 + 0 = Len(wire) + 1
          /\ \A i \in Len(wire) + 1 .. Len(wire) + 1 : i = Len(wire) + 1
          /\ \A i : i \notin 1 .. 0
      BY <3>2
    <3> QED
      BY <2>1, <3>2, <3>3 DEF WireAfter
  <2>5. AcceptedAfter(t, all, 1)
    <3>1. accepted' = Append(accepted, p)
      BY <1>8, <2>1 DEF Pass
    <3> QED
      BY <2>1, <2>2, <3>1, Accepted DEF AcceptedAfter
  <2>6. Serves(t, all, 0, 1)
    BY <1>8, <2>2, <2>3, <2>4, <2>5 DEF Serves, Pass
  <2> QED
    BY <2>6
<1> QED
  BY <1>5, <1>6, <1>7, <1>8 DEF Served

-----------------------------------------------------------------------------
(* The types, the calls, the locks and the window.                         *)

\* A call that begins gets the queue in the map, or an empty one nobody refers to.
LEMMA LookedUp ==
  ASSUME TypeOK, CallInv, LockInv, NEW t \in Threads, LookUp(t)
  PROVE  \E q \in Queues : /\ que' = [que EXCEPT ![t] = q] /\ entry' = q
                           /\ \/ queue' = queue /\ entry = q
                              \/ /\ queue' = [queue EXCEPT ![q] = <<>>] /\ entry = NoQueue
                                 /\ Unreferenced(q) /\ due[q] = 0
<1>1. CASE entry # NoQueue
  <2>1. entry \in Queues
    BY <1>1 DEF TypeOK
  <2> QED
    BY <1>1, <2>1 DEF LookUp
<1>2. CASE entry = NoQueue
  <2>0. \E x \in Queues : Unreferenced(x)
    BY <1>2, QueueFree DEF LookUp
  <2>1. PICK q : q = CHOOSE x \in Queues : Unreferenced(x)
    OBVIOUS
  <2>2. q \in Queues /\ Unreferenced(q)
    BY <2>0, <2>1
  <2>3. due[q] = 0
    <3>1. ~(due[q] > 0)
      BY <2>2 DEF LockInv, Unreferenced
    <3>2. due[q] \in Nat
      BY <2>2 DEF TypeOK
    <3> QED
      BY <3>1, <3>2
  <2> QED
    BY <1>2, <2>1, <2>2, <2>3 DEF LookUp
<1> QED
  BY <1>1, <1>2

\* Steps of a call keep the types, and what calls have.
LEMMA ServedTypes ==
  ASSUME TypeOK, CallInv, LockInv, NEW t \in Threads, Served(t)
  PROVE  TypeOK' /\ CallInv'
<1> USE SendAssumption, NoQueueAssumption
<1>1. PICK all \in Seq(1 .. Packets), n \in Nat, k \in Nat : Serves(t, all, n, k)
  BY CallServes
<1>2. /\ queue' \in [Queues -> Seq(1 .. Packets)] /\ wire' \in Seq(Entries)
      /\ accepted' \in Seq(1 .. Packets) /\ que[t] \in Queues /\ Active(t)
      /\ Owning(t) => pkt[t] \in 1 .. Packets
      /\ UNCHANGED <<entry, calls, policy, aged, epoch, home, discarded, seen>>
  <2>1. Owning(t) => pkt[t] \in 1 .. Packets
    BY <1>1 DEF Serves, CallsAfter
  <2> QED
    BY <1>1, <2>1 DEF Serves, QueueAfter, WireAfter, AcceptedAfter, CallsAfter
<1>3. pc' \in [Threads -> {"idle", "lock", "send", "copy", "done", "cleanup"}]
  <2>1. \E x \in {"send", "copy", "done", "cleanup", "idle"} : pc' = [pc EXCEPT ![t] = x] \/ pc' = pc
    BY DEF Served, Lock, Emit, Fail, Stage, Pass, Pop, Unlock
  <2> QED
    BY <2>1 DEF TypeOK
<1>4. /\ que' \in [Threads -> Queues \cup {NoQueue}] /\ pkt' \in [Threads -> 0 .. Packets]
      /\ que' = que \/ que' = [que EXCEPT ![t] = NoQueue]
  <2>1. que' = que \/ que' = [que EXCEPT ![t] = que[t]] \/ que' = [que EXCEPT ![t] = NoQueue]
    BY DEF Served, Lock, Emit, Fail, Stage, Pass, Pop, Unlock
  <2>2. pkt' = pkt \/ pkt' = [pkt EXCEPT ![t] = 0]
    BY DEF Served, Lock, Emit, Fail, Stage, Pass, Pop, Unlock
  <2>3. 0 \in 0 .. Packets
    OBVIOUS
  <2>4. que = [que EXCEPT ![t] = que[t]]
    BY DEF TypeOK
  <2>5. pkt' \in [Threads -> 0 .. Packets]
    BY <2>2, <2>3 DEF TypeOK
  <2> QED
    BY <2>1, <2>4, <2>5 DEF TypeOK
<1>5. faults' \in [Threads -> BOOLEAN]
  <2>1. \E x \in BOOLEAN : faults' = faults \/ faults' = [faults EXCEPT ![t] = x]
    BY DEF Served, Lock, Emit, Fail, Stage, Pass, Pop, Unlock, TypeOK
  <2> QED
    BY <2>1 DEF TypeOK
<1>6. more' \in [Threads -> 0 .. MaxDup] /\ asked' \in [1 .. Packets -> 0 .. MaxDup]
  <2>1. CASE Pass(t)
    <3>1. PICK x \in Copies(t) : /\ more' = [more EXCEPT ![t] = x]
                                 /\ asked' = [asked EXCEPT ![pkt[t]] = x]
      BY <2>1 DEF Pass
    <3>2. x \in 0 .. MaxDup
      BY DEF Copies
    <3> QED
      BY <3>1, <3>2 DEF TypeOK
  <2>2. CASE ~Pass(t)
    <3>1. more' = more /\ asked' = asked
      BY <2>2 DEF Served, Lock, Emit, Fail, Stage, Pop, Unlock
    <3> QED
      BY <3>1 DEF TypeOK
  <2> QED
    BY <2>1, <2>2
<1>7. due' \in [Queues -> Nat]
  <2>0. queue[que[t]] \in Seq(1 .. Packets)
    BY <1>2 DEF TypeOK
  <2>1. CASE Lock(t)
    <3>1. PICK d \in Nat : due' = [due EXCEPT ![que[t]] = d]
      <4>1. ExpiredCount(queue[que[t]]) \in Nat
        BY <2>0, ExpiredPrefix, LenProperties
      <4> QED
        BY <2>1, <4>1 DEF Lock
    <3> QED
      BY <3>1 DEF TypeOK
  <2>2. CASE Emit(t)
    <3>1. due' = [due EXCEPT ![que[t]] = due[que[t]] - 1] /\ due[que[t]] > 0
      BY <2>2 DEF Emit
    <3>2. due \in [Queues -> Nat] /\ due[que[t]] \in Nat
      BY <1>2 DEF TypeOK
    <3>3. PICK d \in Nat : d = due[que[t]] - 1
      BY <3>1, <3>2
    <3>4. due' = [due EXCEPT ![que[t]] = d]
      BY <3>1, <3>3
    <3> QED
      BY <1>2, <3>2, <3>4
  <2>3. CASE Stage(t)
    <3>1. PICK d \in Nat : due' = [due EXCEPT ![que[t]] = d]
      <4>1. PICK p \in 1 .. Packets : p = pkt[t]
        BY <1>2, <2>3 DEF Stage, Ready, Owning
      <4>2. Len(Staged(t)) \in Nat
        BY <2>0, <4>1, AppendProperties, LenProperties DEF Staged
      <4>3. Limit \in Nat
        BY DEF Limit
      <4>4. PICK d : d = IF Len(Staged(t)) > Limit THEN Len(Staged(t)) - Limit ELSE 0
        OBVIOUS
      <4>5. d \in Nat
        BY <4>2, <4>3, <4>4
      <4> QED
        BY <2>3, <4>4, <4>5 DEF Stage
    <3> QED
      BY <3>1 DEF TypeOK
  <2>4. CASE Pop(t)
    BY <2>4 DEF Pop, TypeOK
  <2>5. CASE Fail(t) \/ Pass(t) \/ Unlock(t)
    BY <2>5 DEF Fail, Pass, Unlock, TypeOK
  <2> QED
    BY <2>1, <2>2, <2>3, <2>4, <2>5 DEF Served
<1>8. TypeOK'
  BY <1>2, <1>3, <1>4, <1>5, <1>6, <1>7 DEF TypeOK, Entries
<1>9. CallInv'
  <2>1. \A u \in Threads : u # t => pc'[u] = pc[u] /\ pkt'[u] = pkt[u] /\ que'[u] = que[u]
    BY <1>1 DEF Serves, CallsAfter
  <2>2. Owning(t)' => pkt'[t] \in 1 .. calls
    BY <1>1 DEF Serves, CallsAfter
  <2>3. pc'[t] = "idle" <=> que'[t] = NoQueue
    <3>1. que[t] # NoQueue
      BY <1>2
    <3> QED
      BY <3>1, SMTT(40) DEF Served, Lock, Emit, Fail, Stage, Pass, Pop, Unlock, Ready, TypeOK
  <2>4. calls' = calls
    BY <1>2
  <2>5. ASSUME NEW u \in Threads
        PROVE  (pc'[u] = "idle" <=> que'[u] = NoQueue) /\ (Owning(u)' => pkt'[u] \in 1 .. calls')
    <3>1. CASE u = t
      BY <2>2, <2>3, <2>4, <3>1
    <3>2. CASE u # t
      BY <2>1, <2>4, <3>2 DEF CallInv, Owning
    <3> QED
      BY <3>1, <3>2
  <2> QED
    BY <2>5 DEF CallInv
<1> QED
  BY <1>8, <1>9

\* Nothing of a queue is due while no call sends from it.
LEMMA NothingDue ==
  ASSUME TypeOK, LockInv, NEW q \in Queues,
         \A u \in Threads : pc[u] \in {"send", "done"} => que[u] # q
  PROVE  due[q] = 0
<1>1. ~(due[q] > 0)
  BY DEF LockInv
<1>2. due[q] \in Nat
  BY DEF TypeOK
<1> QED
  BY <1>1, <1>2

\* What a step of a call makes due.
DueAfter(t) ==
  /\ due' \in [Queues -> Nat]
  /\ \A q \in Queues : q # que[t] => due'[q] = due[q]
  /\ due'[que[t]] <= Len(queue'[que[t]])
  /\ due'[que[t]] > 0 => pc'[t] \in {"send", "done"}
  /\ Len(queue[que[t]]) - due[que[t]] <= Limit => Len(queue'[que[t]]) - due'[que[t]] <= Limit

\* No more than the queue has, and what exceeds the window.
LEMMA ServedDue ==
  ASSUME TypeOK, TypeOK', CallInv, LockInv, NEW t \in Threads, Served(t)
  PROVE  DueAfter(t)
<1> USE SendAssumption, NoQueueAssumption
<1>1. PICK all \in Seq(1 .. Packets), n \in Nat, k \in Nat : Serves(t, all, n, k)
  BY CallServes
<1>2. que[t] \in Queues /\ Active(t) /\ (Owning(t) => pkt[t] \in 1 .. Packets)
  <2>1. Owning(t) => pkt[t] \in 1 .. Packets
    BY <1>1 DEF Serves, CallsAfter
  <2> QED
    BY <1>1, <2>1 DEF Serves, QueueAfter, CallsAfter
<1>3. due' \in [Queues -> Nat] /\ \A q \in Queues : q # que[t] => due'[q] = due[q]
  <2>1. due' \in [Queues -> Nat] /\ due \in [Queues -> Nat]
    BY DEF TypeOK
  <2>2. \E d : due' = [due EXCEPT ![que[t]] = d] \/ due' = due
    BY DEF Served, Lock, Emit, Fail, Stage, Pass, Pop, Unlock
  <2> QED
    BY <2>1, <2>2
<1>4. PICK q \in Seq(1 .. Packets) : q = queue[que[t]]
  BY <1>2 DEF TypeOK
<1>5. PICK l \in Nat : l = Len(q)
  BY LenProperties
<1>6. PICK d \in Nat : d = due[que[t]] /\ d <= l
  BY <1>2, <1>4, <1>5 DEF TypeOK, LockInv
<1>7. Limit \in Nat /\ Limit >= 1
  BY DEF Limit
<1>8. SUFFICES /\ due'[que[t]] <= Len(queue'[que[t]])
               /\ due'[que[t]] > 0 => pc'[t] \in {"send", "done"}
               /\ l - d <= Limit => Len(queue'[que[t]]) - due'[que[t]] <= Limit
  BY <1>3, <1>4, <1>5, <1>6 DEF DueAfter
<1>9. CASE Lock(t)
  <2>1. PICK x \in Nat : /\ x <= l /\ due'[que[t]] = x
    <3>1. ExpiredCount(q) \in Nat /\ ExpiredCount(q) <= l
      BY <1>5, ExpiredPrefix
    <3> QED
      BY <1>2, <1>4, <1>9, <3>1 DEF Lock, TypeOK
  <2>2. queue'[que[t]] = q /\ pc'[t] = "send"
    BY <1>4, <1>9 DEF Lock, TypeOK
  <2>3. d = 0
    <3>1. \A u \in Threads : pc[u] \in {"send", "done"} => que[u] # que[t]
      BY <1>9 DEF Lock, Holds
    <3> QED
      BY <1>2, <1>6, <3>1, NothingDue
  <2> QED
    BY <1>5, <1>7, <2>1, <2>2, <2>3
<1>10. CASE Emit(t)
  <2>1. due'[que[t]] = d - 1 /\ d > 0 /\ pc'[t] = pc[t] /\ pc[t] \in {"send", "done"}
    BY <1>2, <1>6, <1>10 DEF Emit, TypeOK
  <2>2. Len(queue'[que[t]]) = l - 1
    <3>1. q # <<>>
      BY <1>5, <1>6, <2>1, EmptySeq
    <3>2. queue'[que[t]] = Tail(q)
      BY <1>2, <1>4, <1>10 DEF Emit, TypeOK
    <3> QED
      BY <1>5, <3>1, <3>2, HeadTailProperties
  <2>3. d - 1 <= l - 1 /\ (l - d <= Limit => (l - 1) - (d - 1) <= Limit)
    BY <1>6, <1>7
  <2>4. due'[que[t]] <= Len(queue'[que[t]])
    BY <2>1, <2>2, <2>3
  <2>5. l - d <= Limit => Len(queue'[que[t]]) - due'[que[t]] <= Limit
    BY <2>1, <2>2, <2>3
  <2>6. pc'[t] \in {"send", "done"}
    BY <2>1
  <2> QED
    BY <2>4, <2>5, <2>6
<1>11. CASE Stage(t)
  <2>1. PICK p \in 1 .. Packets : p = pkt[t]
    BY <1>2, <1>11 DEF Stage, Ready, Owning
  <2>2. PICK big : big = Append(q, p) /\ Len(big) = l + 1
    BY <1>5, AppendProperties
  <2>3. Staged(t) = big
    BY <1>4, <2>1, <2>2 DEF Staged
  <2>4. PICK x : x = IF Len(big) > Limit THEN Len(big) - Limit ELSE 0
    OBVIOUS
  <2>5. /\ queue' = [queue EXCEPT ![que[t]] = big] /\ pc' = [pc EXCEPT ![t] = "done"]
        /\ due' = [due EXCEPT ![que[t]] = x]
    BY <1>11, <2>3, <2>4, Zenon DEF Stage
  <2>6. queue'[que[t]] = big /\ pc'[t] = "done" /\ due'[que[t]] = x
    BY <1>2, <2>5 DEF TypeOK
  <2>7. x \in Nat /\ x <= l + 1 /\ (l + 1) - x <= Limit
    BY <1>7, <2>2, <2>4
  <2>8. Len(queue'[que[t]]) = l + 1
    BY <2>2, <2>6
  <2>9. due'[que[t]] <= Len(queue'[que[t]])
    BY <2>6, <2>7, <2>8
  <2>10. Len(queue'[que[t]]) - due'[que[t]] <= Limit
    BY <2>6, <2>7, <2>8
  <2>11. pc'[t] \in {"send", "done"}
    BY <2>6
  <2> QED
    BY <2>9, <2>10, <2>11
<1>12. CASE Pop(t)
  <2>1. queue'[que[t]] = q /\ pc'[t] = "done" /\ pc[t] = "copy"
    BY <1>4, <1>12 DEF Pop, TypeOK
  <2>2. due'[que[t]] = IF faults[t] /\ q # <<>> THEN 1 ELSE 0
    BY <1>2, <1>4, <1>12 DEF Pop, TypeOK
  <2>3. d = 0
    <3>1. \A u \in Threads : pc[u] \in {"send", "done"} => que[u] # que[t]
      BY <2>1 DEF LockInv, Holds
    <3> QED
      BY <1>2, <1>6, <3>1, NothingDue
  <2>4. q # <<>> => l >= 1
    BY <1>5, EmptySeq
  <2> QED
    BY <1>5, <1>7, <2>1, <2>2, <2>3, <2>4
<1>13. CASE Fail(t) \/ Pass(t) \/ Unlock(t)
  <2>1. queue' = queue /\ due' = due
    BY <1>13 DEF Fail, Pass, Unlock
  <2>2. d = 0
    BY <1>6, <1>13 DEF Fail, Pass, Unlock, Ready
  <2> QED
    BY <1>4, <1>5, <1>6, <1>7, <2>1, <2>2
<1> QED
  BY <1>9, <1>10, <1>11, <1>12, <1>13 DEF Served

\* Steps of calls keep to the locks and the window.
LEMMA ServedLocks ==
  ASSUME TypeOK, TypeOK', CallInv, LockInv, WithinWindow, NEW t \in Threads, Served(t)
  PROVE  LockInv' /\ WithinWindow'
<1> USE SendAssumption, NoQueueAssumption
<1>1. PICK all \in Seq(1 .. Packets), n \in Nat, k \in Nat : Serves(t, all, n, k)
  BY CallServes
<1>2. DueAfter(t)
  BY ServedDue
<1>3. /\ que[t] \in Queues /\ \A q \in Queues : q # que[t] => queue'[q] = queue[q]
      /\ \A u \in Threads : u # t => pc'[u] = pc[u] /\ que'[u] = que[u]
      /\ Active(t)' => que'[t] = que[t]
  BY <1>1 DEF Serves, QueueAfter, CallsAfter
<1>4. /\ Holds(t)' => que'[t] = que[t]
      /\ Holds(t)' => Holds(t) \/ \A u \in Threads \ {t} : Holds(u) => que[u] # que[t]
  <2>1. Holds(t)' => Active(t)'
    BY DEF Holds, Active
  <2>2. Lock(t) \/ Holds(t)
    BY DEF Served, Emit, Fail, Stage, Pass, Pop, Unlock, Ready, Holds
  <2> QED
    BY <1>3, <2>1, <2>2 DEF Lock
<1>5. ASSUME NEW u \in Threads, NEW v \in Threads, Holds(u)', Holds(v)', que'[u] = que'[v]
      PROVE  u = v
  <2>1. \A x \in Threads : x # t /\ Holds(x)' => Holds(x) /\ que'[x] = que[x]
    BY <1>3 DEF Holds
  <2>2. CASE u # t /\ v # t
    BY <1>5, <2>1, <2>2 DEF LockInv
  <2>3. CASE u = t /\ v # t
    BY <1>4, <1>5, <2>1, <2>3 DEF LockInv
  <2>4. CASE v = t /\ u # t
    BY <1>4, <1>5, <2>1, <2>4 DEF LockInv
  <2> QED
    BY <2>2, <2>3, <2>4
<1>6. ASSUME NEW q \in Queues PROVE due'[q] <= Len(queue'[q])
  BY <1>2, <1>3 DEF DueAfter, LockInv
<1>7. ASSUME NEW q \in Queues, due'[q] > 0
      PROVE  \E u \in Threads : pc'[u] \in {"send", "done"} /\ que'[u] = q
  <2>1. CASE q = que[t]
    <3>1. pc'[t] \in {"send", "done"}
      BY <1>2, <1>7, <2>1 DEF DueAfter
    <3>2. que'[t] = q
      BY <1>3, <2>1, <3>1 DEF Active
    <3> QED
      BY <3>1, <3>2
  <2>2. CASE q # que[t]
    <3>1. PICK u \in Threads : pc[u] \in {"send", "done"} /\ que[u] = q
      BY <1>2, <1>7, <2>2 DEF DueAfter, LockInv
    <3>2. u # t
      BY <2>2, <3>1
    <3> QED
      BY <1>3, <3>1, <3>2
  <2> QED
    BY <2>1, <2>2
<1>8. LockInv'
  BY <1>5, <1>6, <1>7 DEF LockInv
<1>9. ASSUME NEW q \in Queues PROVE Len(queue'[q]) - due'[q] <= Limit
  <2>1. Len(queue[q]) - due[q] <= Limit
    BY DEF WithinWindow
  <2>2. CASE q = que[t]
    BY <1>2, <2>1, <2>2 DEF DueAfter
  <2>3. CASE q # que[t]
    <3>1. queue'[q] = queue[q] /\ due'[q] = due[q]
      BY <1>2, <1>3, <2>3 DEF DueAfter
    <3> QED
      BY <2>1, <3>1
  <2> QED
    BY <2>2, <2>3
<1> QED
  BY <1>8, <1>9 DEF WithinWindow, Limit

\* Every step keeps all of it.
LEMMA TypeStep ==
  ASSUME TypeOK, CallInv, LockInv, WithinWindow, [Next]_vars
  PROVE  TypeOK' /\ CallInv' /\ LockInv' /\ WithinWindow'
<1> USE SendAssumption, NoQueueAssumption
<1>0. Limit \in Nat
  BY DEF Limit
<1>1. CASE UNCHANGED vars
  BY <1>1 DEF vars, TypeOK, CallInv, LockInv, Holds, Owning, WithinWindow, Limit
<1>2. ASSUME NEW t \in Threads, LookUp(t)
      PROVE  TypeOK' /\ CallInv' /\ LockInv' /\ WithinWindow'
  <2>1. /\ calls' = calls + 1 /\ pkt' = [pkt EXCEPT ![t] = calls + 1]
        /\ home' = [home EXCEPT ![calls + 1] = epoch] /\ pc' = [pc EXCEPT ![t] = "lock"]
        /\ calls + 1 \in 1 .. Packets /\ calls \in Nat /\ pc[t] = "idle"
        /\ UNCHANGED <<due, faults, more, policy, aged, epoch, asked, accepted, wire, discarded>>
        /\ seen' \subseteq {"overlap", "policy"}
    <3>1. calls + 1 \in 1 .. Packets /\ calls \in Nat
      <4>1. calls \in 0 .. Packets /\ calls < Packets
        BY <1>2 DEF LookUp, TypeOK
      <4> QED
        BY <4>1
    <3>2. seen' \subseteq {"overlap", "policy"}
      <4>1. seen \subseteq {"overlap", "policy"} /\ (seen' = seen \/ seen' = seen \cup {"overlap"})
        BY <1>2 DEF LookUp, TypeOK
      <4> QED
        BY <4>1
    <3> QED
      BY <1>2, <3>1, <3>2, Zenon DEF LookUp
  <2>2. PICK q \in Queues : /\ que' = [que EXCEPT ![t] = q] /\ entry' = q
                            /\ \/ queue' = queue
                               \/ queue' = [queue EXCEPT ![q] = <<>>] /\ due[q] = 0
    BY <1>2, LookedUp
  <2>3. <<>> \in Seq(1 .. Packets) /\ Len(<<>>) = 0
    BY EmptySeq
  <2>4. queue' \in [Queues -> Seq(1 .. Packets)]
    BY <2>2, <2>3 DEF TypeOK
  <2>5. ASSUME NEW x \in Queues
        PROVE  due'[x] <= Len(queue'[x]) /\ Len(queue'[x]) - due'[x] <= Limit
    <3>1. queue'[x] = queue[x] \/ (queue'[x] = <<>> /\ due[x] = 0)
      BY <2>2 DEF TypeOK
    <3>2. CASE queue'[x] = queue[x]
      BY <2>1, <3>2 DEF LockInv, WithinWindow
    <3>3. CASE queue'[x] = <<>> /\ due[x] = 0
      BY <1>0, <2>1, <2>3, <3>3
    <3> QED
      BY <3>1, <3>2, <3>3
  <2>6. TypeOK'
    <3>1. /\ pc' \in [Threads -> {"idle", "lock", "send", "copy", "done", "cleanup"}]
          /\ que' \in [Threads -> Queues \cup {NoQueue}]
          /\ pkt' \in [Threads -> 0 .. Packets] /\ entry' \in Queues \cup {NoQueue}
      <4>1. pc' \in [Threads -> {"idle", "lock", "send", "copy", "done", "cleanup"}]
        BY <2>1 DEF TypeOK
      <4>2. que' \in [Threads -> Queues \cup {NoQueue}] /\ entry' \in Queues \cup {NoQueue}
        BY <2>2 DEF TypeOK
      <4>3. pkt' \in [Threads -> 0 .. Packets]
        <5>1. PICK c \in 0 .. Packets : c = calls + 1
          BY <2>1
        <5>2. pkt' = [pkt EXCEPT ![t] = c] /\ pkt \in [Threads -> 0 .. Packets]
          BY <2>1, <5>1 DEF TypeOK
        <5> QED
          BY <5>2
      <4> QED
        BY <4>1, <4>2, <4>3
    <3>2. calls' \in 0 .. Packets
      BY <2>1
    <3>3. home' \in [1 .. Packets -> 0 .. MaxEpoch]
      <4>1. home \in [1 .. Packets -> 0 .. MaxEpoch] /\ epoch \in 0 .. MaxEpoch
        BY DEF TypeOK
      <4> QED
        BY <2>1, <4>1
    <3> QED
      BY <3>3, <2>1, <2>4, <3>1, <3>2, Zenon DEF TypeOK
  <2>7. CallInv'
    <3>1. ASSUME NEW u \in Threads, u # t PROVE pc'[u] = pc[u] /\ que'[u] = que[u] /\ pkt'[u] = pkt[u]
      BY <2>1, <2>2, <3>1 DEF TypeOK
    <3>2. pc'[t] = "lock" /\ que'[t] = q /\ pkt'[t] = calls + 1
      BY <2>1, <2>2 DEF TypeOK
    <3>3. ASSUME NEW u \in Threads
          PROVE  /\ pc'[u] = "idle" <=> que'[u] = NoQueue
                 /\ Owning(u)' => pkt'[u] \in 1 .. calls'
      <4>1. CASE u = t
        BY <2>1, <2>2, <3>2, <4>1
      <4>2. CASE u # t
        <5>1. Owning(u)' => Owning(u)
          BY <3>1, <4>2 DEF Owning
        <5>2. Owning(u) => pkt[u] \in 1 .. calls'
          BY <2>1 DEF CallInv
        <5> QED
          BY <3>1, <4>2, <5>1, <5>2 DEF CallInv
      <4> QED
        BY <4>1, <4>2
    <3> QED
      BY <3>3 DEF CallInv
  <2>8. LockInv'
    <3>1. \A u \in Threads : u # t => pc'[u] = pc[u] /\ que'[u] = que[u]
      BY <2>1, <2>2 DEF TypeOK
    <3>2. ~Holds(t)' /\ pc'[t] = "lock"
      BY <2>1 DEF TypeOK, Holds
    <3>3. \A u, v \in Threads : Holds(u)' /\ Holds(v)' /\ que'[u] = que'[v] => u = v
      BY <3>1, <3>2 DEF LockInv, Holds
    <3>4. ASSUME NEW x \in Queues, due'[x] > 0
          PROVE  \E u \in Threads : pc'[u] \in {"send", "done"} /\ que'[u] = x
      <4>1. PICK u \in Threads : pc[u] \in {"send", "done"} /\ que[u] = x
        BY <2>1, <3>4 DEF LockInv
      <4>2. u # t
        BY <2>1, <4>1
      <4> QED
        BY <3>1, <4>1, <4>2
    <3> QED
      BY <2>5, <3>3, <3>4 DEF LockInv
  <2> QED
    BY <2>5, <2>6, <2>7, <2>8 DEF WithinWindow, Limit
<1>3. ASSUME NEW t \in Threads, Served(t)
      PROVE  TypeOK' /\ CallInv' /\ LockInv' /\ WithinWindow'
  BY <1>3, ServedTypes, ServedLocks
<1>4. ASSUME NEW t \in Threads, Copy(t)
      PROVE  TypeOK' /\ CallInv' /\ LockInv' /\ WithinWindow'
  <2>1. PICK p \in 1 .. Packets : p = pkt[t] /\ Transmit(p)
    BY <1>4 DEF Copy, CallInv, Owning, TypeOK
  <2>2. wire' \in Seq(Entries)
    BY <2>1, Transmitted
  <2>3. more' \in [Threads -> 0 .. MaxDup]
    BY <1>4 DEF Copy, TypeOK
  <2>4. UNCHANGED <<entry, queue, due, pc, que, pkt, faults, calls, policy, aged, epoch, home,
                    asked, accepted, discarded, seen>>
    BY <1>4 DEF Copy
  <2>5. TypeOK'
    BY <2>2, <2>3, <2>4 DEF TypeOK, Entries
  <2> QED
    BY <2>4, <2>5 DEF CallInv, LockInv, Holds, Owning, WithinWindow, Limit
<1>5. ASSUME NEW t \in Threads, Cleanup(t)
      PROVE  TypeOK' /\ CallInv' /\ LockInv' /\ WithinWindow'
  <2>1. TypeOK' /\ CallInv' /\ WithinWindow'
    BY <1>5 DEF Cleanup, TypeOK, CallInv, Owning, WithinWindow, Limit
  <2>2. /\ \A u \in Threads : u # t => pc'[u] = pc[u] /\ que'[u] = que[u]
        /\ pc'[t] = "idle" /\ pc[t] = "cleanup" /\ UNCHANGED <<queue, due>>
    BY <1>5 DEF Cleanup, TypeOK
  <2>3. \A u, v \in Threads : Holds(u)' /\ Holds(v)' /\ que'[u] = que'[v] => u = v
    BY <2>2 DEF LockInv, Holds
  <2>4. ASSUME NEW q \in Queues, due'[q] > 0
        PROVE  \E u \in Threads : pc'[u] \in {"send", "done"} /\ que'[u] = q
    <3>1. PICK u \in Threads : pc[u] \in {"send", "done"} /\ que[u] = q
      BY <2>2, <2>4 DEF LockInv
    <3>2. u # t
      BY <2>2, <3>1
    <3> QED
      BY <2>2, <3>1, <3>2
  <2>5. LockInv'
    BY <2>2, <2>3, <2>4 DEF LockInv
  <2> QED
    BY <2>1, <2>5
<1>6. CASE Close
  <2>1. ASSUME entry # NoQueue PROVE Range(queue[entry]) \subseteq 1 .. Packets
    <3>1. queue[entry] \in Seq(1 .. Packets)
      BY <2>1 DEF TypeOK
    <3> QED
      BY <3>1, RangeOfSeq
  <2>2. discarded' \subseteq 1 .. Packets
    BY <1>6, <2>1, Zenon DEF Close, TypeOK
  <2>3. epoch' \in 0 .. MaxEpoch
    BY <1>6 DEF Close, TypeOK
  <2>4. UNCHANGED <<queue, due, pc, que, pkt, faults, more, calls, policy, aged, home, asked,
                    accepted, wire, seen>>
        /\ entry' = NoQueue
    BY <1>6 DEF Close
  <2>5. TypeOK'
    BY <2>2, <2>3, <2>4 DEF TypeOK
  <2> QED
    BY <2>4, <2>5 DEF CallInv, LockInv, Holds, Owning, WithinWindow, Limit
<1>7. CASE TogglePolicy
  BY <1>7 DEF TogglePolicy, TypeOK, CallInv, LockInv, Holds, Owning, WithinWindow, Limit
<1>8. CASE Tick
  <2>1. \A q \in Queues : Range(queue[q]) \subseteq 1 .. Packets
    <3>1. \A q \in Queues : queue[q] \in Seq(1 .. Packets)
      BY DEF TypeOK
    <3> QED
      BY <3>1, RangeOfSeq
  <2>2. UNION {Range(queue[q]) : q \in Queues} \subseteq 1 .. Packets
    BY <2>1
  <2> QED
    BY <1>8, <2>2 DEF Tick, TypeOK, CallInv, LockInv, Holds, Owning, WithinWindow, Limit
<1> QED
  BY <1>1, <1>2, <1>3, <1>4, <1>5, <1>6, <1>7, <1>8 DEF Next, Served

-----------------------------------------------------------------------------
(* Where packets are.                                                      *)

\* Packets of calls that are yet to come are nowhere.
NumberInv ==
  /\ \A q \in Queues : \A i \in 1 .. Len(queue[q]) : queue[q][i] <= calls
  /\ \A i \in 1 .. Len(wire) : wire[i][1] <= calls

\* What is held or being sent belongs to the socket that has the descriptor.
HomeInv ==
  /\ \A q \in Queues : Live(q) => \A i \in 1 .. Len(queue[q]) : home[queue[q][i]] = epoch
  /\ \A t \in Threads : Owning(t) => home[pkt[t]] = epoch
  /\ \A i \in 1 .. Len(wire) : wire[i][2] = home[wire[i][1]]

\* A packet is at one place: with its call, in one queue at one position, or on the wire,
\* where its copies follow it.
PlaceInv ==
  /\ \A t, u \in Threads : Owning(t) /\ Owning(u) /\ pkt[t] = pkt[u] => t = u
  /\ \A q \in Queues : Live(q) =>
       \A i \in 1 .. Len(queue[q]) : \A t \in Threads : Sending(t) => queue[q][i] # pkt[t]
  /\ \A q, r \in Queues : Live(q) /\ Live(r) =>
       \A i \in 1 .. Len(queue[q]), j \in 1 .. Len(queue[r]) :
         queue[q][i] = queue[r][j] => q = r /\ i = j
  /\ \A m \in 1 .. Len(wire) : \A t \in Threads : Sending(t) => wire[m][1] # pkt[t]
  /\ \A m \in 1 .. Len(wire) : \A q \in Queues : Live(q) =>
       \A i \in 1 .. Len(queue[q]) : wire[m][1] # queue[q][i]
  /\ \A t \in Threads : pc[t] = "copy" => \E m \in 1 .. Len(wire) : wire[m][1] = pkt[t]

\* What the step of a call handles is at no other place.
Apart(t, all, k) ==
  /\ \A i, j \in 1 .. Len(all) : all[i] = all[j] => i = j
  /\ \A i \in 1 .. Len(all) : /\ all[i] <= calls /\ home[all[i]] = epoch
                              /\ k > 0 \/ Sending(t)' => all[i] # pkt[t]
  /\ \A i \in 1 .. Len(all), u \in Threads : u # t /\ Sending(u) => all[i] # pkt[u]
  /\ \A i \in 1 .. Len(all), q \in Queues : q # que[t] /\ Live(q) =>
       \A j \in 1 .. Len(queue[q]) : all[i] # queue[q][j]
  /\ \A i \in 1 .. Len(all), m \in 1 .. Len(wire) : wire[m][1] # all[i]

\* It comes from its queue, or from its call.
LEMMA ServedApart ==
  ASSUME TypeOK, NumberInv, HomeInv, PlaceInv, NEW t \in Threads, NEW all \in Seq(1 .. Packets),
         NEW n \in Nat, NEW k \in Nat,
         QueueAfter(t, all, n, k), CallsAfter(t, k)
  PROVE  Apart(t, all, k)
<1>1. /\ que[t] \in Queues /\ Live(que[t])
      /\ Len(queue[que[t]]) \in Nat /\ Len(all) \in Nat
  BY DEF QueueAfter
<1>2. /\ Sending(t) => Owning(t) /\ pkt[t] \in 1 .. calls
      /\ calls \in Nat /\ (k > 0 => Sending(t)) /\ (Sending(t)' => Sending(t))
  BY DEF CallsAfter, Sending, Owning
<1>3. PICK l \in Nat : l = Len(queue[que[t]])
  BY <1>1
<1>4. ASSUME NEW i \in 1 .. Len(all)
      PROVE  \/ i \in 1 .. l /\ all[i] = queue[que[t]][i]
             \/ i = l + 1 /\ all[i] = pkt[t] /\ k = 0 /\ Sending(t) /\ ~Sending(t)'
  BY <1>1, <1>3 DEF QueueAfter
<1>5. ASSUME NEW i \in 1 .. Len(all), NEW j \in 1 .. Len(all), all[i] = all[j] PROVE i = j
  <2>1. \A a, b \in 1 .. l : queue[que[t]][a] = queue[que[t]][b] => a = b
    BY <1>1, <1>3, SMTT(40) DEF PlaceInv
  <2>2. Sending(t) => \A a \in 1 .. l : queue[que[t]][a] # pkt[t]
    BY <1>1, <1>2, <1>3 DEF PlaceInv
  <2> QED
    BY <1>4, <1>5, <2>1, <2>2
<1>6. ASSUME NEW i \in 1 .. Len(all)
      PROVE  /\ all[i] <= calls /\ home[all[i]] = epoch
             /\ k > 0 \/ Sending(t)' => all[i] # pkt[t]
  <2>1. \A a \in 1 .. l : /\ Sending(t) => queue[que[t]][a] # pkt[t]
                          /\ queue[que[t]][a] <= calls
                          /\ home[queue[que[t]][a]] = epoch
    BY <1>1, <1>2, <1>3 DEF PlaceInv, NumberInv, HomeInv
  <2>2. Sending(t) => pkt[t] <= calls /\ home[pkt[t]] = epoch
    BY <1>2 DEF HomeInv
  <2> QED
    BY <1>2, <1>4, <2>1, <2>2
<1>7. ASSUME NEW i \in 1 .. Len(all), NEW u \in Threads, u # t, Sending(u)
      PROVE  all[i] # pkt[u]
  <2>1. \A a \in 1 .. l : queue[que[t]][a] # pkt[u]
    BY <1>1, <1>3, <1>7 DEF PlaceInv
  <2>2. Sending(t) => pkt[t] # pkt[u]
    BY <1>2, <1>7 DEF PlaceInv, Owning, Sending
  <2> QED
    BY <1>4, <2>1, <2>2
<1>8. ASSUME NEW i \in 1 .. Len(all), NEW q \in Queues, q # que[t], Live(q),
             NEW j \in 1 .. Len(queue[q])
      PROVE  all[i] # queue[q][j]
  <2>1. \A a \in 1 .. l : queue[que[t]][a] # queue[q][j]
    BY <1>1, <1>3, <1>8 DEF PlaceInv
  <2>2. Sending(t) => pkt[t] # queue[q][j]
    BY <1>2, <1>8 DEF PlaceInv
  <2> QED
    BY <1>4, <2>1, <2>2
<1>9. ASSUME NEW i \in 1 .. Len(all), NEW m \in 1 .. Len(wire) PROVE wire[m][1] # all[i]
  <2>1. \A a \in 1 .. l : wire[m][1] # queue[que[t]][a]
    BY <1>1, <1>3 DEF PlaceInv
  <2>2. Sending(t) => wire[m][1] # pkt[t]
    BY <1>2 DEF PlaceInv
  <2> QED
    BY <1>4, <2>1, <2>2
<1> QED
  BY <1>5, <1>6, <1>7, <1>8, <1>9, Zenon DEF Apart

\* Such a step keeps every packet at one place and on its own socket.
LEMMA ServedInPlace ==
  ASSUME TypeOK, NumberInv, HomeInv, PlaceInv,
         NEW t \in Threads, NEW all \in Seq(1 .. Packets),
         NEW n \in Nat, NEW k \in Nat, Serves(t, all, n, k)
  PROVE  NumberInv' /\ HomeInv' /\ PlaceInv'
<1>0. QueueAfter(t, all, n, k) /\ WireAfter(t, all, n, k) /\ CallsAfter(t, k)
  BY DEF Serves
<1>1. Apart(t, all, k)
  BY <1>0, ServedApart
<1>2. calls' = calls /\ home' = home /\ epoch' = epoch
  BY DEF Serves
<1>3. PICK w \in Nat : w = Len(wire) /\ Len(wire') = w + k + n
  BY <1>0 DEF WireAfter
<1>4. PICK a \in Nat : a = Len(all) /\ n <= a
  BY <1>0 DEF QueueAfter
<1>5. calls \in Nat /\ (k > 0 => Sending(t) /\ Owning(t) /\ pkt[t] \in 1 .. calls)
  BY <1>0 DEF CallsAfter, Sending, Owning
\* Where an entry of the wire comes from.
<1>6. ASSUME NEW m \in 1 .. w + k + n
      PROVE  \/ m \in 1 .. w /\ wire'[m] = wire[m]
             \/ m \in w + 1 .. w + k /\ k > 0 /\ wire'[m] = <<pkt[t], epoch>>
             \/ \E i \in 1 .. n : m = w + k + i /\ i \in 1 .. a /\ wire'[m] = <<all[i], epoch>>
  <2>1. CASE m \in 1 .. w
    BY <1>0, <1>3, <2>1 DEF WireAfter
  <2>2. CASE m \in w + 1 .. w + k
    BY <1>0, <1>3, <2>2 DEF WireAfter
  <2>3. CASE m - (w + k) \in 1 .. n
    <3>1. PICK i \in 1 .. n : i = m - (w + k)
      BY <2>3
    <3>2. wire'[Len(wire) + k + i] = <<all[i], epoch>>
      BY <1>0, Zenon DEF WireAfter
    <3>3. m = w + k + i /\ i \in 1 .. a
      BY <1>4, <3>1
    <3>4. wire'[m] = <<all[i], epoch>>
      BY <1>3, <3>2, <3>3, Zenon
    <3> QED
      BY <3>3, <3>4
  <2> QED
    BY <2>1, <2>2, <2>3, SMTT(40)
\* Where a held packet comes from.
<1>7. ASSUME NEW q \in Queues, NEW i \in 1 .. Len(queue'[q])
      PROVE  \/ q # que[t] /\ i \in 1 .. Len(queue[q]) /\ queue'[q][i] = queue[q][i]
             \/ /\ q = que[t] /\ i + n \in n + 1 .. a /\ i + n \in 1 .. a
                /\ queue'[q][i] = all[i + n]
  <2>1. CASE q # que[t]
    BY <1>0, <2>1 DEF QueueAfter
  <2>2. CASE q = que[t]
    <3>1. i \in 1 .. a - n
      BY <1>0, <1>4, <2>2 DEF QueueAfter
    <3>2. queue'[q][i] = all[i + n]
      BY <1>0, <1>4, <2>2, <3>1 DEF QueueAfter
    <3> QED
      BY <1>4, <2>2, <3>1, <3>2
  <2> QED
    BY <2>1, <2>2
<1>8. \A q \in Queues : Live(q)' => Live(q)
  BY <1>0 DEF QueueAfter
<1>9. /\ \A u \in Threads : Sending(u)' => Sending(u) /\ pkt'[u] = pkt[u]
      /\ \A u \in Threads : Owning(u)' => Owning(u) /\ pkt'[u] = pkt[u]
  BY <1>0 DEF CallsAfter, Sending, Owning
<1>10. k > 0 => ~Sending(t)'
  BY <1>0 DEF CallsAfter
<1>11. \A i, j \in 1 .. a : all[i] = all[j] => i = j
  BY <1>1, <1>4 DEF Apart
<1>12. \A i \in 1 .. a : /\ all[i] <= calls /\ home[all[i]] = epoch
                         /\ k > 0 \/ Sending(t)' => all[i] # pkt[t]
  BY <1>1, <1>4 DEF Apart
<1>13. \A i \in 1 .. a, u \in Threads : Sending(u)' => all[i] # pkt[u]
  BY <1>1, <1>4, <1>9, <1>12 DEF Apart
<1>14. \A i \in 1 .. a, q \in Queues : q # que[t] /\ Live(q) =>
         \A j \in 1 .. Len(queue[q]) : all[i] # queue[q][j]
  BY <1>1, <1>4 DEF Apart
<1>15. \A i \in 1 .. a, m \in 1 .. w : wire[m][1] # all[i]
  BY <1>1, <1>3, <1>4 DEF Apart
<1>16. NumberInv'
  <2>1. ASSUME NEW q \in Queues, NEW i \in 1 .. Len(queue'[q]) PROVE queue'[q][i] <= calls
    BY <1>7, <1>12, <2>1 DEF NumberInv
  <2>2. ASSUME NEW m \in 1 .. w + k + n PROVE wire'[m][1] <= calls
    <3>1. CASE m \in 1 .. w /\ wire'[m] = wire[m]
      BY <1>3, <3>1 DEF NumberInv
    <3>2. CASE k > 0 /\ wire'[m] = <<pkt[t], epoch>>
      BY <1>5, <3>2
    <3>3. CASE \E i \in 1 .. n : i \in 1 .. a /\ wire'[m] = <<all[i], epoch>>
      BY <1>12, <3>3
    <3> QED
      BY <1>6, <3>1, <3>2, <3>3
  <2> QED
    BY <1>2, <1>3, <2>1, <2>2 DEF NumberInv
<1>17. HomeInv'
  <2>1. ASSUME NEW q \in Queues, Live(q)', NEW i \in 1 .. Len(queue'[q])
        PROVE  home[queue'[q][i]] = epoch
    <3>1. CASE q # que[t] /\ i \in 1 .. Len(queue[q]) /\ queue'[q][i] = queue[q][i]
      <4>1. Live(q)
        BY <1>8, <2>1
      <4>2. home[queue[q][i]] = epoch
        BY <3>1, <4>1 DEF HomeInv
      <4> QED
        BY <3>1, <4>2
    <3>2. CASE i + n \in 1 .. a /\ queue'[q][i] = all[i + n]
      BY <1>12, <3>2
    <3> QED
      BY <1>7, <2>1, <3>1, <3>2
  <2>2. ASSUME NEW m \in 1 .. w + k + n PROVE wire'[m][2] = home[wire'[m][1]]
    <3>1. CASE m \in 1 .. w /\ wire'[m] = wire[m]
      BY <1>3, <3>1 DEF HomeInv
    <3>2. CASE k > 0 /\ wire'[m] = <<pkt[t], epoch>>
      BY <1>5, <3>2 DEF HomeInv
    <3>3. CASE \E i \in 1 .. n : i \in 1 .. a /\ wire'[m] = <<all[i], epoch>>
      BY <1>12, <3>3
    <3> QED
      BY <1>6, <3>1, <3>2, <3>3
  <2>3. ASSUME NEW u \in Threads, Owning(u)' PROVE home[pkt'[u]] = epoch
    BY <1>9, <2>3 DEF HomeInv
  <2> QED
    BY <1>2, <1>3, <2>1, <2>2, <2>3 DEF HomeInv
<1>18. PlaceInv'
  <2>1. ASSUME NEW u \in Threads, NEW v \in Threads, Owning(u)', Owning(v)', pkt'[u] = pkt'[v]
        PROVE  u = v
    BY <1>9, <2>1 DEF PlaceInv
  <2>2. ASSUME NEW q \in Queues, Live(q)', NEW i \in 1 .. Len(queue'[q]),
               NEW u \in Threads, Sending(u)'
        PROVE  queue'[q][i] # pkt'[u]
    <3>1. CASE q # que[t] /\ i \in 1 .. Len(queue[q]) /\ queue'[q][i] = queue[q][i]
      BY <1>8, <1>9, <2>2, <3>1 DEF PlaceInv
    <3>2. CASE i + n \in 1 .. a /\ queue'[q][i] = all[i + n]
      BY <1>9, <1>13, <2>2, <3>2
    <3> QED
      BY <1>7, <3>1, <3>2
  <2>3. ASSUME NEW q \in Queues, NEW r \in Queues, Live(q)', Live(r)',
               NEW i \in 1 .. Len(queue'[q]), NEW j \in 1 .. Len(queue'[r]),
               queue'[q][i] = queue'[r][j]
        PROVE  q = r /\ i = j
    <3>1. Live(q) /\ Live(r)
      BY <1>8, <2>3
    <3>2. CASE q # que[t] /\ r # que[t]
      <4>1. /\ i \in 1 .. Len(queue[q]) /\ queue'[q][i] = queue[q][i]
            /\ j \in 1 .. Len(queue[r]) /\ queue'[r][j] = queue[r][j]
        BY <1>7, <3>2
      <4>2. queue[q][i] = queue[r][j]
        BY <2>3, <4>1
      <4>3. \A x \in 1 .. Len(queue[q]), y \in 1 .. Len(queue[r]) :
              queue[q][x] = queue[r][y] => q = r /\ x = y
        BY <3>1, Zenon DEF PlaceInv
      <4> QED
        BY <4>1, <4>2, <4>3
    <3>3. CASE q = que[t] /\ r = que[t]
      <4>1. /\ i + n \in 1 .. a /\ queue'[q][i] = all[i + n]
            /\ j + n \in 1 .. a /\ queue'[r][j] = all[j + n]
        BY <1>7, <3>3
      <4>2. all[i + n] = all[j + n]
        BY <2>3, <4>1
      <4>3. i + n = j + n
        BY <1>11, <4>1, <4>2, Zenon
      <4>4. i \in Int /\ j \in Int
        OBVIOUS
      <4> QED
        BY <3>3, <4>3, <4>4
    <3>4. CASE q = que[t] /\ r # que[t]
      <4>1. i + n \in 1 .. a /\ queue'[q][i] = all[i + n]
        BY <1>7, <3>4
      <4>2. j \in 1 .. Len(queue[r]) /\ queue'[r][j] = queue[r][j]
        BY <1>7, <3>4
      <4> QED
        BY <1>14, <2>3, <3>1, <3>4, <4>1, <4>2
    <3>5. CASE q # que[t] /\ r = que[t]
      <4>1. j + n \in 1 .. a /\ queue'[r][j] = all[j + n]
        BY <1>7, <3>5
      <4>2. i \in 1 .. Len(queue[q]) /\ queue'[q][i] = queue[q][i]
        BY <1>7, <3>5
      <4> QED
        BY <1>14, <2>3, <3>1, <3>5, <4>1, <4>2
    <3> QED
      BY <3>2, <3>3, <3>4, <3>5
  <2>4. ASSUME NEW m \in 1 .. w + k + n, NEW u \in Threads, Sending(u)'
        PROVE  wire'[m][1] # pkt'[u]
    <3>1. CASE m \in 1 .. w /\ wire'[m] = wire[m]
      BY <1>3, <1>9, <2>4, <3>1 DEF PlaceInv
    <3>2. CASE k > 0 /\ wire'[m] = <<pkt[t], epoch>>
      <4>1. u # t
        BY <1>10, <2>4, <3>2
      <4>2. pkt[u] # pkt[t]
        BY <1>5, <1>9, <2>4, <3>2, <4>1 DEF PlaceInv, Owning, Sending
      <4> QED
        BY <1>9, <2>4, <3>2, <4>2
    <3>3. CASE \E i \in 1 .. n : i \in 1 .. a /\ wire'[m] = <<all[i], epoch>>
      BY <1>9, <1>13, <2>4, <3>3
    <3> QED
      BY <1>6, <3>1, <3>2, <3>3
  <2>5. ASSUME NEW m \in 1 .. w + k + n, NEW q \in Queues, Live(q)', NEW i \in 1 .. Len(queue'[q])
        PROVE  wire'[m][1] # queue'[q][i]
    <3>0. Live(q)
      BY <1>8, <2>5
    <3>1. CASE q # que[t]
      <4>0. i \in 1 .. Len(queue[q]) /\ queue'[q][i] = queue[q][i]
        BY <1>7, <3>1
      <4>1. CASE m \in 1 .. w /\ wire'[m] = wire[m]
        BY <1>3, <3>0, <4>0, <4>1 DEF PlaceInv
      <4>2. CASE k > 0 /\ wire'[m] = <<pkt[t], epoch>>
        BY <1>5, <3>0, <4>0, <4>2 DEF PlaceInv
      <4>3. CASE \E j \in 1 .. n : j \in 1 .. a /\ wire'[m] = <<all[j], epoch>>
        BY <1>14, <3>0, <3>1, <4>0, <4>3
      <4> QED
        BY <1>6, <4>1, <4>2, <4>3
    <3>2. CASE q = que[t]
      <4>0. i + n \in n + 1 .. a /\ i + n \in 1 .. a /\ queue'[q][i] = all[i + n]
        BY <1>7, <3>2
      <4>1. CASE m \in 1 .. w /\ wire'[m] = wire[m]
        BY <1>15, <4>0, <4>1
      <4>2. CASE k > 0 /\ wire'[m] = <<pkt[t], epoch>>
        BY <1>12, <4>0, <4>2
      <4>3. CASE \E j \in 1 .. n : j \in 1 .. a /\ wire'[m] = <<all[j], epoch>>
        <5>1. PICK j \in 1 .. n : j \in 1 .. a /\ wire'[m] = <<all[j], epoch>>
          BY <4>3
        <5>2. i + n # j
          BY <4>0
        <5> QED
          BY <1>11, <4>0, <5>1, <5>2
      <4> QED
        BY <1>6, <4>1, <4>2, <4>3
    <3> QED
      BY <3>1, <3>2
  <2>6. ASSUME NEW u \in Threads, pc'[u] = "copy"
        PROVE  \E m \in 1 .. w + k + n : wire'[m][1] = pkt'[u]
    <3>1. pkt'[u] = pkt[u]
      BY <1>9, <2>6 DEF Owning
    <3>2. CASE u # t
      <4>1. PICK m \in 1 .. w : wire[m][1] = pkt[u]
        BY <1>0, <1>3, <2>6, <3>2 DEF PlaceInv, CallsAfter
      <4>2. wire'[m] = wire[m] /\ m \in 1 .. w + k + n
        BY <1>0, <1>3 DEF WireAfter
      <4> QED
        BY <3>1, <4>1, <4>2
    <3>3. CASE u = t
      <4>1. k > 0
        BY <1>0, <2>6, <3>3 DEF CallsAfter
      <4>2. w + 1 \in w + 1 .. w + k /\ w + 1 \in 1 .. w + k + n
        BY <4>1
      <4>3. wire'[w + 1] = <<pkt[t], epoch>>
        BY <1>0, <1>3, <4>2, Zenon DEF WireAfter
      <4>4. wire'[w + 1][1] = pkt'[u]
        BY <3>1, <3>3, <4>3
      <4> QED
        BY <4>2, <4>4
    <3> QED
      BY <3>2, <3>3
  <2> QED
    BY <1>3, <2>1, <2>2, <2>3, <2>4, <2>5, <2>6, Zenon DEF PlaceInv
<1> QED
  BY <1>16, <1>17, <1>18

\* Every step does.
LEMMA PlaceStep ==
  ASSUME TypeOK, CallInv, LockInv, NumberInv, HomeInv, PlaceInv, [Next]_vars
  PROVE  NumberInv' /\ HomeInv' /\ PlaceInv'
<1> USE SendAssumption, NoQueueAssumption
<1>1. ASSUME UNCHANGED <<queue, pkt, calls, home, epoch, wire>>,
             \A t \in Threads : /\ Sending(t)' => Sending(t)
                                /\ Owning(t)' => Owning(t)
                                /\ pc'[t] = "copy" => pc[t] = "copy",
             \A q \in Queues : Live(q)' => Live(q)
      PROVE  NumberInv' /\ HomeInv' /\ PlaceInv'
  <2>1. NumberInv'
    BY <1>1 DEF NumberInv
  <2>2. HomeInv'
    BY <1>1 DEF HomeInv
  <2>3. PlaceInv'
    BY <1>1 DEF PlaceInv
  <2> QED
    BY <2>1, <2>2, <2>3
<1>2. CASE UNCHANGED vars
  BY <1>1, <1>2 DEF vars, Sending, Owning, Live, Unreferenced
<1>3. ASSUME NEW t \in Threads, LookUp(t) PROVE NumberInv' /\ HomeInv' /\ PlaceInv'
  <2>1. /\ calls' = calls + 1 /\ pkt' = [pkt EXCEPT ![t] = calls + 1]
        /\ home' = [home EXCEPT ![calls + 1] = epoch] /\ pc' = [pc EXCEPT ![t] = "lock"]
        /\ calls \in Nat /\ calls + 1 \in 1 .. Packets
        /\ wire' = wire /\ epoch' = epoch
    BY <1>3 DEF LookUp, TypeOK
  <2>2. PICK c \in 1 .. Packets : c = calls + 1 /\ calls < c /\ calls' = c
    BY <2>1
  <2>3. /\ \A u \in Threads : u # t => /\ pc'[u] = pc[u] /\ pkt'[u] = pkt[u]
                                       /\ Sending(u)' <=> Sending(u)
                                       /\ Owning(u)' <=> Owning(u)
        /\ Sending(t)' /\ Owning(t)' /\ pkt'[t] = c /\ pc'[t] = "lock"
    BY <2>1, <2>2 DEF Sending, Owning, TypeOK
  <2>4. /\ \A p \in 1 .. Packets : p <= calls => home'[p] = home[p]
        /\ home'[c] = epoch
    BY <2>1, <2>2 DEF TypeOK
  <2>5. \A q \in Queues : /\ queue'[q] = <<>> \/ (queue'[q] = queue[q] /\ (Live(q)' => Live(q)))
    <3>1. PICK x \in Queues : /\ que' = [que EXCEPT ![t] = x] /\ entry' = x
                              /\ \/ queue' = queue /\ entry = x
                                 \/ queue' = [queue EXCEPT ![x] = <<>>] /\ entry = NoQueue
      BY <1>3, LookedUp
    <3> QED
      BY <3>1 DEF Live, Unreferenced, TypeOK
  <2>6. \A q \in Queues : \A i \in 1 .. Len(queue'[q]) :
          /\ queue'[q] = queue[q] /\ (Live(q)' => Live(q))
          /\ queue[q][i] \in 1 .. Packets /\ queue[q][i] <= calls
    <3>1. Len(<<>>) = 0
      BY EmptySeq
    <3>2. ASSUME NEW q \in Queues, NEW i \in 1 .. Len(queue'[q])
          PROVE  queue'[q] = queue[q] /\ (Live(q)' => Live(q))
      BY <2>5, <3>1, <3>2
    <3>3. ASSUME NEW q \in Queues, NEW i \in 1 .. Len(queue'[q])
          PROVE  queue[q][i] \in 1 .. Packets /\ queue[q][i] <= calls
      <4>1. queue[q] \in Seq(1 .. Packets) /\ i \in 1 .. Len(queue[q])
        BY <3>2, <3>3 DEF TypeOK
      <4> QED
        BY <4>1, LenProperties DEF NumberInv
    <3> QED
      BY <3>2, <3>3
  <2>7. \A m \in 1 .. Len(wire) : wire[m][1] \in 1 .. Packets /\ wire[m][1] <= calls
    <3>1. \A m \in 1 .. Len(wire) : wire[m] \in Entries
      BY LenProperties DEF TypeOK, Entries
    <3> QED
      BY <3>1 DEF NumberInv, Entries
  <2>8. \A p \in 1 .. Packets : p <= calls => p <= c /\ p # c
    BY <2>1, <2>2
  <2>9. NumberInv'
    BY <2>1, <2>2, <2>6, <2>7, <2>8 DEF NumberInv
  <2>10. HomeInv'
    <3>1. ASSUME NEW q \in Queues, Live(q)', NEW i \in 1 .. Len(queue'[q])
          PROVE  home'[queue'[q][i]] = epoch
      <4>1. queue'[q] = queue[q] /\ Live(q) /\ queue[q][i] \in 1 .. Packets /\ queue[q][i] <= calls
            /\ i \in 1 .. Len(queue[q])
        BY <2>6, <3>1
      <4> QED
        BY <2>4, <4>1 DEF HomeInv
    <3>2. ASSUME NEW u \in Threads, Owning(u)' PROVE home'[pkt'[u]] = epoch
      <4>1. CASE u = t
        BY <2>3, <2>4, <4>1
      <4>2. CASE u # t
        <5>1. Owning(u) /\ pkt'[u] = pkt[u] /\ pkt[u] \in 1 .. calls
          BY <2>3, <3>2, <4>2 DEF CallInv
        <5>2. pkt[u] \in 1 .. Packets /\ pkt[u] <= calls
          BY <2>1, <5>1
        <5> QED
          BY <2>4, <5>1, <5>2 DEF HomeInv
      <4> QED
        BY <4>1, <4>2
    <3>3. ASSUME NEW m \in 1 .. Len(wire) PROVE wire[m][2] = home'[wire[m][1]]
      BY <2>4, <2>7 DEF HomeInv
    <3> QED
      BY <2>1, <3>1, <3>2, <3>3 DEF HomeInv
  <2>11. PlaceInv'
    <3>1. ASSUME NEW u \in Threads, NEW v \in Threads, Owning(u)', Owning(v)', pkt'[u] = pkt'[v]
          PROVE  u = v
      <4>1. \A x \in Threads : Owning(x) => pkt[x] # c
        BY <2>1, <2>2 DEF CallInv
      <4> QED
        BY <2>3, <3>1, <4>1 DEF PlaceInv
    <3>2. ASSUME NEW q \in Queues, Live(q)', NEW i \in 1 .. Len(queue'[q]),
                 NEW u \in Threads, Sending(u)'
          PROVE  queue'[q][i] # pkt'[u]
      <4>1. /\ queue'[q] = queue[q] /\ Live(q) /\ queue[q][i] # c /\ i \in 1 .. Len(queue[q])
        BY <2>6, <2>8, <3>2
      <4> QED
        BY <2>3, <3>2, <4>1 DEF PlaceInv
    <3>3. ASSUME NEW q \in Queues, NEW r \in Queues, Live(q)', Live(r)',
                 NEW i \in 1 .. Len(queue'[q]), NEW j \in 1 .. Len(queue'[r]),
                 queue'[q][i] = queue'[r][j]
          PROVE  q = r /\ i = j
      <4>1. /\ queue'[q] = queue[q] /\ Live(q) /\ i \in 1 .. Len(queue[q])
            /\ queue'[r] = queue[r] /\ Live(r) /\ j \in 1 .. Len(queue[r])
        BY <2>6, <3>3
      <4>2. \A x \in 1 .. Len(queue[q]), y \in 1 .. Len(queue[r]) :
              queue[q][x] = queue[r][y] => q = r /\ x = y
        BY <4>1, Zenon DEF PlaceInv
      <4> QED
        BY <3>3, <4>1, <4>2
    <3>4. ASSUME NEW m \in 1 .. Len(wire), NEW u \in Threads, Sending(u)'
          PROVE  wire[m][1] # pkt'[u]
      BY <2>3, <2>7, <2>8, <3>4 DEF PlaceInv
    <3>5. ASSUME NEW m \in 1 .. Len(wire), NEW q \in Queues, Live(q)', NEW i \in 1 .. Len(queue'[q])
          PROVE  wire[m][1] # queue'[q][i]
      <4>1. queue'[q] = queue[q] /\ Live(q) /\ i \in 1 .. Len(queue[q])
        BY <2>6, <3>5
      <4> QED
        BY <4>1 DEF PlaceInv
    <3>6. ASSUME NEW m \in 1 .. Len(wire'), NEW u \in Threads, Sending(u)'
          PROVE  wire'[m][1] # pkt'[u]
      BY <2>1, <3>4, <3>6
    <3>7. ASSUME NEW m \in 1 .. Len(wire'), NEW q \in Queues, Live(q)', NEW i \in 1 .. Len(queue'[q])
          PROVE  wire'[m][1] # queue'[q][i]
      BY <2>1, <3>5, <3>7
    <3>8. ASSUME NEW u \in Threads, pc'[u] = "copy"
          PROVE  \E m \in 1 .. Len(wire') : wire'[m][1] = pkt'[u]
      BY <2>1, <2>3, <3>8 DEF PlaceInv
    <3> QED
      BY <3>1, <3>2, <3>3, <3>6, <3>7, <3>8, Zenon DEF PlaceInv
  <2> QED
    BY <2>9, <2>10, <2>11
<1>4. ASSUME NEW t \in Threads, Served(t)
      PROVE  NumberInv' /\ HomeInv' /\ PlaceInv'
  <2>1. PICK all \in Seq(1 .. Packets), n \in Nat, k \in Nat : Serves(t, all, n, k)
    BY <1>4, CallServes
  <2> QED
    BY <2>1, ServedInPlace
<1>5. ASSUME NEW t \in Threads, Cleanup(t) PROVE NumberInv' /\ HomeInv' /\ PlaceInv'
  <2>1. UNCHANGED <<queue, pkt, calls, home, epoch, wire>>
    BY <1>5 DEF Cleanup
  <2>2. \A u \in Threads : /\ Sending(u)' => Sending(u)
                           /\ Owning(u)' => Owning(u)
                           /\ pc'[u] = "copy" => pc[u] = "copy"
    BY <1>5 DEF Cleanup, Sending, Owning, TypeOK
  <2>3. \A q \in Queues : Live(q)' => Live(q)
    BY <1>5 DEF Cleanup, Live, Unreferenced, TypeOK
  <2> QED
    BY <1>1, <2>1, <2>2, <2>3
<1>6. CASE Close
  <2>1. /\ UNCHANGED <<queue, pkt, calls, home, wire>>
        /\ \A t \in Threads : ~Sending(t)' /\ ~Owning(t)' /\ pc'[t] # "copy"
        /\ \A q \in Queues : ~Live(q)'
    BY <1>6 DEF Close, Sending, Owning, Live, Unreferenced, CallInv
  <2>2. NumberInv'
    BY <2>1 DEF NumberInv
  <2>3. HomeInv'
    BY <2>1 DEF HomeInv
  <2>4. PlaceInv'
    BY <2>1 DEF PlaceInv
  <2> QED
    BY <2>2, <2>3, <2>4
<1>7. CASE TogglePolicy \/ Tick
  BY <1>1, <1>7 DEF TogglePolicy, Tick, Sending, Owning, Live, Unreferenced
<1>8. ASSUME NEW t \in Threads, Copy(t) PROVE NumberInv' /\ HomeInv' /\ PlaceInv'
  <2>1. PICK p \in 1 .. Packets : p = pkt[t] /\ Transmit(p) /\ Owning(t)
    BY <1>8 DEF Copy, CallInv, Owning, TypeOK
  <2>2. PICK w \in Nat : /\ w = Len(wire) /\ Len(wire') = w + 1 /\ wire'[w + 1] = <<p, epoch>>
                         /\ \A i \in 1 .. w : wire'[i] = wire[i]
    BY <2>1, Transmitted
  <2>3. UNCHANGED <<queue, pc, que, entry, pkt, calls, home, epoch>>
    BY <1>8 DEF Copy
  <2>4. /\ \A u \in Threads : (Sending(u)' <=> Sending(u)) /\ (Owning(u)' <=> Owning(u))
        /\ \A q \in Queues : Live(q)' <=> Live(q)
    BY <2>3 DEF Sending, Owning, Live, Unreferenced
  <2>5. PICK m0 \in 1 .. w : wire[m0][1] = p
    BY <1>8, <2>1, <2>2 DEF Copy, PlaceInv
  <2>6. ASSUME NEW m \in 1 .. w + 1
        PROVE  \E x \in 1 .. w : wire'[m][1] = wire[x][1] /\ wire'[m][2] = wire[x][2]
    <3>1. CASE m \in 1 .. w
      BY <2>2, <3>1
    <3>2. CASE m = w + 1
      <4>1. wire'[m][1] = p /\ wire'[m][2] = epoch
        BY <2>2, <3>2
      <4>2. wire[m0][2] = epoch
        BY <2>1, <2>2, <2>5 DEF HomeInv
      <4> QED
        BY <2>5, <4>1, <4>2
    <3> QED
      BY <3>1, <3>2
  <2>7. NumberInv'
    <3>1. ASSUME NEW m \in 1 .. w + 1 PROVE wire'[m][1] <= calls
      <4>1. PICK x \in 1 .. w : wire'[m][1] = wire[x][1]
        BY <2>6
      <4>2. wire[x][1] <= calls
        BY <2>2 DEF NumberInv
      <4> QED
        BY <4>1, <4>2
    <3> QED
      BY <2>2, <2>3, <3>1 DEF NumberInv
  <2>8. HomeInv'
    <3>1. ASSUME NEW m \in 1 .. w + 1 PROVE wire'[m][2] = home[wire'[m][1]]
      <4>1. PICK x \in 1 .. w : wire'[m][1] = wire[x][1] /\ wire'[m][2] = wire[x][2]
        BY <2>6
      <4>2. wire[x][2] = home[wire[x][1]]
        BY <2>2 DEF HomeInv
      <4> QED
        BY <4>1, <4>2
    <3> QED
      BY <2>2, <2>3, <2>4, <3>1 DEF HomeInv
  <2>9. PlaceInv'
    <3>1. ASSUME NEW m \in 1 .. w + 1, NEW u \in Threads, Sending(u) PROVE wire'[m][1] # pkt[u]
      BY <2>2, <2>6, <3>1 DEF PlaceInv
    <3>2. ASSUME NEW m \in 1 .. w + 1, NEW q \in Queues, Live(q), NEW i \in 1 .. Len(queue[q])
          PROVE  wire'[m][1] # queue[q][i]
      BY <2>2, <2>6, <3>2 DEF PlaceInv
    <3>3. ASSUME NEW u \in Threads, pc[u] = "copy" PROVE \E m \in 1 .. w + 1 : wire'[m][1] = pkt[u]
      <4>1. PICK m \in 1 .. w : wire[m][1] = pkt[u]
        BY <2>2, <3>3 DEF PlaceInv
      <4>2. m \in 1 .. w + 1 /\ wire'[m] = wire[m]
        BY <2>2
      <4> QED
        BY <4>1, <4>2
    <3>4. /\ \A u, v \in Threads : Owning(u)' /\ Owning(v)' /\ pkt'[u] = pkt'[v] => u = v
          /\ \A q \in Queues : Live(q)' =>
               \A i \in 1 .. Len(queue'[q]) : \A u \in Threads : Sending(u)' => queue'[q][i] # pkt'[u]
          /\ \A q, r \in Queues : Live(q)' /\ Live(r)' =>
               \A i \in 1 .. Len(queue'[q]), j \in 1 .. Len(queue'[r]) :
                 queue'[q][i] = queue'[r][j] => q = r /\ i = j
      BY <2>3, <2>4 DEF PlaceInv
    <3>5. \A m \in 1 .. Len(wire') : \A u \in Threads : Sending(u)' => wire'[m][1] # pkt'[u]
      BY <2>2, <2>3, <2>4, <3>1
    <3>6. \A m \in 1 .. Len(wire') : \A q \in Queues : Live(q)' =>
            \A i \in 1 .. Len(queue'[q]) : wire'[m][1] # queue'[q][i]
      BY <2>2, <2>3, <2>4, <3>2
    <3>7. \A u \in Threads : pc'[u] = "copy" => \E m \in 1 .. Len(wire') : wire'[m][1] = pkt'[u]
      BY <2>2, <2>3, <3>3
    <3> QED
      BY <3>4, <3>5, <3>6, <3>7, Zenon DEF PlaceInv
  <2> QED
    BY <2>7, <2>8, <2>9
<1> QED
  BY <1>2, <1>3, <1>4, <1>5, <1>6, <1>7, <1>8 DEF Next, Served

-----------------------------------------------------------------------------
(* How often packets are sent.                                             *)

\* The copies that a call has yet to send are among those that its packet is due.
CopyInv ==
  \A t \in Threads : pc[t] = "copy" =>
    Cardinality(Times(pkt[t])) + more[t] <= 1 + asked[pkt[t]]

\* The places of a packet are finitely many.
LEMMA TimesFinite ==
  ASSUME TypeOK, NEW p
  PROVE  IsFiniteSet(Times(p)) /\ Cardinality(Times(p)) \in Nat
<1>1. DOMAIN wire = 1 .. Len(wire) /\ Len(wire) \in Nat
  BY LenProperties DEF TypeOK
<1>2. IsFiniteSet(1 .. Len(wire)) /\ Times(p) \in SUBSET (1 .. Len(wire))
  BY <1>1, FS_Interval DEF Times
<1>3. IsFiniteSet(Times(p))
  BY <1>2, FS_Subset
<1> QED
  BY <1>3, FS_CardinalityType

\* A packet that is not on the wire has none.
LEMMA TimesNone ==
  ASSUME TypeOK, NEW p, \A m \in 1 .. Len(wire) : wire[m][1] # p
  PROVE  Cardinality(Times(p)) = 0
<1>1. DOMAIN wire = 1 .. Len(wire)
  BY LenProperties DEF TypeOK
<1>2. Times(p) = {}
  BY <1>1 DEF Times
<1> QED
  BY <1>2, FS_EmptySet

\* One more packet on the wire.
LEMMA TimesMore ==
  ASSUME TypeOK, NEW p \in 1 .. Packets, Transmit(p)
  PROVE  /\ Cardinality(Times(p)') = Cardinality(Times(p)) + 1
         /\ \A x : x # p => Times(x)' = Times(x)
<1>1. PICK w \in Nat : w = Len(wire)
  BY LenProperties DEF TypeOK
<1>2. /\ wire' \in Seq(Entries) /\ Len(wire') = w + 1
      /\ \A i \in 1 .. w : wire'[i] = wire[i]
      /\ wire'[w + 1] = <<p, epoch>>
  BY <1>1, Transmitted
<1>3. DOMAIN wire = 1 .. w /\ DOMAIN wire' = 1 .. w + 1
  <2>1. wire \in Seq(Entries)
    BY DEF TypeOK, Entries
  <2> QED
    BY <1>1, <1>2, <2>1, LenProperties
<1>4. wire'[w + 1][1] = p
  BY <1>2
<1>5. \A i \in 1 .. w + 1 : (i \in 1 .. w /\ i # w + 1) \/ (i = w + 1 /\ i \notin 1 .. w)
  OBVIOUS
<1>6. \A i \in 1 .. w : i \in 1 .. w + 1
  OBVIOUS
<1>7. \A x : x # p => Times(x)' = Times(x)
  BY <1>2, <1>3, <1>4, <1>5, <1>6 DEF Times
<1>8. Times(p)' = Times(p) \cup {w + 1} /\ w + 1 \notin Times(p)
  <2>1. w + 1 \notin Times(p)
    BY <1>3, <1>5 DEF Times
  <2>2. w + 1 \in 1 .. w + 1
    OBVIOUS
  <2> QED
    BY <1>2, <1>3, <1>4, <1>5, <1>6, <2>1, <2>2 DEF Times
<1>9. PICK T : T = Times(p)
  OBVIOUS
<1>10. IsFiniteSet(T) /\ w + 1 \notin T
  BY <1>8, <1>9, TimesFinite
<1>11. Cardinality(T \cup {w + 1}) = Cardinality(T) + 1
  BY <1>10, FS_AddElement
<1> QED
  BY <1>7, <1>8, <1>9, <1>11

\* A step that sends nothing changes no count.
LEMMA CountKept ==
  ASSUME CopyInv, SentOnce, UNCHANGED <<wire, asked>>,
         \A t \in Threads : pc'[t] = "copy" => pc[t] = "copy" /\ UNCHANGED <<pkt[t], more[t]>>
  PROVE  CopyInv' /\ SentOnce'
<1>1. \A p : Times(p)' = Times(p)
  BY DEF Times
<1> QED
  BY <1>1 DEF CopyInv, SentOnce

\* No step sends a packet more often than once and once for every copy asked for.
LEMMA CountStep ==
  ASSUME TypeOK, TypeOK', CallInv, LockInv, PlaceInv, CopyInv, SentOnce, [Next]_vars
  PROVE  CopyInv' /\ SentOnce'
<1> USE SendAssumption, NoQueueAssumption
<1>1. CASE UNCHANGED vars
  BY <1>1, CountKept DEF vars
<1>2. ASSUME NEW t \in Threads,
             LookUp(t) \/ Lock(t) \/ Fail(t) \/ Stage(t) \/ Pop(t) \/ Unlock(t) \/ Cleanup(t)
      PROVE  CopyInv' /\ SentOnce'
  <2>1. UNCHANGED <<wire, asked, more>>
    BY <1>2 DEF LookUp, Lock, Fail, Stage, Pop, Unlock, Cleanup
  <2>2. \E x \in {"lock", "send", "done", "cleanup", "idle"} : pc' = [pc EXCEPT ![t] = x]
    BY <1>2 DEF LookUp, Lock, Fail, Stage, Pop, Unlock, Cleanup
  <2>3. \E x : pkt' = pkt \/ pkt' = [pkt EXCEPT ![t] = x]
    BY <1>2 DEF LookUp, Lock, Fail, Stage, Pop, Unlock, Cleanup
  <2>4. \A u \in Threads : pc'[u] = "copy" => u # t /\ pc[u] = "copy" /\ pkt'[u] = pkt[u]
    BY <2>2, <2>3 DEF TypeOK
  <2> QED
    BY <2>1, <2>4, CountKept
<1>3. CASE Close \/ TogglePolicy \/ Tick
  BY <1>3, CountKept DEF Close, TogglePolicy, Tick
<1>4. ASSUME NEW p \in 1 .. Packets, NEW u, Transmit(p), Cardinality(Times(p)) < 1 + asked'[p],
             \A x \in 1 .. Packets : x # p => asked'[x] = asked[x],
             \A v \in Threads : v # u /\ pc'[v] = "copy" =>
               /\ pc[v] = "copy" /\ pkt'[v] = pkt[v] /\ pkt[v] # p /\ more'[v] = more[v],
             \A v \in Threads : v = u /\ pc'[v] = "copy" =>
               pkt'[v] = p /\ Cardinality(Times(p)) + 1 + more'[v] <= 1 + asked'[p]
      PROVE  CopyInv' /\ SentOnce'
  <2>1. /\ Cardinality(Times(p)') = Cardinality(Times(p)) + 1
        /\ \A x : x # p => Times(x)' = Times(x)
    BY <1>4, TimesMore
  <2>2. Cardinality(Times(p)) \in Nat /\ asked'[p] \in Nat
    <3>1. asked'[p] \in 0 .. MaxDup
      BY DEF TypeOK
    <3> QED
      BY <3>1, TimesFinite
  <2>3. Cardinality(Times(p)') <= 1 + asked'[p]
    BY <1>4, <2>1, <2>2
  <2>4. SentOnce'
    <3>1. ASSUME NEW x \in 1 .. Packets PROVE Cardinality(Times(x)') <= 1 + asked'[x]
      <4>1. CASE x = p
        BY <2>3, <4>1
      <4>2. CASE x # p
        BY <1>4, <2>1, <4>2 DEF SentOnce
      <4> QED
        BY <4>1, <4>2
    <3> QED
      BY <3>1 DEF SentOnce
  <2>5. ASSUME NEW v \in Threads, pc'[v] = "copy"
        PROVE  Cardinality(Times(pkt[v])') + more'[v] <= 1 + asked'[pkt'[v]]
    <3>1. CASE v = u
      <4>1. pkt'[v] = p
        BY <1>4, <2>5, <3>1
      <4>2. Times(pkt[v])' = Times(p)'
        BY <4>1 DEF Times
      <4> QED
        BY <1>4, <2>1, <2>5, <3>1, <4>1, <4>2
    <3>2. CASE v # u
      <4>1. pc[v] = "copy" /\ pkt'[v] = pkt[v] /\ pkt[v] # p /\ more'[v] = more[v]
        BY <1>4, <2>5, <3>2
      <4>2. pkt[v] \in 1 .. Packets
        BY <4>1 DEF CallInv, Owning, TypeOK
      <4>3. asked'[pkt[v]] = asked[pkt[v]]
        BY <1>4, <4>1, <4>2
      <4>4. Times(pkt[v])' = Times(pkt[v])
        BY <2>1, <4>1 DEF Times
      <4> QED
        BY <4>1, <4>3, <4>4 DEF CopyInv
    <3> QED
      BY <3>1, <3>2
  <2> QED
    BY <2>4, <2>5 DEF CopyInv

<1>5. ASSUME NEW t \in Threads, Emit(t) PROVE CopyInv' /\ SentOnce'
  <2>1. que[t] \in Queues /\ Live(que[t]) /\ due[que[t]] > 0 /\ due[que[t]] \in Nat
    BY <1>5 DEF Emit, CallInv, TypeOK, Live, Unreferenced
  <2>2. PICK q \in Seq(1 .. Packets) : q = queue[que[t]] /\ Len(q) \in Nat
    BY <2>1, LenProperties DEF TypeOK
  <2>3. Len(q) >= 1
    BY <2>1, <2>2 DEF LockInv
  <2>4. PICK p \in 1 .. Packets : p = q[1] /\ p = Head(q)
    <3>1. q # <<>>
      BY <2>3, EmptySeq
    <3> QED
      BY <3>1, HeadTailProperties
  <2>5. Transmit(p) /\ UNCHANGED <<pc, pkt, more, asked>>
    BY <1>5, <2>2, <2>4 DEF Emit
  <2>6. \A m \in 1 .. Len(wire) : wire[m][1] # p
    BY <2>1, <2>2, <2>3, <2>4 DEF PlaceInv
  <2>7. Cardinality(Times(p)) = 0
    BY <2>6, TimesNone
  <2>8. asked'[p] \in 0 .. MaxDup
    BY DEF TypeOK
  <2>9. \A v \in Threads : pc[v] = "copy" => pkt[v] # p
    BY <2>6 DEF PlaceInv
  <2>10. Cardinality(Times(p)) < 1 + asked'[p]
    BY <2>7, <2>8
  <2>11. pc'[t] # "copy"
    BY <1>5 DEF Emit
  <2> QED
    BY <1>4, <2>5, <2>9, <2>10, <2>11
<1>6. ASSUME NEW t \in Threads, Pass(t) PROVE CopyInv' /\ SentOnce'
  <2>1. PICK p \in 1 .. Packets : p = pkt[t] /\ Transmit(p) /\ Sending(t) /\ Owning(t)
    BY <1>6 DEF Pass, Ready, CallInv, Owning, Sending, TypeOK
  <2>2. PICK n \in Copies(t) : /\ more' = [more EXCEPT ![t] = n]
                               /\ asked' = [asked EXCEPT ![p] = n]
    BY <1>6, <2>1 DEF Pass
  <2>3. n \in Nat
    BY DEF Copies
  <2>4. /\ pc' = [pc EXCEPT ![t] = "copy"] /\ pkt' = pkt
        /\ \A v \in Threads : v # t => pc'[v] = pc[v] /\ more'[v] = more[v]
        /\ more'[t] = n /\ asked'[p] = n /\ \A x \in 1 .. Packets : x # p => asked'[x] = asked[x]
    <3>1. pc' = [pc EXCEPT ![t] = "copy"] /\ pkt' = pkt
      BY <1>6 DEF Pass
    <3>2. DOMAIN pc = Threads /\ DOMAIN more = Threads /\ DOMAIN asked = 1 .. Packets
      BY DEF TypeOK
    <3> QED
      BY <2>2, <3>1, <3>2
  <2>5. \A m \in 1 .. Len(wire) : wire[m][1] # p
    BY <2>1 DEF PlaceInv
  <2>6. Cardinality(Times(p)) = 0
    BY <2>5, TimesNone
  <2>7. \A v \in Threads : v # t /\ pc[v] = "copy" => pkt[v] # p
    BY <2>5 DEF PlaceInv
  <2>8. Cardinality(Times(p)) < 1 + asked'[p] /\ Cardinality(Times(p)) + 1 + n <= 1 + asked'[p]
    BY <2>3, <2>4, <2>6
  <2> QED
    BY <1>4, <2>1, <2>4, <2>7, <2>8
<1>7. ASSUME NEW t \in Threads, Copy(t) PROVE CopyInv' /\ SentOnce'
  <2>1. PICK p \in 1 .. Packets : p = pkt[t] /\ Transmit(p) /\ pc[t] = "copy" /\ Owning(t)
    BY <1>7 DEF Copy, CallInv, Owning, TypeOK
  <2>2. /\ UNCHANGED <<pc, pkt, asked>> /\ \A v \in Threads : v # t => more'[v] = more[v]
        /\ more'[t] = more[t] - 1 /\ more[t] > 0 /\ more[t] \in Nat
    <3>1. more[t] \in 0 .. MaxDup
      BY DEF TypeOK
    <3> QED
      BY <1>7, <3>1 DEF Copy, TypeOK
  <2>3. Cardinality(Times(p)) + more[t] <= 1 + asked[p] /\ asked[p] \in 0 .. MaxDup
    BY <2>1 DEF CopyInv, TypeOK
  <2>4. Cardinality(Times(p)) \in Nat
    BY TimesFinite
  <2>5. \A v \in Threads : v # t /\ pc[v] = "copy" => pkt[v] # p
    BY <2>1 DEF PlaceInv, Owning
  <2>6. /\ Cardinality(Times(p)) < 1 + asked'[p]
        /\ Cardinality(Times(p)) + 1 + more'[t] <= 1 + asked'[p]
    BY <2>2, <2>3, <2>4
  <2> QED
    BY <1>4, <2>1, <2>2, <2>5, <2>6
<1> QED
  BY <1>1, <1>2, <1>3, <1>5, <1>6, <1>7 DEF Next

-----------------------------------------------------------------------------
(* Calls that do not overlap.                                              *)

\* While calls have not overlapped: one is in progress at most, its queue is the one in the
\* map, and it takes that out only while it is empty.
TurnInv ==
  "overlap" \notin seen =>
    /\ \A t, u \in Threads : pc[t] # "idle" /\ pc[u] # "idle" => t = u
    /\ \A t \in Threads : Active(t) => que[t] = entry
    /\ \A t \in Threads : pc[t] = "cleanup" => queue[que[t]] = <<>>

\* Every step keeps that.
LEMMA TurnStep ==
  ASSUME TypeOK, CallInv, LockInv, TurnInv, [Next]_vars
  PROVE  TurnInv'
<1> USE SendAssumption, NoQueueAssumption
<1>0. SUFFICES ASSUME "overlap" \notin seen'
               PROVE  /\ \A t, u \in Threads : pc'[t] # "idle" /\ pc'[u] # "idle" => t = u
                      /\ \A t \in Threads : Active(t)' => que'[t] = entry'
                      /\ \A t \in Threads : pc'[t] = "cleanup" => queue'[que'[t]] = <<>>
  BY DEF TurnInv
<1> DEFINE G == /\ \A t, u \in Threads : pc'[t] # "idle" /\ pc'[u] # "idle" => t = u
                /\ \A t \in Threads : Active(t)' => que'[t] = entry'
                /\ \A t \in Threads : pc'[t] = "cleanup" => queue'[que'[t]] = <<>>
<1>1. CASE UNCHANGED vars
  BY <1>0, <1>1 DEF vars, TurnInv, Active
<1>2. ASSUME NEW t \in Threads, LookUp(t) PROVE G
  <2>1. \A u \in Threads : pc[u] = "idle"
    BY <1>0, <1>2 DEF LookUp
  <2>2. pc' = [pc EXCEPT ![t] = "lock"]
    BY <1>2 DEF LookUp
  <2>3. que'[t] = entry'
    BY <1>2 DEF LookUp, TypeOK
  <2>4. \A u \in Threads : u # t => pc'[u] = "idle"
    BY <2>1, <2>2 DEF TypeOK
  <2>5. pc'[t] = "lock"
    BY <2>2 DEF TypeOK
  <2> QED
    BY <2>3, <2>4, <2>5 DEF Active
<1>3. ASSUME NEW t \in Threads, Served(t) PROVE G
  <2>1. PICK all \in Seq(1 .. Packets), n \in Nat, k \in Nat : Serves(t, all, n, k)
    BY <1>3, CallServes
  <2>2. /\ seen' = seen /\ entry' = entry /\ Active(t) /\ (Active(t)' => que'[t] = que[t])
        /\ \A u \in Threads : u # t => pc'[u] = pc[u]
    BY <2>1 DEF Serves, CallsAfter
  <2>3. que[t] = entry /\ \A u \in Threads : u # t => pc[u] = "idle"
    BY <1>0, <2>2 DEF TurnInv, Active
  <2>4. ASSUME pc'[t] = "cleanup" PROVE queue'[que'[t]] = <<>>
    <3>1. Unlock(t)
      BY <1>3, <2>4 DEF Served, Lock, Emit, Fail, Stage, Pass, Pop, TypeOK
    <3>2. queue[que[t]] = <<>>
      BY <2>4, <3>1 DEF Unlock, TypeOK
    <3>3. queue' = queue /\ que'[t] = que[t]
      BY <3>1, <3>2 DEF Unlock, TypeOK
    <3> QED
      BY <3>2, <3>3
  <2> QED
    BY <2>2, <2>3, <2>4 DEF Active
<1>4. ASSUME NEW t \in Threads, Cleanup(t) PROVE G
  <2>1. \A u \in Threads : u # t => pc[u] = "idle"
    BY <1>0, <1>4 DEF Cleanup, TurnInv
  <2>2. \A u \in Threads : pc'[u] = "idle"
    BY <1>4, <2>1 DEF Cleanup, TypeOK
  <2> QED
    BY <2>2 DEF Active
<1>5. CASE Close
  <2>1. \A u \in Threads : pc'[u] = "idle"
    BY <1>5 DEF Close
  <2> QED
    BY <2>1 DEF Active
<1>6. CASE TogglePolicy \/ Tick
  BY <1>0, <1>6 DEF TogglePolicy, Tick, TurnInv, Active
<1>7. ASSUME NEW t \in Threads, Copy(t) PROVE G
  BY <1>0, <1>7 DEF Copy, TurnInv, Active
<1> QED
  BY <1>1, <1>2, <1>3, <1>4, <1>5, <1>6, <1>7 DEF Next, Served

\* Where a packet is not lost.
Safe(p) == p \in OnWire \cup Held \cup discarded
SafeNext(p) == p \in OnWire' \cup Held' \cup discarded'

\* The same, by position.
LEMMA Whereabouts ==
  ASSUME TypeOK
  PROVE  /\ \A p : p \in OnWire <=> \E m \in 1 .. Len(wire) : wire[m][1] = p
         /\ \A p : p \in Held <=> \E q \in Queues : /\ Live(q)
                                                    /\ \E i \in 1 .. Len(queue[q]) : queue[q][i] = p
         /\ \A q \in Queues : \A p : p \in Range(queue[q]) <=>
              \E i \in 1 .. Len(queue[q]) : queue[q][i] = p
<1>1. DOMAIN wire = 1 .. Len(wire)
  BY LenProperties DEF TypeOK
<1>2. \A q \in Queues : DOMAIN queue[q] = 1 .. Len(queue[q])
  <2>1. \A q \in Queues : queue[q] \in Seq(1 .. Packets)
    BY DEF TypeOK
  <2> QED
    BY <2>1, LenProperties
<1>3. \A q \in Queues : \A p : p \in Range(queue[q]) <=>
        \E i \in 1 .. Len(queue[q]) : queue[q][i] = p
  BY <1>2 DEF Range
<1>4. \A p : p \in OnWire <=> \E m \in 1 .. Len(wire) : wire[m][1] = p
  BY <1>1 DEF OnWire
<1>5. \A p : p \in Held <=> \E q \in Queues : Live(q) /\ p \in Range(queue[q])
  BY DEF Held, Live
<1>6. \A p : p \in Held <=> \E q \in Queues : /\ Live(q)
                                             /\ \E i \in 1 .. Len(queue[q]) : queue[q][i] = p
  BY <1>3, <1>5
<1> QED
  BY <1>3, <1>4, <1>6

\* While calls do not overlap, a step of a call loses no packet.
LEMMA ServedSafe ==
  ASSUME TypeOK, TypeOK', CallInv, TurnInv, "overlap" \notin seen,
         NEW t \in Threads, NEW all \in Seq(1 .. Packets),
         NEW n \in Nat, NEW k \in Nat, Serves(t, all, n, k)
  PROVE  /\ \A p : Safe(p) => SafeNext(p)
         /\ Sending(t) /\ (k > 0 \/ all = Append(queue[que[t]], pkt[t])) => SafeNext(pkt[t])
<1>0. QueueAfter(t, all, n, k) /\ WireAfter(t, all, n, k) /\ CallsAfter(t, k)
  BY DEF Serves
<1>1. que[t] = entry /\ entry' = entry /\ discarded' = discarded /\ que[t] \in Queues
  BY <1>0 DEF TurnInv, Serves, QueueAfter, CallsAfter
<1>2. \A q \in Queues : Live(q) => q = que[t]
  <2>1. \A u \in Threads : u # t => pc[u] = "idle"
    BY DEF TurnInv, Serves, CallsAfter, Active
  <2>2. \A u \in Threads : u # t => que[u] = NoQueue
    BY <2>1 DEF CallInv
  <2> QED
    BY <1>1, <2>2, NoQueueAssumption DEF Live, Unreferenced
<1>3. ASSUME NEW p, p \in Range(queue'[que[t]]) PROVE p \in Held'
  <2>1. PICK q \in Queues : q = que[t] /\ q = entry'
    BY <1>1
  <2>2. ~Unreferenced(q)'
    BY <2>1 DEF Unreferenced
  <2> QED
    BY <1>3, <2>1, <2>2 DEF Held
<1>4. PICK w \in Nat : w = Len(wire) /\ Len(wire') = w + k + n
  BY <1>0 DEF WireAfter
<1>5. PICK a \in Nat : a = Len(all) /\ n <= a /\ Len(queue'[que[t]]) = a - n
  BY <1>0 DEF QueueAfter
<1>6. \A p : p \in OnWire => p \in OnWire'
  <2>1. \A m \in 1 .. w : m \in 1 .. w + k + n /\ wire'[m] = wire[m]
    BY <1>0, <1>4 DEF WireAfter
  <2> QED
    <3>1. DOMAIN wire' = 1 .. w + k + n /\ DOMAIN wire = 1 .. w
      BY <1>4, LenProperties DEF TypeOK
    <3> QED
      BY <2>1, <3>1 DEF OnWire
<1>7. ASSUME NEW i \in 1 .. a PROVE SafeNext(all[i])
  <2>1. CASE i <= n
    <3>1. i \in 1 .. n /\ w + k + i \in 1 .. w + k + n
      BY <2>1
    <3>2. wire'[w + k + i] = <<all[i], epoch>>
      BY <1>0, <1>4, <3>1, Zenon DEF WireAfter
    <3>3. wire'[w + k + i][1] = all[i]
      BY <3>2
    <3>4. DOMAIN wire' = 1 .. w + k + n
      BY <1>4, LenProperties DEF TypeOK
    <3>5. all[i] \in OnWire'
      BY <3>1, <3>3, <3>4 DEF OnWire
    <3> QED
      BY <3>5 DEF Safe, SafeNext
  <2>2. CASE i > n
    <3>1. PICK j \in 1 .. a - n : j + n = i
      <4>1. i - n \in 1 .. a - n /\ (i - n) + n = i
        BY <1>5, <2>2
      <4> QED
        BY <4>1
    <3>2. queue'[que[t]][j] = all[i]
      BY <1>0, <1>5, <3>1, Zenon DEF QueueAfter
    <3>3. DOMAIN (queue'[que[t]]) = 1 .. a - n
      <4>1. queue'[que[t]] \in Seq(1 .. Packets)
        BY <1>1 DEF TypeOK
      <4> QED
        BY <1>5, <4>1, LenProperties
    <3>4. all[i] \in Range(queue'[que[t]])
      BY <3>1, <3>2, <3>3 DEF Range
    <3>5. all[i] \in Held'
      BY <1>3, <3>4
    <3> QED
      BY <3>5 DEF Safe, SafeNext
  <2> QED
    BY <2>1, <2>2
<1>8. ASSUME NEW p, Safe(p) PROVE SafeNext(p)
  <2>1. CASE p \in OnWire \/ p \in discarded
    BY <1>1, <1>6, <2>1 DEF Safe, SafeNext
  <2>2. CASE p \in Held
    <3>1. PICK i \in 1 .. Len(queue[que[t]]) : queue[que[t]][i] = p
      BY <1>2, <2>2, Whereabouts, Zenon
    <3>2. i \in 1 .. a /\ all[i] = p
      BY <1>0, <1>5, <3>1 DEF QueueAfter
    <3> QED
      BY <1>7, <3>2
  <2> QED
    BY <1>8, <2>1, <2>2 DEF Safe, SafeNext
<1>9. ASSUME k > 0 PROVE SafeNext(pkt[t])
  <2>1. w + 1 \in w + 1 .. w + k /\ w + 1 \in 1 .. w + k + n
    BY <1>9
  <2>2. wire'[w + 1] = <<pkt[t], epoch>>
    BY <1>0, <1>4, <2>1, Zenon DEF WireAfter
  <2>3. DOMAIN wire' = 1 .. w + k + n /\ wire'[w + 1][1] = pkt[t]
    BY <1>4, <2>2, LenProperties DEF TypeOK
  <2>4. pkt[t] \in OnWire'
    BY <2>1, <2>3 DEF OnWire
  <2> QED
    BY <2>4 DEF Safe, SafeNext
<1>10. ASSUME Sending(t), all = Append(queue[que[t]], pkt[t]) PROVE SafeNext(pkt[t])
  <2>1. queue[que[t]] \in Seq(1 .. Packets) /\ pkt[t] \in 1 .. Packets
    BY <1>0, <1>1, <1>10 DEF TypeOK, CallsAfter, Sending, Owning
  <2>2. Len(queue[que[t]]) \in Nat /\ a = Len(queue[que[t]]) + 1 /\ all[Len(queue[que[t]]) + 1] = pkt[t]
    BY <1>5, <1>10, <2>1, AppendProperties, LenProperties
  <2> QED
    BY <1>7, <2>2
<1> QED
  BY <1>8, <1>9, <1>10

\* Every step keeps what was accepted in turn.
LEMMA KeptStep ==
  ASSUME TypeOK, TypeOK', CallInv, LockInv, TurnInv, KeptInTurn, [Next]_vars
  PROVE  KeptInTurn'
<1> USE SendAssumption, NoQueueAssumption
<1>0. SUFFICES ASSUME "overlap" \notin seen' PROVE NothingLost'
  BY DEF KeptInTurn
<1>1. "overlap" \notin seen
  BY <1>0 DEF Next, vars, LookUp, Lock, Emit, Fail, Stage, Pass, Copy, Pop, Unlock, Cleanup,
              Close, TogglePolicy, Tick
<1>2. NothingLost
  BY <1>1 DEF KeptInTurn
<1>3. ASSUME accepted' = accepted, \A p : Safe(p) => SafeNext(p) PROVE NothingLost'
  BY <1>2, <1>3, Zenon DEF NothingLost, Safe, SafeNext
<1>4. CASE UNCHANGED vars
  <2>1. \A p : Safe(p) => SafeNext(p)
    BY <1>4 DEF vars, Safe, SafeNext, OnWire, Held, Unreferenced
  <2> QED
    BY <1>3, <1>4, <2>1 DEF vars
<1>5. ASSUME NEW t \in Threads, LookUp(t) PROVE NothingLost'
  <2>1. \A u \in Threads : pc[u] = "idle"
    BY <1>0, <1>5 DEF LookUp
  <2>2. \A u \in Threads : que[u] = NoQueue
    BY <2>1 DEF CallInv
  <2>3. Held \subseteq Held'
    <3>1. CASE entry = NoQueue
      <4>1. \A q \in Queues : Unreferenced(q)
        BY <2>2, <3>1 DEF Unreferenced
      <4> QED
        BY <4>1 DEF Held
    <3>2. CASE entry # NoQueue
      <4>1. entry' = entry /\ queue' = queue
        BY <1>5, <3>2 DEF LookUp
      <4>2. \A q \in Queues : ~Unreferenced(q) => ~Unreferenced(q)'
        BY <2>2, <4>1 DEF Unreferenced
      <4> QED
        BY <4>1, <4>2 DEF Held
    <3> QED
      BY <3>1, <3>2
  <2>4. accepted' = accepted /\ wire' = wire /\ discarded' = discarded
    BY <1>5 DEF LookUp
  <2>5. \A p : Safe(p) => SafeNext(p)
    BY <2>3, <2>4 DEF Safe, SafeNext, OnWire
  <2> QED
    BY <1>3, <2>4, <2>5
<1>6. ASSUME NEW t \in Threads, Served(t) PROVE NothingLost'
  <2>1. PICK all \in Seq(1 .. Packets), n \in Nat, k \in Nat : Serves(t, all, n, k)
    BY <1>6, CallServes
  <2>2. /\ \A p : Safe(p) => SafeNext(p)
        /\ Sending(t) /\ (k > 0 \/ all = Append(queue[que[t]], pkt[t])) => SafeNext(pkt[t])
    BY <1>1, <2>1, ServedSafe
  <2>3. AcceptedAfter(t, all, k)
    BY <2>1 DEF Serves
  <2>4. DOMAIN accepted = 1 .. Len(accepted) /\ DOMAIN accepted' = 1 .. Len(accepted')
    BY LenProperties DEF TypeOK
  <2>5. CASE Len(accepted') = Len(accepted)
    <3>1. ASSUME NEW i \in DOMAIN accepted' PROVE SafeNext(accepted'[i])
      <4>1. Safe(accepted[i]) /\ accepted'[i] = accepted[i]
        BY <1>2, <2>5, <2>3, <2>4 DEF NothingLost, Safe, AcceptedAfter
      <4> QED
        BY <2>2, <4>1
    <3> QED
      BY <3>1 DEF NothingLost, SafeNext
  <2>6. CASE Len(accepted') # Len(accepted)
    <3>1. SafeNext(pkt[t])
      BY <2>2, <2>6, <2>3 DEF AcceptedAfter
    <3>2. /\ Len(accepted') = Len(accepted) + 1 /\ Len(accepted) \in Nat
          /\ \A i \in 1 .. Len(accepted) : accepted'[i] = accepted[i]
          /\ accepted'[Len(accepted) + 1] = pkt[t]
      BY <2>6, <2>3 DEF AcceptedAfter
    <3>3. DOMAIN accepted = 1 .. Len(accepted) /\ DOMAIN accepted' = 1 .. Len(accepted) + 1
      BY <2>4, <3>2
    <3>4. ASSUME NEW i \in DOMAIN accepted' PROVE SafeNext(accepted'[i])
      <4>1. CASE i \in 1 .. Len(accepted)
        <5>1. Safe(accepted[i])
          BY <1>2, <3>3, <4>1 DEF NothingLost, Safe, SafeNext
        <5> QED
          BY <2>2, <3>2, <4>1, <5>1
      <4>2. CASE i = Len(accepted) + 1
        BY <3>1, <3>2, <4>2
      <4> QED
        BY <3>2, <3>3, <4>1, <4>2
    <3> QED
      BY <3>4 DEF NothingLost, Safe, SafeNext
  <2> QED
    BY <2>5, <2>6
<1>7. ASSUME NEW t \in Threads, Cleanup(t) PROVE NothingLost'
  <2>1. UNCHANGED <<queue, accepted, wire, discarded>> /\ queue[que[t]] = <<>>
    BY <1>1, <1>7 DEF Cleanup, TurnInv
  <2>2. \A q \in Queues : Live(q) => q = que[t] \/ Live(q)'
    BY <1>7 DEF Cleanup, Live, Unreferenced, TypeOK
  <2>3. Len(<<>>) = 0
    BY EmptySeq
  <2>4. ASSUME NEW p, p \in Held PROVE p \in Held'
    <3>1. PICK q \in Queues : Live(q) /\ \E i \in 1 .. Len(queue[q]) : queue[q][i] = p
      BY <2>4, Whereabouts, Zenon
    <3>2. q # que[t]
      BY <2>1, <2>3, <3>1
    <3>3. Live(q)' /\ p \in Range(queue[q])
      BY <2>2, <3>1, <3>2, Whereabouts, Zenon
    <3> QED
      BY <2>1, <3>3 DEF Held, Live
  <2>5. \A p : Safe(p) => SafeNext(p)
    BY <2>1, <2>4 DEF Safe, SafeNext, OnWire
  <2> QED
    BY <1>3, <2>1, <2>5
<1>8. CASE Close
  <2>1. UNCHANGED <<queue, accepted, wire>>
    BY <1>8 DEF Close
  <2>2. \A q \in Queues : Live(q) => q = entry /\ entry # NoQueue
    BY <1>8 DEF Close, CallInv, Live, Unreferenced
  <2>3. Held \subseteq discarded' /\ discarded \subseteq discarded'
    BY <1>8, <2>2 DEF Close, Held, Live
  <2>4. \A p : Safe(p) => SafeNext(p)
    BY <2>1, <2>3 DEF Safe, SafeNext, OnWire
  <2> QED
    BY <1>3, <2>1, <2>4
<1>9. CASE TogglePolicy \/ Tick
  <2>1. UNCHANGED <<entry, queue, que, accepted, wire, discarded>>
    BY <1>9 DEF TogglePolicy, Tick
  <2>2. \A p : Safe(p) => SafeNext(p)
    BY <2>1 DEF Safe, SafeNext, OnWire, Held, Unreferenced
  <2> QED
    BY <1>3, <2>1, <2>2
<1>10. ASSUME NEW t \in Threads, Copy(t) PROVE NothingLost'
  <2>1. PICK p \in 1 .. Packets : p = pkt[t] /\ Transmit(p)
    BY <1>10 DEF Copy, CallInv, Owning, TypeOK
  <2>2. UNCHANGED <<entry, queue, que, accepted, discarded>>
    BY <1>10 DEF Copy
  <2>3. /\ Len(wire) \in Nat /\ Len(wire') = Len(wire) + 1
        /\ \A i \in 1 .. Len(wire) : wire'[i] = wire[i]
    BY <2>1, Transmitted
  <2>4. DOMAIN wire = 1 .. Len(wire) /\ DOMAIN wire' = 1 .. Len(wire) + 1
    BY <2>3, LenProperties DEF TypeOK
  <2>5. OnWire \subseteq OnWire'
    BY <2>3, <2>4 DEF OnWire
  <2>6. \A p1 : Safe(p1) => SafeNext(p1)
    BY <2>2, <2>5 DEF Safe, SafeNext, Held, Unreferenced
  <2> QED
    BY <1>3, <2>2, <2>6
<1> QED
  BY <1>4, <1>5, <1>6, <1>7, <1>8, <1>9, <1>10 DEF Next, Served

-----------------------------------------------------------------------------
(* How far packets are displaced.                                          *)

\* While calls do not overlap and the policy stays, packets are accepted and queued in
\* the order of their calls, and every call is made under the policy.
OrderInv ==
  seen = {} =>
    /\ policy /\ \A t \in Threads : pc[t] \in {"send", "copy"} => faults[t]
    /\ \A i, j \in 1 .. Len(accepted) : i < j => accepted[i] < accepted[j]
    /\ \A i \in 1 .. Len(accepted) : accepted[i] <= calls
    /\ \A i \in 1 .. Len(accepted), t \in Threads : Sending(t) => accepted[i] < pkt[t]
    /\ entry # NoQueue =>
         /\ \A i, j \in 1 .. Len(queue[entry]) : i < j => queue[entry][i] < queue[entry][j]
         /\ \A i \in 1 .. Len(queue[entry]), t \in Threads : Sending(t) => queue[entry][i] < pkt[t]

\* The packets on the wire that were accepted after packet accepted[i].
Over(i) == {j \in i + 1 .. Len(accepted) : accepted[j] \in OnWire}

\* How many packets of queue q a call has yet to take off for one that it sent or staged.
Slack(q) == IF \E t \in Threads : pc[t] = "copy" THEN 1
            ELSE IF \E t \in Threads : pc[t] = "done" THEN due[q] ELSE 0

\* A packet that m - 1 others precede in the queue has been overtaken by Limit - m at most,
\* but for the packet of a call in progress: each packet that overtakes it takes one off
\* the queue.
DisplaceInv ==
  seen = {} /\ entry # NoQueue =>
    /\ Slack(entry) <= 1
    /\ \A m \in 1 .. Len(queue[entry]), i \in 1 .. Len(accepted) :
         accepted[i] = queue[entry][m] => Cardinality(Over(i)) + m <= Limit + Slack(entry)

\* The queue of the call, with its packet perhaps at the end, is in the order of the calls.
InOrder(t, all) ==
  /\ \A i, j \in 1 .. Len(all) : i < j => all[i] < all[j]
  /\ \A i \in 1 .. Len(all) : all[i] \in Nat
  /\ Sending(t) => \A i \in 1 .. Len(queue[que[t]]) : all[i] < pkt[t]

\* Its own packet is the last.
LEMMA ServedInOrder ==
  ASSUME TypeOK, TurnInv, OrderInv, seen = {}, NEW t \in Threads,
         NEW all \in Seq(1 .. Packets), NEW n \in Nat, NEW k \in Nat, Serves(t, all, n, k)
  PROVE  InOrder(t, all)
<1>1. QueueAfter(t, all, n, k) /\ CallsAfter(t, k)
  BY DEF Serves
<1>2. /\ que[t] = entry /\ que[t] \in Queues /\ entry # NoQueue
  BY <1>1, NoQueueAssumption DEF CallsAfter, QueueAfter, TurnInv
<1>3. PICK l \in Nat : l = Len(queue[que[t]])
  BY <1>1 DEF QueueAfter
<1>4. PICK a \in Nat : a = Len(all)
  BY LenProperties
<1>5. \A i \in 1 .. a : all[i] \in Nat
  <2>1. \A i \in 1 .. a : all[i] \in 1 .. Packets
    BY <1>4, ElementOfSeq
  <2> QED
    BY <2>1, SendAssumption
<1>6. \A i \in 1 .. l : all[i] = queue[que[t]][i] /\ (Sending(t) => all[i] < pkt[t])
  <2>1. \A i \in 1 .. l : all[i] = queue[que[t]][i]
    BY <1>1, <1>3, Zenon DEF QueueAfter
  <2>2. Sending(t) => \A i \in 1 .. l : queue[que[t]][i] < pkt[t]
    BY <1>2, <1>3 DEF OrderInv
  <2> QED
    BY <2>1, <2>2
<1>7. \A i \in 1 .. a : i \in 1 .. l \/ (i = l + 1 /\ all[i] = pkt[t] /\ Sending(t))
  BY <1>1, <1>3, <1>4 DEF QueueAfter
<1>8. \A i, j \in 1 .. l : i < j => all[i] < all[j]
  <2>1. \A i, j \in 1 .. l : i < j => queue[que[t]][i] < queue[que[t]][j]
    BY <1>2, <1>3 DEF OrderInv
  <2> QED
    BY <1>6, <2>1
<1>9. ASSUME NEW i \in 1 .. a, NEW j \in 1 .. a, i < j PROVE all[i] < all[j]
  <2>1. CASE j \in 1 .. l
    BY <1>8, <1>9, <2>1
  <2>2. CASE j = l + 1 /\ all[j] = pkt[t] /\ Sending(t)
    BY <1>6, <1>9, <2>2
  <2> QED
    BY <1>7, <2>1, <2>2
<1> QED
  BY <1>3, <1>4, <1>5, <1>6, <1>9 DEF InOrder

\* Steps of calls keep the order.
LEMMA ServedOrder ==
  ASSUME TypeOK, CallInv, TurnInv, OrderInv, seen = {}, NEW t \in Threads,
         NEW all \in Seq(1 .. Packets), NEW n \in Nat, NEW k \in Nat, Serves(t, all, n, k),
         Served(t)
  PROVE  OrderInv'
<1>1. QueueAfter(t, all, n, k) /\ CallsAfter(t, k) /\ AcceptedAfter(t, all, k) /\ InOrder(t, all)
  BY ServedInOrder DEF Serves
<1>2. /\ que[t] = entry /\ que[t] \in Queues /\ entry' = entry /\ calls' = calls
      /\ Sending(t) => pkt[t] \in 1 .. calls
      /\ Active(t) /\ calls \in Nat /\ policy' = policy
  BY <1>1, NoQueueAssumption DEF CallsAfter, QueueAfter, TurnInv, Serves, Sending, Owning
<1>3. \A u \in Threads : u # t => pc[u] = "idle" /\ pc'[u] = "idle"
  <2>1. \A u \in Threads : u # t => pc[u] = "idle"
    BY <1>2 DEF TurnInv, Active
  <2> QED
    BY <1>1, <2>1 DEF CallsAfter
<1>4. policy' /\ \A u \in Threads : pc'[u] \in {"send", "copy"} => faults'[u]
  <2>1. policy /\ (pc[t] \in {"send", "copy"} => faults[t])
    BY DEF OrderInv
  <2>2. pc'[t] \in {"send", "copy"} => faults'[t]
    <3>1. CASE Lock(t)
      BY <2>1, <3>1, Zenon DEF Lock, TypeOK
    <3>2. CASE Emit(t)
      BY <2>1, <3>2 DEF Emit
    <3>3. CASE Pass(t)
      BY <2>1, <3>3 DEF Pass, Ready
    <3>4. CASE Fail(t) \/ Stage(t) \/ Pop(t)
      <4>1. pc'[t] = "done"
        BY <3>4 DEF Fail, Stage, Pop, TypeOK
      <4> QED
        BY <4>1
    <3>5. CASE Unlock(t)
      <4>1. pc'[t] \in {"cleanup", "idle"}
        BY <3>5 DEF Unlock, TypeOK
      <4> QED
        BY <4>1
    <3> QED
      BY <3>1, <3>2, <3>3, <3>4, <3>5 DEF Served
  <2> QED
    BY <1>2, <1>3, <2>1, <2>2
<1>5. PICK c \in Nat : c = Len(accepted)
  BY <1>1 DEF AcceptedAfter
<1>6. /\ \A i \in 1 .. c : accepted[i] \in Nat /\ accepted'[i] = accepted[i]
      /\ \/ Len(accepted') = c
         \/ /\ Len(accepted') = c + 1 /\ accepted'[c + 1] = pkt[t]
            /\ Sending(t) /\ ~Sending(t)'
  BY <1>1, <1>5 DEF AcceptedAfter
<1>7. /\ \A i, j \in 1 .. c : i < j => accepted[i] < accepted[j]
      /\ \A i \in 1 .. c : accepted[i] <= calls /\ (Sending(t) => accepted[i] < pkt[t])
  BY <1>2, <1>5 DEF OrderInv
<1>8. /\ \A i, j \in 1 .. Len(accepted') : i < j => accepted'[i] < accepted'[j]
      /\ \A i \in 1 .. Len(accepted') : accepted'[i] <= calls
  <2>1. CASE Len(accepted') = c
    BY <1>6, <1>7, <2>1
  <2>2. CASE Len(accepted') = c + 1 /\ accepted'[c + 1] = pkt[t] /\ Sending(t)
    <3>1. \A i \in 1 .. c + 1 : i \in 1 .. c \/ i = c + 1
      OBVIOUS
    <3>2. ASSUME NEW i \in 1 .. c + 1, NEW j \in 1 .. c + 1, i < j PROVE accepted'[i] < accepted'[j]
      <4>1. i \in 1 .. c
        BY <3>2
      <4> QED
        BY <1>6, <1>7, <2>2, <3>1, <3>2, <4>1
    <3>3. ASSUME NEW i \in 1 .. c + 1 PROVE accepted'[i] <= calls
      BY <1>2, <1>6, <1>7, <2>2, <3>1
    <3> QED
      BY <2>2, <3>2, <3>3
  <2> QED
    BY <1>6, <2>1, <2>2
<1>9. ASSUME NEW i \in 1 .. Len(accepted'), NEW u \in Threads, Sending(u)'
      PROVE  accepted'[i] < pkt'[u]
  <2>1. u = t
    BY <1>3, <1>9 DEF Sending
  <2>2. pkt'[t] = pkt[t] /\ Len(accepted') = c /\ Sending(t)
    BY <1>1, <1>6, <1>9, <2>1 DEF CallsAfter, Sending, Owning
  <2> QED
    BY <1>6, <1>7, <2>1, <2>2
<1>10. PICK a \in Nat : a = Len(all) /\ n <= a /\ Len(queue'[entry]) = a - n
  BY <1>1, <1>2 DEF QueueAfter
<1>11. \A i \in 1 .. a - n : queue'[entry][i] = all[i + n] /\ i + n \in 1 .. a
  <2>1. \A i \in 1 .. a - n : queue'[que[t]][i] = all[i + n]
    BY <1>1, <1>10, Zenon DEF QueueAfter
  <2> QED
    BY <1>2, <1>10, <2>1, SMTT(40)
<1>12. ASSUME NEW i \in 1 .. a - n, NEW j \in 1 .. a - n, i < j
       PROVE  queue'[entry][i] < queue'[entry][j]
  <2>1. i + n < j + n /\ i + n \in 1 .. a /\ j + n \in 1 .. a
    BY <1>10, <1>12
  <2> QED
    BY <1>1, <1>10, <1>11, <2>1 DEF InOrder
<1>13. ASSUME NEW i \in 1 .. a - n, NEW u \in Threads, Sending(u)'
       PROVE  queue'[entry][i] < pkt'[u]
  <2>1. u = t /\ pkt'[t] = pkt[t] /\ Sending(t)
    BY <1>1, <1>3, <1>13 DEF Sending, Owning, CallsAfter
  <2>2. i + n \in 1 .. Len(queue[que[t]])
    BY <1>1, <1>10, <1>11, <1>13, <2>1 DEF QueueAfter
  <2>3. all[i + n] < pkt[t]
    BY <1>1, <2>1, <2>2 DEF InOrder
  <2> QED
    BY <1>11, <2>1, <2>3
<1> QED
  BY <1>2, <1>4, <1>8, <1>9, <1>10, <1>12, <1>13 DEF OrderInv

\* Every step does.
LEMMA OrderStep ==
  ASSUME TypeOK, CallInv, LockInv, NumberInv, TurnInv, OrderInv, [Next]_vars
  PROVE  OrderInv'
<1> USE SendAssumption, NoQueueAssumption
<1>0. SUFFICES ASSUME seen' = {} PROVE OrderInv'
  BY DEF OrderInv
<1>1. seen = {}
  BY <1>0 DEF Next, vars, LookUp, Lock, Emit, Fail, Stage, Pass, Copy, Pop, Unlock, Cleanup,
              Close, TogglePolicy, Tick
<1>2. CASE UNCHANGED vars
  BY <1>2 DEF vars, OrderInv, Sending
<1>3. ASSUME NEW t \in Threads, LookUp(t) PROVE OrderInv'
  <2>1. /\ calls' = calls + 1 /\ pkt' = [pkt EXCEPT ![t] = calls + 1]
        /\ pc' = [pc EXCEPT ![t] = "lock"] /\ calls \in Nat
        /\ UNCHANGED <<accepted, policy, faults>>
    BY <1>3 DEF LookUp, TypeOK
  <2>2. \A u \in Threads : pc[u] = "idle"
    BY <1>0, <1>3 DEF LookUp
  <2>3. \A u \in Threads : /\ Sending(u)' => u = t
                           /\ pc'[u] \in {"send", "copy"} => faults'[u]
    BY <2>1, <2>2 DEF Sending, TypeOK
  <2>4. pkt'[t] = calls + 1
    BY <2>1 DEF TypeOK
  <2>5. /\ policy /\ \A i, j \in 1 .. Len(accepted) : i < j => accepted[i] < accepted[j]
        /\ \A i \in 1 .. Len(accepted) : accepted[i] <= calls
    BY <1>1 DEF OrderInv
  <2>6. \A i \in 1 .. Len(accepted) : accepted[i] \in Nat
    <3>1. \A i \in 1 .. Len(accepted) : accepted[i] \in 1 .. Packets
      BY ElementOfSeq DEF TypeOK
    <3> QED
      BY <3>1
  <2>7. \A i \in 1 .. Len(accepted) : accepted[i] <= calls + 1 /\ accepted[i] < calls + 1
    BY <2>1, <2>5, <2>6
  <2>8. /\ \A i, j \in 1 .. Len(queue'[entry']) : i < j => queue'[entry'][i] < queue'[entry'][j]
        /\ \A i \in 1 .. Len(queue'[entry']) : queue'[entry'][i] < calls + 1
    <3>1. CASE entry # NoQueue
      <4>1. entry' = entry /\ queue' = queue /\ entry \in Queues
        BY <1>3, <3>1 DEF LookUp, TypeOK
      <4>2. \A i, j \in 1 .. Len(queue[entry]) : i < j => queue[entry][i] < queue[entry][j]
        BY <1>1, <3>1 DEF OrderInv
      <4>3. \A i \in 1 .. Len(queue[entry]) : queue[entry][i] \in 1 .. Packets
        <5>1. queue[entry] \in Seq(1 .. Packets)
          BY <4>1 DEF TypeOK
        <5> QED
          BY <5>1, ElementOfSeq
      <4>4. \A i \in 1 .. Len(queue[entry]) : queue[entry][i] <= calls
        BY <4>1 DEF NumberInv
      <4>5. \A i \in 1 .. Len(queue[entry]) : queue[entry][i] < calls + 1
        BY <2>1, <4>3, <4>4
      <4> QED
        BY <4>1, <4>2, <4>5
    <3>2. CASE entry = NoQueue
      <4>4. PICK x \in Queues : entry' = x /\ queue' = [queue EXCEPT ![x] = <<>>]
        BY <1>3, <3>2, LookedUp
      <4>2. queue'[entry'] = <<>>
        BY <4>4 DEF TypeOK
      <4>3. Len(<<>>) = 0
        BY EmptySeq
      <4> QED
        BY <4>2, <4>3
    <3> QED
      BY <3>1, <3>2
  <2> QED
    BY <2>1, <2>3, <2>4, <2>5, <2>7, <2>8 DEF OrderInv
<1>4. ASSUME NEW t \in Threads, Served(t) PROVE OrderInv'
  <2>1. PICK all \in Seq(1 .. Packets), n \in Nat, k \in Nat : Serves(t, all, n, k)
    BY <1>4, CallServes
  <2> QED
    BY <1>1, <1>4, <2>1, ServedOrder
<1>5. ASSUME NEW t \in Threads, Cleanup(t) PROVE OrderInv'
  <2>1. /\ UNCHANGED <<queue, accepted, calls, policy, faults, pkt>>
        /\ entry' = entry \/ entry' = NoQueue
    BY <1>5 DEF Cleanup
  <2>2. \A u \in Threads : /\ Sending(u)' => Sending(u)
                           /\ pc'[u] \in {"send", "copy"} => pc'[u] = pc[u]
    BY <1>5 DEF Cleanup, Sending, TypeOK
  <2> QED
    BY <1>1, <2>1, <2>2 DEF OrderInv
<1>6. CASE Close \/ Tick \/ \E t \in Threads : Copy(t)
  <2>1. /\ UNCHANGED <<queue, accepted, calls, policy, faults, pkt, pc>>
        /\ entry' = entry \/ entry' = NoQueue
    BY <1>6 DEF Close, Tick, Copy
  <2> QED
    BY <1>1, <2>1 DEF OrderInv, Sending
<1>7. CASE TogglePolicy
  BY <1>0, <1>7 DEF TogglePolicy
<1> QED
  BY <1>2, <1>3, <1>4, <1>5, <1>6, <1>7 DEF Next, Served

\* Sets of later calls are finite.
LEMMA LaterFinite ==
  ASSUME TypeOK, NEW i \in Nat, NEW S \in SUBSET (i + 1 .. Len(accepted))
  PROVE  IsFiniteSet(S) /\ Cardinality(S) \in Nat
<1>1. Len(accepted) \in Nat
  BY LenProperties DEF TypeOK
<1>2. IsFiniteSet(i + 1 .. Len(accepted))
  BY <1>1, FS_Interval
<1>3. IsFiniteSet(S)
  BY <1>2, FS_Subset
<1> QED
  BY <1>3, FS_CardinalityType

\* The packet of call t joins those that overtake others if it is sent.
Joins(k) == IF k > 0 THEN {Len(accepted) + 1} ELSE {}

\* In a step of a call only its own packet overtakes one that is held at position m: one
\* sent from the queue before it was accepted before it.
LEMMA Overtaken ==
  ASSUME TypeOK, CallInv, PlaceInv, TurnInv, OrderInv, seen = {},
         NEW t \in Threads, NEW all \in Seq(1 .. Packets),
         NEW n \in Nat, NEW k \in Nat, Serves(t, all, n, k),
         NEW i \in 1 .. Len(accepted), NEW m \in 1 .. Len(queue[que[t]]),
         accepted[i] = queue[que[t]][m],
         NEW j \in i + 1 .. Len(accepted'), NEW x \in 1 .. Len(wire'), accepted'[j] = wire'[x][1]
  PROVE  j \in Over(i) \cup Joins(k)
<1>1. /\ QueueAfter(t, all, n, k) /\ WireAfter(t, all, n, k) /\ CallsAfter(t, k)
      /\ AcceptedAfter(t, all, k) /\ InOrder(t, all) /\ n + k <= 1
  BY ServedInOrder DEF Serves
<1>2. PICK w \in Nat : w = Len(wire) /\ Len(wire') = w + k + n
  BY <1>1 DEF WireAfter
<1>3. PICK c \in Nat : c = Len(accepted)
  BY <1>1 DEF AcceptedAfter
<1>4. PICK a \in Nat : a = Len(all) /\ n <= a /\ m \in 1 .. a
  <2>1. Len(all) \in Nat /\ n <= Len(all) /\ Len(queue[que[t]]) \in Nat /\ Len(queue[que[t]]) <= Len(all)
    BY <1>1 DEF QueueAfter
  <2>2. m \in 1 .. Len(all)
    BY <2>1
  <2> QED
    BY <2>1, <2>2
<1>5. all[m] = accepted[i] /\ all[m] \in Nat
  BY <1>1, <1>4 DEF QueueAfter, InOrder
<1>6. Sending(t) => pkt[t] \in Nat
  BY <1>1 DEF CallsAfter, Sending, Owning
<1>7. /\ \A y \in 1 .. c : y > i => accepted[y] > accepted[i]
      /\ \A y \in 1 .. c : accepted[y] \in Nat
      /\ Sending(t) => \A y \in 1 .. c : accepted[y] < pkt[t]
  <2>1. \A y \in 1 .. c : accepted[y] \in Nat
    BY <1>1, <1>3 DEF AcceptedAfter
  <2> QED
    BY <1>3, <1>6, <2>1 DEF OrderInv
\* A held packet that is sent is the first of the queue.
<1>8. ASSUME x > w + k PROVE accepted'[j] <= accepted[i]
  <2>1. x = w + k + 1 /\ n = 1 /\ k = 0
    <3>1. x \in Nat /\ x <= w + k + n
      BY <1>2
    <3>2. n > 0
      BY <1>8, <3>1
    <3>3. n = 1 /\ k = 0
      BY <1>1, <3>2
    <3> QED
      BY <1>8, <3>1, <3>3
  <2>2. all[1] <= all[m] /\ all[1] \in Nat
    <3>1. CASE m = 1
      <4>1. all[1] = all[m]
        BY <3>1
      <4>2. all[m] <= all[m]
        BY <1>5, SMTT(40)
      <4> QED
        BY <1>5, <4>1, <4>2
    <3>2. CASE m > 1
      BY <1>1, <1>4, <1>5, <3>2 DEF InOrder
    <3> QED
      BY <3>1, <3>2
  <2>3. wire'[Len(wire) + k + 1] = <<all[1], epoch>>
    <3>1. \A y \in 1 .. n : wire'[Len(wire) + k + y] = <<all[y], epoch>>
      BY <1>1, Zenon DEF WireAfter
    <3>2. 1 \in 1 .. n
      BY <2>1
    <3> QED
      BY <3>1, <3>2
  <2>4. wire'[x][1] = all[1]
    BY <1>2, <2>1, <2>3
  <2> QED
    BY <1>5, <2>2, <2>4
<1>9. x \in 1 .. w \/ x \in w + 1 .. w + k \/ x > w + k
  BY <1>2
<1>10. CASE j \in 1 .. c
  <2>1. /\ accepted'[j] = accepted[j] /\ accepted[j] > accepted[i]
        /\ accepted[j] \in Nat /\ accepted[i] \in Nat
    BY <1>1, <1>3, <1>7, <1>10 DEF AcceptedAfter
  <2>2. x \notin w + 1 .. w + k
    <3>1. ASSUME x \in w + 1 .. w + k PROVE FALSE
      <4>1. wire'[x] = <<pkt[t], epoch>>
        BY <1>1, <1>2, <3>1 DEF WireAfter
      <4>2. wire'[x][1] = pkt[t]
        BY <4>1
      <4>3. accepted[j] = pkt[t]
        BY <2>1, <4>2
      <4>4. Sending(t)
        BY <1>1, <3>1 DEF CallsAfter
      <4> QED
        BY <1>6, <1>7, <1>10, <4>3, <4>4
    <3> QED
      BY <3>1
  <2>3. ~(x > w + k)
    <3>1. ASSUME x > w + k PROVE FALSE
      <4>1. accepted[j] <= accepted[i]
        BY <1>8, <2>1, <3>1
      <4> QED
        BY <2>1, <4>1, SMTT(40)
    <3> QED
      BY <3>1
  <2>4. x \in 1 .. w
    BY <1>9, <2>2, <2>3
  <2>5. wire[x][1] = accepted[j]
    BY <1>1, <1>2, <2>1, <2>4 DEF WireAfter
  <2>6. accepted[j] \in OnWire
    BY <1>2, <2>4, <2>5, Whereabouts
  <2> QED
    BY <1>3, <1>10, <2>6 DEF Over
<1>11. CASE j \notin 1 .. c
  <2>1. j = c + 1 /\ accepted'[j] = pkt[t] /\ Sending(t)
    <3>1. Len(accepted') = c \/ (Len(accepted') = c + 1 /\ accepted'[c + 1] = pkt[t] /\ Sending(t))
      BY <1>1, <1>3 DEF AcceptedAfter
    <3>2. i \in 1 .. c /\ j \in i + 1 .. Len(accepted')
      BY <1>3
    <3> QED
      BY <1>11, <3>1, <3>2
  <2>2. CASE k > 0
    BY <1>3, <2>1, <2>2 DEF Joins
  <2>3. CASE k = 0
    <3>1. x \in 1 .. w
      <4>1. pkt[t] > accepted[i] /\ accepted[i] \in Nat
        BY <1>3, <1>6, <1>7, <2>1
      <4>2. ~(x > w + k)
        <5>1. ASSUME x > w + k PROVE FALSE
          <6>1. pkt[t] <= accepted[i]
            BY <1>8, <2>1, <5>1
          <6> QED
            BY <1>6, <2>1, <4>1, <6>1, SMTT(40)
        <5> QED
          BY <5>1
      <4>3. x \notin w + 1 .. w + k
        BY <2>3
      <4> QED
        BY <1>9, <4>2, <4>3
    <3>2. wire[x][1] = pkt[t]
      BY <1>1, <1>2, <2>1, <3>1 DEF WireAfter
    <3> QED
      BY <1>2, <2>1, <3>1, <3>2 DEF PlaceInv
  <2> QED
    BY <2>2, <2>3
<1> QED
  BY <1>10, <1>11

\* What overtakes packet accepted[i], by position.
LEMMA OvertakingShape ==
  ASSUME TypeOK, NEW i, NEW j
  PROVE  j \in Overtaking(i) <=>
           /\ j \in i + 1 .. Len(accepted)
           /\ \E x \in 1 .. Len(wire) : /\ accepted[j] = wire[x][1]
                                        /\ \A y \in 1 .. x - 1 : wire[y][1] # accepted[i]
<1>1. DOMAIN wire = 1 .. Len(wire)
  BY LenProperties DEF TypeOK
<1> QED
  BY <1>1 DEF Overtaking, Before

\* The slack of a step: what a call sends of its own it still owes the queue, and what it
\* takes off the queue it no longer owes.
SlackAfter(n, k) ==
  /\ Slack(entry)' \in 0 .. 1
  /\ Len(queue[entry]) > 0 => Slack(entry)' >= Slack(entry) + k - n
  /\ k > 0 => Slack(entry) = 0

\* While calls do not overlap, it is that of the one in progress.
LEMMA ServedSlack ==
  ASSUME TypeOK, TypeOK', CallInv, LockInv, WithinWindow, TurnInv, OrderInv, DisplaceInv,
         seen = {}, NEW t \in Threads, NEW all \in Seq(1 .. Packets),
         NEW n \in Nat, NEW k \in Nat, Serves(t, all, n, k), Served(t)
  PROVE  SlackAfter(n, k) /\ (~Sending(t)' => due'[entry] <= Slack(entry)')
<1> USE SendAssumption, NoQueueAssumption
<1>0. Limit \in Nat
  BY DEF Limit
<1>1. /\ QueueAfter(t, all, n, k) /\ WireAfter(t, all, n, k) /\ CallsAfter(t, k) /\ n + k <= 1
      /\ entry' = entry /\ Active(t)
  BY DEF Serves, CallsAfter
<1>2. que[t] = entry /\ entry \in Queues /\ entry # NoQueue
  BY <1>1 DEF TurnInv, QueueAfter
<1>3. \A u \in Threads : u # t => pc[u] = "idle" /\ pc'[u] = "idle"
  <2>1. \A u \in Threads : u # t => pc[u] = "idle"
    BY <1>1 DEF TurnInv, Active
  <2> QED
    BY <1>1, <2>1 DEF CallsAfter
<1>4. Slack(entry) = IF pc[t] = "copy" THEN 1 ELSE IF pc[t] = "done" THEN due[entry] ELSE 0
  <2>1. \A v : v # "idle" => ((\E u \in Threads : pc[u] = v) <=> pc[t] = v)
    BY <1>3
  <2>2. /\ (\E u \in Threads : pc[u] = "copy") <=> pc[t] = "copy"
        /\ (\E u \in Threads : pc[u] = "done") <=> pc[t] = "done"
    BY <2>1
  <2> QED
    BY <2>2 DEF Slack
<1>5. Slack(entry)' = IF pc'[t] = "copy" THEN 1 ELSE IF pc'[t] = "done" THEN due'[entry] ELSE 0
  <2>1. \A v : v # "idle" => ((\E u \in Threads : pc'[u] = v) <=> pc'[t] = v)
    BY <1>3
  <2>2. /\ (\E u \in Threads : pc'[u] = "copy") <=> pc'[t] = "copy"
        /\ (\E u \in Threads : pc'[u] = "done") <=> pc'[t] = "done"
    BY <2>1
  <2> QED
    BY <1>1, <2>2 DEF Slack
<1>6. due[entry] \in Nat /\ due'[entry] \in Nat /\ Slack(entry) <= 1
  BY <1>2 DEF TypeOK, DisplaceInv
<1>7. /\ pc'[t] = "copy" <=> k > 0
      /\ k > 0 => Sending(t)
      /\ ~Sending(t)' => due'[entry] <= Slack(entry)'
  <2>1. DueAfter(t)
    BY ServedDue
  <2>2. due'[entry] > 0 => pc'[t] \in {"send", "done"}
    BY <1>2, <2>1 DEF DueAfter
  <2>3. (pc'[t] = "copy" <=> k > 0) /\ (k > 0 => Sending(t))
    BY <1>1 DEF CallsAfter
  <2>4. ASSUME ~Sending(t)' PROVE due'[entry] <= Slack(entry)'
    <3>1. pc'[t] # "send"
      BY <2>4 DEF Sending
    <3>2. CASE due'[entry] > 0
      BY <1>5, <1>6, <2>2, <3>1, <3>2
    <3>3. CASE due'[entry] = 0
      BY <1>5, <1>6, <3>3
    <3> QED
      BY <1>6, <3>2, <3>3
  <2> QED
    BY <2>3, <2>4
<1>8. k > 0 => Slack(entry) = 0
  BY <1>4, <1>7 DEF Sending
\* Before its packet leaves the call, nothing is owed.
<1>9. ASSUME pc[t] \in {"lock", "send"}, Slack(entry)' \in 0 .. 1 PROVE SlackAfter(n, k)
  <2>1. Slack(entry) = 0
    BY <1>4, <1>9
  <2>2. k > 0 => Slack(entry)' = 1
    BY <1>5, <1>7
  <2>3. Slack(entry)' >= Slack(entry) + k - n
    BY <1>1, <1>9, <2>1, <2>2
  <2> QED
    BY <1>9, <2>1, <2>3 DEF SlackAfter
<1>10. ASSUME k = 0, Slack(entry)' \in 0 .. 1,
              Len(queue[entry]) > 0 => Slack(entry)' >= Slack(entry) - n
       PROVE  SlackAfter(n, k)
  <2>1. Slack(entry) \in Nat
    BY <1>4, <1>6
  <2>2. Slack(entry) + k - n = Slack(entry) - n
    BY <1>10, <2>1
  <2> QED
    BY <1>8, <1>10, <2>2 DEF SlackAfter
<1>11. CASE Lock(t)
  <2>1. pc[t] = "lock" /\ pc'[t] = "send"
    BY <1>11 DEF Lock, TypeOK
  <2>2. Slack(entry)' = 0
    BY <1>5, <2>1
  <2> QED
    BY <1>7, <1>9, <2>1, <2>2
<1>12. CASE Emit(t)
  <2>1. /\ pc[t] \in {"send", "done"} /\ pc'[t] = pc[t]
        /\ due[entry] > 0 /\ due'[entry] = due[entry] - 1
    BY <1>2, <1>12 DEF Emit, TypeOK
  <2>2. CASE pc[t] = "send"
    <3>1. Slack(entry)' = 0
      BY <1>5, <2>1, <2>2
    <3> QED
      BY <1>7, <1>9, <2>2, <3>1
  <2>3. CASE pc[t] = "done"
    <3>1. k = 0
      BY <1>7, <2>1, <2>3
    <3>2. n = 1
      <4>1. /\ Len(wire') = Len(wire) + k + n /\ Len(wire) \in Nat
        BY <1>1 DEF WireAfter
      <4>2. Len(wire') = Len(wire) + 1
        <5>1. Head(queue[entry]) \in 1 .. Packets
          <6>1. due[entry] <= Len(queue[entry]) /\ queue[entry] \in Seq(1 .. Packets)
            BY <1>2 DEF LockInv, TypeOK
          <6>2. Len(queue[entry]) \in Nat
            BY <6>1, LenProperties
          <6>3. queue[entry] # <<>>
            BY <1>6, <2>1, <6>1, <6>2, EmptySeq
          <6> QED
            BY <6>1, <6>3, HeadTailProperties
        <5>2. PICK p \in 1 .. Packets : p = Head(queue[entry]) /\ Transmit(p)
          BY <1>2, <1>12, <5>1 DEF Emit
        <5> QED
          BY <5>2, Transmitted
      <4> QED
        BY <3>1, <4>1, <4>2
    <3>3. Slack(entry) = due[entry] /\ Slack(entry)' = due[entry] - 1
      BY <1>4, <1>5, <2>1, <2>3
    <3>4. Slack(entry)' \in 0 .. 1 /\ Slack(entry)' >= Slack(entry) - n
      BY <1>6, <2>1, <3>2, <3>3
    <3> QED
      BY <1>7, <1>10, <3>1, <3>4
  <2> QED
    BY <2>1, <2>2, <2>3
<1>13. CASE Fail(t)
  <2>1. pc[t] = "send" /\ pc'[t] = "done" /\ due'[entry] = 0
    BY <1>2, <1>13 DEF Fail, Ready, TypeOK
  <2>2. Slack(entry)' = 0
    BY <1>5, <2>1
  <2> QED
    BY <1>7, <1>9, <2>1, <2>2
<1>14. CASE Stage(t)
  <2>1. pc[t] = "send" /\ pc'[t] = "done" /\ due[entry] = 0
    BY <1>2, <1>14 DEF Stage, Ready, TypeOK
  <2>2. due'[entry] = IF Len(Staged(t)) > Limit THEN Len(Staged(t)) - Limit ELSE 0
    BY <1>2, <1>14 DEF Stage, TypeOK
  <2>3. Len(queue[entry]) \in Nat /\ Len(queue[entry]) <= Limit
    <3>1. Len(queue[entry]) \in Nat /\ Len(queue[entry]) - due[entry] <= Limit
      BY <1>2, LenProperties DEF TypeOK, WithinWindow
    <3> QED
      BY <1>0, <2>1, <3>1
  <2>4. Len(Staged(t)) = Len(queue[entry]) + 1
    <3>1. queue[entry] \in Seq(1 .. Packets) /\ pkt[t] \in 1 .. Packets
      <4>1. pkt[t] \in 1 .. calls /\ calls \in 0 .. Packets
        BY <2>1 DEF CallInv, Owning, TypeOK
      <4> QED
        BY <1>2, <4>1 DEF TypeOK
    <3> QED
      BY <1>2, <3>1, AppendProperties DEF Staged
  <2>5. Slack(entry)' \in 0 .. 1
    <3>1. due'[entry] \in 0 .. 1
      BY <1>0, <2>2, <2>3, <2>4
    <3> QED
      BY <1>5, <2>1, <3>1
  <2> QED
    BY <1>7, <1>9, <2>1, <2>5
<1>15. CASE Pass(t)
  <2>1. pc[t] = "send" /\ pc'[t] = "copy"
    BY <1>15 DEF Pass, Ready, TypeOK
  <2>2. Slack(entry)' = 1
    BY <1>5, <2>1
  <2> QED
    BY <1>7, <1>9, <2>1, <2>2
<1>16. CASE Pop(t)
  <2>1. pc[t] = "copy" /\ pc'[t] = "done"
    BY <1>16 DEF Pop, TypeOK
  <2>2. k = 0 /\ Slack(entry) = 1 /\ Slack(entry)' = due'[entry]
    BY <1>4, <1>5, <1>7, <2>1
  <2>3. faults[t]
    BY <2>1 DEF OrderInv
  <2>4. due'[entry] = IF faults[t] /\ queue[entry] # <<>> THEN 1 ELSE 0
    BY <1>2, <1>16, Zenon DEF Pop, TypeOK
  <2>5. Len(queue[entry]) > 0 => due'[entry] = 1
    BY <2>3, <2>4, EmptySeq
  <2>6. due'[entry] \in 0 .. 1
    BY <2>4
  <2>7. Len(queue[entry]) > 0 => Slack(entry)' >= Slack(entry) - n
    BY <2>2, <2>5
  <2> QED
    BY <1>7, <1>10, <2>2, <2>6, <2>7
<1>17. CASE Unlock(t)
  <2>1. pc[t] = "done" /\ pc'[t] \in {"cleanup", "idle"} /\ due[entry] = 0
    BY <1>2, <1>17 DEF Unlock, TypeOK
  <2>2. k = 0 /\ Slack(entry) = 0 /\ Slack(entry)' = 0
    BY <1>4, <1>5, <1>7, <2>1
  <2> QED
    BY <1>7, <1>10, <2>2
<1> QED
  BY <1>7, <1>11, <1>12, <1>13, <1>14, <1>15, <1>16, <1>17 DEF Served

\* Packets that are on the wire are overtaken by no more once they are.
LEMMA NoLater ==
  ASSUME TypeOK, TypeOK', NEW w \in Nat, NEW c \in Nat, w = Len(wire), c = Len(accepted),
         Len(wire') \in Nat, Len(wire') >= w, \A y \in 1 .. w : wire'[y] = wire[y],
         \A y \in 1 .. c : accepted'[y] = accepted[y],
         Len(accepted') = c \/ ( /\ Len(accepted') = c + 1
                                 /\ \A y \in 1 .. w : wire[y][1] # accepted'[c + 1] ),
         NEW i \in 1 .. c, accepted[i] \in OnWire
  PROVE  Overtaking(i)' \subseteq Overtaking(i)
<1>1. PICK z \in 1 .. w : wire[z][1] = accepted[i]
  BY Whereabouts
<1>2. DOMAIN wire' = 1 .. Len(wire') /\ accepted'[i] = accepted[i]
  BY LenProperties DEF TypeOK
<1>3. ASSUME NEW j, j \in Overtaking(i)' PROVE j \in Overtaking(i)
  <2>1. PICK x \in 1 .. Len(wire') : /\ accepted'[j] = wire'[x][1]
                                     /\ \A y \in 1 .. x - 1 : wire'[y][1] # accepted[i]
    <3>1. accepted'[j] \in {wire'[m][1] : m \in {x \in DOMAIN wire' :
                                            \A y \in 1 .. x - 1 : wire'[y][1] # accepted'[i]}}
      BY <1>3 DEF Overtaking, Before
    <3>2. PICK x \in DOMAIN wire' : /\ accepted'[j] = wire'[x][1]
                                    /\ \A y \in 1 .. x - 1 : wire'[y][1] # accepted'[i]
      BY <3>1
    <3> QED
      BY <1>2, <3>2
  <2>2. j \in i + 1 .. Len(accepted')
    BY <1>3 DEF Overtaking
  <2>3. z \notin 1 .. x - 1
    BY <1>1, <2>1
  <2>4. x \in 1 .. w /\ \A y \in 1 .. x - 1 : y \in 1 .. w
    BY <2>3
  <2>5. accepted'[j] = wire[x][1] /\ \A y \in 1 .. x - 1 : wire[y][1] # accepted[i]
    BY <2>1, <2>4
  <2>6. j # c + 1 \/ Len(accepted') = c
    BY <2>4, <2>5
  <2>7. j \in i + 1 .. c
    BY <2>2, <2>6, SMTT(40)
  <2>8. accepted[j] = wire[x][1]
    BY <2>5, <2>7
  <2> QED
    BY <2>4, <2>5, <2>7, <2>8, OvertakingShape
<1> QED
  BY <1>3

\* And so no packet that was bounded becomes unbounded.
LEMMA NoLaterBound ==
  ASSUME TypeOK, NEW i \in 1 .. Len(accepted), Overtaking(i)' \subseteq Overtaking(i),
         Cardinality(Overtaking(i)) <= Limit
  PROVE  Cardinality(Overtaking(i)') <= Limit
<1>1. Limit \in Nat /\ i \in Nat
  BY SendAssumption DEF Limit
<1>2. Overtaking(i) \in SUBSET (i + 1 .. Len(accepted))
  BY DEF Overtaking
<1>3. IsFiniteSet(Overtaking(i)) /\ Cardinality(Overtaking(i)) \in Nat
  BY <1>1, <1>2, LaterFinite
<1>4. Cardinality(Overtaking(i)') <= Cardinality(Overtaking(i)) /\ Cardinality(Overtaking(i)') \in Nat
  BY <1>3, FS_Subset, FS_CardinalityType
<1> QED
  BY <1>1, <1>3, <1>4

\* Steps of calls displace no packet further than the window allows.
LEMMA ServedDisplaced ==
  ASSUME TypeOK, TypeOK', CallInv, LockInv, PlaceInv, TurnInv, NothingLost, WithinWindow,
         WithinWindow', OrderInv, DisplaceInv, BoundedDisplacement, seen = {},
         NEW t \in Threads, NEW all \in Seq(1 .. Packets),
         NEW n \in Nat, NEW k \in Nat, Serves(t, all, n, k), Served(t)
  PROVE  DisplaceInv' /\ BoundedDisplacement'
<1> USE SendAssumption, NoQueueAssumption
<1>0. Limit \in Nat /\ Limit' = Limit
  BY DEF Limit
<1>1. /\ QueueAfter(t, all, n, k) /\ WireAfter(t, all, n, k) /\ CallsAfter(t, k)
      /\ AcceptedAfter(t, all, k) /\ InOrder(t, all) /\ n + k <= 1
  BY ServedInOrder DEF Serves
<1>2. /\ que[t] = entry /\ entry \in Queues /\ entry' = entry /\ entry # NoQueue
      /\ discarded' = discarded /\ Active(t) /\ (Sending(t) => pkt[t] \in Nat)
  <2>1. Active(t) /\ que[t] \in Queues /\ (Sending(t) => pkt[t] \in Nat)
    BY <1>1 DEF CallsAfter, QueueAfter, Sending, Owning
  <2>2. que[t] = entry
    BY <2>1 DEF TurnInv
  <2> QED
    BY <2>1, <2>2 DEF Serves
<1>3. PICK w \in Nat : w = Len(wire) /\ Len(wire') = w + k + n
  BY <1>1 DEF WireAfter
<1>4. PICK c \in Nat : c = Len(accepted) /\ \A i \in 1 .. c : accepted'[i] = accepted[i]
  BY <1>1 DEF AcceptedAfter
<1>5. \/ Len(accepted') = c
      \/ Len(accepted') = c + 1 /\ accepted'[c + 1] = pkt[t] /\ Sending(t) /\ ~Sending(t)'
  BY <1>1, <1>4 DEF AcceptedAfter
<1>6. PICK a \in Nat : a = Len(all) /\ n <= a /\ Len(queue'[entry]) = a - n
  BY <1>1, <1>2 DEF QueueAfter
<1>7. PICK l \in Nat : l = Len(queue[entry]) /\ l <= a
  BY <1>1, <1>2, <1>6 DEF QueueAfter
<1>8. DOMAIN wire' = 1 .. w + k + n /\ DOMAIN wire = 1 .. w /\ DOMAIN accepted = 1 .. c
  BY <1>3, <1>4, LenProperties DEF TypeOK
<1>9. DOMAIN accepted' = 1 .. Len(accepted')
  BY LenProperties DEF TypeOK
\* What the packets that overtake a held one come to.
<1>10. ASSUME NEW i \in 1 .. c
       PROVE  /\ IsFiniteSet(Over(i) \cup Joins(k))
              /\ Cardinality(Over(i)) \in Nat
              /\ Cardinality(Over(i) \cup Joins(k)) <= Cardinality(Over(i)) + k
  <2>1. Over(i) \in SUBSET (i + 1 .. Len(accepted)) /\ i \in Nat
    BY DEF Over
  <2>2. IsFiniteSet(Over(i)) /\ Cardinality(Over(i)) \in Nat
    BY <2>1, LaterFinite
  <2>3. CASE k > 0
    <3>1. c + 1 \notin Over(i) /\ Joins(k) = {c + 1}
      BY <1>4, <2>3 DEF Over, Joins
    <3>2. PICK S : S = Over(i)
      OBVIOUS
    <3>3. IsFiniteSet(S \cup {c + 1}) /\ Cardinality(S \cup {c + 1}) = Cardinality(S) + 1
      BY <2>2, <3>1, <3>2, FS_AddElement
    <3>4. Over(i) \cup Joins(k) = S \cup {c + 1}
      BY <3>1, <3>2
    <3>5. Cardinality(S) \in Nat /\ Cardinality(S) + 1 <= Cardinality(S) + k
      BY <2>2, <2>3, <3>2
    <3> QED
      BY <3>2, <3>3, <3>4, <3>5, Zenon
  <2>4. CASE k = 0
    <3>1. Over(i) \cup Joins(k) = Over(i)
      BY <2>4 DEF Joins
    <3>2. Cardinality(Over(i)) <= Cardinality(Over(i)) + k
      BY <2>2
    <3> QED
      BY <2>2, <3>1, <3>2
  <2> QED
    BY <2>3, <2>4
<1>11. /\ SlackAfter(n, k) /\ (~Sending(t)' => due'[entry] <= Slack(entry)')
  BY ServedSlack
<1>12. PICK s \in Int, r \in 0 .. 1 : /\ s = Slack(entry) /\ r = Slack(entry)' /\ s <= 1
                                      /\ k > 0 => s = 0
                                      /\ l > 0 => r >= s + k - n
  <2>1. Slack(entry) \in Int
    <3>1. due[entry] \in Int
      BY <1>2 DEF TypeOK
    <3> QED
      BY <3>1 DEF Slack
  <2>2. Slack(entry) <= 1
    BY <1>2 DEF DisplaceInv
  <2> QED
    BY <1>7, <1>11, <2>1, <2>2 DEF SlackAfter
<1>13. ASSUME NEW i \in 1 .. c, NEW m \in 1 .. l, accepted[i] = queue[entry][m]
       PROVE  /\ Cardinality(Overtaking(i)') <= Limit
              /\ Cardinality(Over(i)') + (m - n) <= Limit + r
  <2>1. Cardinality(Over(i)) + m <= Limit + s
    BY <1>2, <1>4, <1>7, <1>12, <1>13 DEF DisplaceInv
  <2>2. Cardinality(Over(i) \cup Joins(k)) \in Nat
    BY <1>10, FS_CardinalityType
  <2>3. ASSUME NEW j, j \in i + 1 .. Len(accepted'), NEW x \in 1 .. Len(wire'),
               accepted'[j] = wire'[x][1]
        PROVE  j \in Over(i) \cup Joins(k)
    BY <1>2, <1>4, <1>7, <1>13, <2>3, Overtaken
  <2>4. Overtaking(i)' \in SUBSET (Over(i) \cup Joins(k))
    <3>1. ASSUME NEW j, j \in Overtaking(i)' PROVE j \in Over(i) \cup Joins(k)
      <4>1. PICK x \in 1 .. Len(wire') : accepted'[j] = wire'[x][1]
        BY <1>3, <1>8, <3>1 DEF Overtaking, Before
      <4>2. j \in i + 1 .. Len(accepted')
        BY <3>1 DEF Overtaking
      <4> QED
        BY <2>3, <4>1, <4>2
    <3> QED
      BY <3>1
  <2>5. Over(i)' \in SUBSET (Over(i) \cup Joins(k))
    <3>1. ASSUME NEW j, j \in Over(i)' PROVE j \in Over(i) \cup Joins(k)
      <4>1. PICK x \in 1 .. Len(wire') : accepted'[j] = wire'[x][1]
        BY <1>3, <1>8, <3>1 DEF Over, OnWire
      <4>2. j \in i + 1 .. Len(accepted')
        BY <3>1 DEF Over
      <4> QED
        BY <2>3, <4>1, <4>2
    <3> QED
      BY <3>1
  <2>6. Cardinality(Overtaking(i)') <= Cardinality(Over(i) \cup Joins(k))
        /\ Cardinality(Overtaking(i)') \in Nat
    BY <1>10, <2>4, FS_Subset, FS_CardinalityType
  <2>7. Cardinality(Over(i)') <= Cardinality(Over(i) \cup Joins(k))
        /\ Cardinality(Over(i)') \in Nat
    BY <1>10, <2>5, FS_Subset, FS_CardinalityType
  <2>8. PICK g \in Nat, h \in Nat, f \in Nat, e \in Nat :
          /\ g = Cardinality(Over(i)) /\ h = Cardinality(Over(i) \cup Joins(k))
          /\ f = Cardinality(Overtaking(i)') /\ e = Cardinality(Over(i)')
    BY <1>10, <2>2, <2>6, <2>7
  <2>9. g + m <= Limit + s /\ h <= g + k /\ f <= h /\ e <= h
    BY <1>10, <2>1, <2>6, <2>7, <2>8
  <2>10. f <= Limit
    <3>1. CASE k > 0
      BY <1>0, <1>1, <1>12, <2>9, <3>1
    <3>2. CASE k = 0
      BY <1>0, <1>12, <2>9, <3>2
    <3> QED
      BY <3>1, <3>2
  <2>11. e + (m - n) <= Limit + r
    <3>1. r >= s + k - n
      BY <1>7, <1>12
    <3> QED
      BY <1>0, <2>9, <3>1
  <2> QED
    BY <2>8, <2>10, <2>11
<1>14. DisplaceInv'
  <2>1. ASSUME NEW m \in 1 .. a - n, NEW i \in 1 .. Len(accepted'), accepted'[i] = queue'[entry][m]
        PROVE  Cardinality(Over(i)') + m <= Limit + r
    <3>1. queue'[entry][m] = all[m + n] /\ m + n \in 1 .. a
      BY <1>1, <1>2, <1>6 DEF QueueAfter
    <3>2. CASE i \in 1 .. c
      <4>1. PICK y \in 1 .. a : y = m + n
        BY <3>1
      <4>2. accepted[i] = all[y] /\ accepted[i] \in Nat /\ (Sending(t) => accepted[i] < pkt[t])
        BY <1>1, <1>2, <1>4, <2>1, <3>1, <3>2, <4>1 DEF OrderInv, AcceptedAfter
      <4>3. (y <= l /\ all[y] = queue[entry][y]) \/ (all[y] = pkt[t] /\ Sending(t))
        BY <1>1, <1>2, <1>6, <1>7, Zenon DEF QueueAfter
      <4>4. ~(all[y] = pkt[t] /\ Sending(t))
        BY <1>2, <4>2
      <4>5. y \in 1 .. l /\ accepted[i] = queue[entry][y] /\ y - n = m
        BY <4>1, <4>2, <4>3, <4>4
      <4>6. Cardinality(Over(i)') + (y - n) <= Limit + r
        BY <1>13, <3>2, <4>5
      <4> QED
        BY <4>5, <4>6
    <3>3. CASE i = c + 1 /\ Len(accepted') = c + 1
      <4>1. Over(i)' = {}
        BY <3>3 DEF Over
      <4>2. m <= Limit + r
        <5>1. a - n - due'[entry] <= Limit /\ due'[entry] \in Nat
          BY <1>0, <1>2, <1>6 DEF WithinWindow, TypeOK
        <5>2. due'[entry] <= r
          BY <1>4, <1>5, <1>11, <1>12, <3>3
        <5> QED
          BY <1>0, <1>6, <5>1, <5>2
      <4>3. Cardinality(Over(i)') = 0
        BY <4>1, FS_EmptySet
      <4> QED
        BY <1>0, <4>2, <4>3
    <3> QED
      BY <1>5, <3>2, <3>3
  <2>2. Slack(entry)' <= 1
    BY <1>12
  <2> QED
    BY <1>0, <1>2, <1>6, <1>12, <2>1, <2>2 DEF DisplaceInv
<1>15. BoundedDisplacement'
  <2>1. ASSUME NEW i \in 1 .. Len(accepted'), accepted'[i] \notin discarded
        PROVE  Cardinality(Overtaking(i)') <= Limit
    <3>1. CASE i = c + 1 /\ Len(accepted') = c + 1
      <4>1. Overtaking(i)' = {}
        BY <3>1 DEF Overtaking
      <4> QED
        BY <1>0, <4>1, FS_EmptySet
    <3>2. CASE i \in 1 .. c
      <4>1. accepted[i] \in OnWire \cup Held /\ accepted'[i] = accepted[i]
        BY <1>4, <1>8, <2>1, <3>2 DEF NothingLost
      <4>2. CASE accepted[i] \in Held
        <5>1. PICK q \in Queues : Live(q) /\ \E m \in 1 .. Len(queue[q]) : queue[q][m] = accepted[i]
          BY <4>2, Whereabouts, Zenon
        <5>2. q = entry
          <6>1. \A u \in Threads : u # t => pc[u] = "idle"
            BY <1>2 DEF TurnInv, Active
          <6>2. \A u \in Threads : u # t => que[u] = NoQueue
            BY <6>1 DEF CallInv
          <6> QED
            BY <1>2, <5>1, <6>2 DEF Live, Unreferenced
        <5>3. PICK m \in 1 .. l : accepted[i] = queue[entry][m]
          BY <1>7, <5>1, <5>2
        <5> QED
          BY <1>13, <3>2, <5>3
      <4>3. CASE accepted[i] \in OnWire
        <5>1. \A y \in 1 .. w : wire'[y] = wire[y]
          BY <1>1, <1>3 DEF WireAfter
        <5>2. Len(accepted') = c \/ ( /\ Len(accepted') = c + 1
                                      /\ \A y \in 1 .. w : wire[y][1] # accepted'[c + 1] )
          BY <1>3, <1>5 DEF PlaceInv
        <5>3. Len(wire') \in Nat /\ Len(wire') >= w
          BY <1>3
        <5>4. Overtaking(i)' \subseteq Overtaking(i)
          BY <1>3, <1>4, <3>2, <4>3, <5>1, <5>2, <5>3, NoLater
        <5>5. Cardinality(Overtaking(i)) <= Limit
          BY <1>8, <2>1, <3>2, <4>1 DEF BoundedDisplacement
        <5> QED
          BY <1>4, <3>2, <5>4, <5>5, NoLaterBound
      <4> QED
        BY <4>1, <4>2, <4>3
    <3> QED
      BY <1>5, <3>1, <3>2
  <2> QED
    BY <1>0, <1>2, <1>9, <2>1 DEF BoundedDisplacement
<1> QED
  BY <1>14, <1>15

\* Neither does any other step.
LEMMA DisplaceStep ==
  ASSUME TypeOK, TypeOK', CallInv, LockInv, PlaceInv, TurnInv, KeptInTurn, WithinWindow,
         WithinWindow', OrderInv, DisplaceInv, BoundedDisplacement, [Next]_vars
  PROVE  DisplaceInv' /\ BoundedDisplacement'
<1> USE SendAssumption, NoQueueAssumption
<1>0. SUFFICES ASSUME seen' = {} PROVE DisplaceInv' /\ BoundedDisplacement'
  BY DEF DisplaceInv, BoundedDisplacement
<1>1. seen = {}
  BY <1>0 DEF Next, vars, LookUp, Lock, Emit, Fail, Stage, Pass, Copy, Pop, Unlock, Cleanup,
              Close, TogglePolicy, Tick
<1>2. ASSUME UNCHANGED <<accepted, wire>>, discarded \subseteq discarded' PROVE BoundedDisplacement'
  <2>1. \A i : Overtaking(i)' = Overtaking(i)
    BY <1>2 DEF Overtaking, Before
  <2> QED
    BY <1>1, <1>2, <2>1 DEF BoundedDisplacement, Limit
<1>3. ASSUME UNCHANGED <<accepted, queue>>, OnWire' = OnWire,
             \/ entry' = NoQueue
             \/ entry' = entry /\ Slack(entry)' = Slack(entry)
      PROVE  DisplaceInv'
  <2>1. \A i : Over(i)' = Over(i)
    BY <1>3 DEF Over
  <2>2. CASE entry' = NoQueue
    BY <2>2 DEF DisplaceInv
  <2>3. CASE entry' # NoQueue
    <3>1. entry' = entry /\ Slack(entry)' = Slack(entry) /\ Limit' = Limit
      BY <1>3, <2>3 DEF Limit
    <3> QED
      BY <1>1, <1>3, <2>1, <2>3, <3>1 DEF DisplaceInv
  <2> QED
    BY <2>2, <2>3
<1>4. ASSUME UNCHANGED <<pc, due, entry>> PROVE Slack(entry)' = Slack(entry)
  BY <1>4 DEF Slack
<1>5. CASE UNCHANGED vars
  <2>1. UNCHANGED <<accepted, queue, wire, discarded, pc, due, entry>>
    BY <1>5 DEF vars
  <2>2. OnWire' = OnWire
    BY <2>1 DEF OnWire
  <2> QED
    BY <1>2, <1>3, <1>4, <2>1, <2>2
<1>6. ASSUME NEW t \in Threads, LookUp(t) PROVE DisplaceInv' /\ BoundedDisplacement'
  <2>1. UNCHANGED <<accepted, wire, discarded>>
    BY <1>6 DEF LookUp
  <2>2. BoundedDisplacement'
    BY <1>2, <2>1
  <2>3. OnWire' = OnWire
    BY <2>1 DEF OnWire
  <2>4. Slack(entry)' = 0 /\ Slack(entry) = 0
    <3>1. \A u \in Threads : pc[u] = "idle"
      BY <1>0, <1>6 DEF LookUp
    <3>2. \A u \in Threads : pc'[u] \in {"idle", "lock"}
      BY <1>6, <3>1 DEF LookUp, TypeOK
    <3> QED
      BY <3>1, <3>2 DEF Slack
  <2>5. CASE entry # NoQueue
    <3>1. entry' = entry /\ queue' = queue
      BY <1>6, <2>5 DEF LookUp
    <3> QED
      BY <1>3, <2>1, <2>2, <2>3, <2>4, <3>1
  <2>6. CASE entry = NoQueue
    <3>1. (CHOOSE x \in Queues : Unreferenced(x)) \in Queues
      BY <1>6, <2>6, QueueFree DEF LookUp
    <3>2. PICK x \in Queues : entry' = x /\ queue' = [queue EXCEPT ![x] = <<>>]
      BY <1>6, <2>6, <3>1 DEF LookUp
    <3>3. queue'[entry'] = <<>> /\ Len(<<>>) = 0
      BY <3>2, EmptySeq DEF TypeOK
    <3>4. \A m : m \notin 1 .. Len(queue'[entry'])
      BY <3>3
    <3>5. Slack(entry)' <= 1
      BY <2>4
    <3> QED
      BY <2>2, <3>4, <3>5, Zenon DEF DisplaceInv
  <2> QED
    BY <2>5, <2>6
<1>7. ASSUME NEW t \in Threads, Served(t) PROVE DisplaceInv' /\ BoundedDisplacement'
  <2>1. PICK all \in Seq(1 .. Packets), n \in Nat, k \in Nat : Serves(t, all, n, k)
    BY <1>7, CallServes
  <2>2. NothingLost
    BY <1>1 DEF KeptInTurn
  <2> QED
    BY <1>1, <1>7, <2>1, <2>2, ServedDisplaced
<1>8. ASSUME NEW t \in Threads, Copy(t) PROVE DisplaceInv' /\ BoundedDisplacement'
  <2>1. PICK p \in 1 .. Packets : p = pkt[t] /\ Transmit(p)
    BY <1>8 DEF Copy, CallInv, Owning, TypeOK
  <2>2. UNCHANGED <<entry, queue, due, pc, accepted, discarded>> /\ pc[t] = "copy"
    BY <1>8 DEF Copy
  <2>3. PICK w \in Nat : /\ w = Len(wire) /\ Len(wire') = w + 1
                         /\ \A i \in 1 .. w : wire'[i] = wire[i]
                         /\ wire'[w + 1] = <<p, epoch>>
    BY <2>1, Transmitted
  <2>4. DOMAIN wire = 1 .. w /\ DOMAIN wire' = 1 .. w + 1
    BY <2>3, LenProperties DEF TypeOK
  <2>5. PICK z \in 1 .. w : wire[z][1] = p
    BY <2>1, <2>2, <2>3 DEF PlaceInv
  <2>6. OnWire' = OnWire
    <3>1. wire'[w + 1][1] = wire[z][1]
      BY <2>3, <2>5
    <3>2. \A i \in 1 .. w + 1 : i \in 1 .. w \/ i = w + 1
      OBVIOUS
    <3>3. OnWire = {wire[i][1] : i \in 1 .. w} /\ OnWire' = {wire'[i][1] : i \in 1 .. w + 1}
      BY <2>4 DEF OnWire
    <3>4. ASSUME NEW x, x \in OnWire PROVE x \in OnWire'
      <4>1. PICK i \in 1 .. w : x = wire[i][1]
        BY <3>3, <3>4
      <4>2. i \in 1 .. w + 1 /\ x = wire'[i][1]
        BY <2>3, <4>1
      <4> QED
        BY <3>3, <4>2
    <3>5. ASSUME NEW x, x \in OnWire' PROVE x \in OnWire
      <4>1. PICK i \in 1 .. w + 1 : x = wire'[i][1]
        BY <3>3, <3>5
      <4>2. CASE i \in 1 .. w
        BY <2>3, <3>3, <4>1, <4>2
      <4>3. CASE i = w + 1
        BY <2>5, <3>1, <3>3, <4>1, <4>3
      <4> QED
        BY <3>2, <4>2, <4>3
    <3> QED
      BY <3>4, <3>5
  <2>7. DisplaceInv'
    BY <1>3, <1>4, <2>2, <2>6
  <2>8. PICK c \in Nat : c = Len(accepted) /\ DOMAIN accepted = 1 .. c
    BY LenProperties DEF TypeOK
  <2>9. ASSUME NEW i \in 1 .. c, accepted[i] \notin discarded
        PROVE  Cardinality(Overtaking(i)') <= Limit
    <3>1. Cardinality(Overtaking(i)) <= Limit
      BY <1>1, <2>8, <2>9 DEF BoundedDisplacement
    <3>2. Overtaking(i)' \subseteq Overtaking(i)
      <4>1. CASE accepted[i] \in OnWire
        <5>1. /\ Len(wire') \in Nat /\ Len(wire') >= w
              /\ Len(accepted') = c /\ \A y \in 1 .. c : accepted'[y] = accepted[y]
          BY <2>2, <2>3, <2>8
        <5> QED
          BY <2>3, <2>8, <4>1, <5>1, NoLater
      <4>2. CASE accepted[i] \notin OnWire
        <5>1. \A x \in 1 .. w : wire[x][1] # accepted[i]
          BY <2>4, <4>2 DEF OnWire
        <5>2. \A x \in 1 .. w + 1 : wire'[x][1] # accepted[i]
          <6>1. wire'[w + 1][1] = wire[z][1]
            BY <2>3, <2>5
          <6> QED
            BY <2>3, <5>1, <6>1
        <5>3. ASSUME NEW j, j \in Overtaking(i)' PROVE j \in Overtaking(i)
          <6>1. accepted'[j] \in OnWire' /\ j \in i + 1 .. Len(accepted)
            BY <2>2, <5>3 DEF Overtaking, Before, OnWire
          <6>2. accepted[j] \in OnWire
            BY <2>2, <2>6, <6>1
          <6>3. PICK x \in 1 .. w : wire[x][1] = accepted[j]
            BY <2>3, <6>2, Whereabouts
          <6>4. \A y \in 1 .. x - 1 : wire[y][1] # accepted[i]
            BY <5>1
          <6> QED
            BY <2>3, <6>1, <6>3, <6>4, OvertakingShape
        <5> QED
          BY <5>3
      <4> QED
        BY <4>1, <4>2
    <3> QED
      BY <2>8, <3>1, <3>2, NoLaterBound
  <2> QED
    BY <2>2, <2>7, <2>8, <2>9 DEF BoundedDisplacement, Limit
<1>9. ASSUME NEW t \in Threads, Cleanup(t) PROVE DisplaceInv' /\ BoundedDisplacement'
  <2>1. /\ UNCHANGED <<accepted, queue, wire, discarded, due>>
        /\ entry' = entry \/ entry' = NoQueue
    BY <1>9 DEF Cleanup
  <2>2. OnWire' = OnWire
    BY <2>1 DEF OnWire
  <2>3. \A u \in Threads : pc[u] \in {"idle", "cleanup"} /\ pc'[u] = "idle"
    <3>1. \A u \in Threads : u # t => pc[u] = "idle"
      BY <1>1, <1>9 DEF Cleanup, TurnInv
    <3> QED
      BY <1>9, <3>1 DEF Cleanup, TypeOK
  <2>4. Slack(entry)' = Slack(entry)
    BY <2>3 DEF Slack
  <2> QED
    BY <1>2, <1>3, <2>1, <2>2, <2>4
<1>10. CASE Close
  <2>1. UNCHANGED <<accepted, queue, wire>> /\ entry' = NoQueue /\ discarded \subseteq discarded'
    BY <1>10 DEF Close
  <2>2. OnWire' = OnWire
    BY <2>1 DEF OnWire
  <2> QED
    BY <1>2, <1>3, <2>1, <2>2
<1>11. CASE TogglePolicy
  BY <1>0, <1>11 DEF TogglePolicy
<1>12. CASE Tick
  <2>1. UNCHANGED <<accepted, queue, wire, discarded, pc, due, entry>>
    BY <1>12 DEF Tick
  <2>2. OnWire' = OnWire
    BY <2>1 DEF OnWire
  <2> QED
    BY <1>2, <1>3, <1>4, <2>1, <2>2
<1> QED
  BY <1>5, <1>6, <1>7, <1>8, <1>9, <1>10, <1>11, <1>12 DEF Next, Served

-----------------------------------------------------------------------------
(* The invariant and what follows from it.                                 *)

IndInv ==
  /\ TypeOK /\ CallInv /\ LockInv /\ WithinWindow
  /\ NumberInv /\ HomeInv /\ PlaceInv /\ CopyInv /\ SentOnce
  /\ TurnInv /\ KeptInTurn
  /\ OrderInv /\ DisplaceInv /\ BoundedDisplacement

\* At the start no queue exists, no call is in progress and nothing was sent.
LEMMA InitInv == Init => IndInv
<1> USE SendAssumption, NoQueueAssumption
<1> SUFFICES ASSUME Init PROVE IndInv
  OBVIOUS
<1>1. <<>> \in Seq(1 .. Packets) /\ <<>> \in Seq(Entries) /\ Len(<<>>) = 0
      /\ DOMAIN <<>> = {}
  <2>1. <<>> \in Seq(1 .. Packets) /\ <<>> \in Seq(Entries) /\ Len(<<>>) = 0
    BY EmptySeq
  <2> QED
    BY <2>1, LenProperties
<1>2. \A q \in Queues : queue[q] = <<>> /\ due[q] = 0
  BY DEF Init
<1>3. wire = <<>> /\ accepted = <<>>
  BY DEF Init
<1>4. \A i : i \notin 1 .. 0
  OBVIOUS
<1>5. TypeOK
  BY <1>1 DEF Init, TypeOK, Entries
<1>6. CallInv /\ LockInv /\ WithinWindow
  BY <1>1, <1>2 DEF Init, CallInv, LockInv, Holds, Owning, WithinWindow, Limit
<1>7. NumberInv /\ HomeInv /\ PlaceInv
  <2>1. \A t \in Threads : ~Sending(t) /\ ~Owning(t) /\ pc[t] # "copy"
    BY DEF Init, Sending, Owning
  <2> QED
    BY <1>1, <1>2, <1>3, <1>4, <2>1 DEF NumberInv, HomeInv, PlaceInv
<1>8. SentOnce /\ CopyInv
  <2>1. \A p : Times(p) = {}
    BY <1>1, <1>3 DEF Times
  <2>2. \A p \in 1 .. Packets : Cardinality(Times(p)) = 0 /\ asked[p] = 0
    BY <2>1, FS_EmptySet DEF Init
  <2>3. SentOnce
    BY <2>2 DEF SentOnce
  <2> QED
    BY <2>3 DEF CopyInv, Init
<1>9. KeptInTurn /\ BoundedDisplacement
  BY <1>1, <1>3 DEF KeptInTurn, NothingLost, BoundedDisplacement
<1>10. TurnInv
  BY DEF Init, TurnInv, Active
<1>11. OrderInv /\ DisplaceInv
  BY <1>1, <1>3, <1>4 DEF Init, OrderInv, DisplaceInv, Sending
<1> QED
  BY <1>5, <1>6, <1>7, <1>8, <1>9, <1>10, <1>11 DEF IndInv

\* Every step of the program keeps the whole invariant.
LEMMA StepInv == IndInv /\ [Next]_vars => IndInv'
<1> SUFFICES ASSUME IndInv, [Next]_vars PROVE IndInv'
  OBVIOUS
<1>0. /\ TypeOK /\ CallInv /\ LockInv /\ WithinWindow
      /\ NumberInv /\ HomeInv /\ PlaceInv /\ CopyInv /\ SentOnce
      /\ TurnInv /\ KeptInTurn
      /\ OrderInv /\ DisplaceInv /\ BoundedDisplacement
  BY DEF IndInv
<1>1. TypeOK' /\ CallInv' /\ LockInv' /\ WithinWindow'
  BY <1>0, TypeStep
<1>2. NumberInv' /\ HomeInv' /\ PlaceInv'
  BY <1>0, PlaceStep
<1>3. CopyInv' /\ SentOnce'
  BY <1>0, <1>1, CountStep
<1>4. TurnInv' /\ KeptInTurn'
  BY <1>0, <1>1, TurnStep, KeptStep
<1>5. OrderInv' /\ DisplaceInv' /\ BoundedDisplacement'
  BY <1>0, <1>1, OrderStep, DisplaceStep
<1> QED
  BY <1>1, <1>2, <1>3, <1>4, <1>5 DEF IndInv

\* The invariant holds throughout: however the calls of any number of threads interleave,
\* whatever the engine and the kernel decide, and whenever packets expire, the policy
\* changes or the descriptor is closed.
THEOREM SendInvariant == Spec => []IndInv
BY InitInv, StepInv, PTL DEF Spec

\* No call leaves more than reorder_window packets in a queue, whatever the calls'
\* interleaving.
THEOREM QueueBounded == Spec => []WithinWindow
<1>1. IndInv => WithinWindow
  BY DEF IndInv
<1> QED
  BY <1>1, SendInvariant, PTL

\* A packet held when its descriptor is closed never goes out on the next socket with
\* that number: a queue that outlives close() is not reachable from the map or a call.
THEOREM NoStrayPacket == Spec => []OwnSocket
<1>1. IndInv => OwnSocket
  <2> SUFFICES ASSUME IndInv PROVE OwnSocket
    OBVIOUS
  <2>1. DOMAIN wire = 1 .. Len(wire)
    BY LenProperties DEF IndInv, TypeOK
  <2> QED
    BY <2>1 DEF IndInv, HomeInv, OwnSocket
<1> QED
  BY <1>1, SendInvariant, PTL

\* A packet is given to the kernel once at most, and once more for each copy its own call
\* was asked for: two calls may hold a reference to one queue, a queue may be replaced in
\* the map, and calls that hold different queues send in any interleaving, but a packet
\* stays at one place until it is sent.
THEOREM NoDoubleSend == Spec => []SentOnce
<1>1. IndInv => SentOnce
  BY DEF IndInv
<1> QED
  BY <1>1, SendInvariant, PTL

\* While calls do not overlap, no packet whose call reported success is lost with its queue.
THEOREM NothingLostInTurn == Spec => []KeptInTurn
<1>1. IndInv => KeptInTurn
  BY DEF IndInv
<1> QED
  BY <1>1, SendInvariant, PTL

\* While calls do not overlap and the policy stays, at most reorder_window packets overtake
\* one that is held back, expired packets and duplicates included.
THEOREM DisplacementBounded == Spec => []BoundedDisplacement
<1>1. IndInv => BoundedDisplacement
  BY DEF IndInv
<1> QED
  BY <1>1, SendInvariant, PTL
=============================================================================
