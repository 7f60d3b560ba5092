------------------------- MODULE ReorderRecvProofs -------------------------
(***************************************************************************)
(* Proofs about ReorderRecv, for every set of threads, any number of bytes *)
(* and sockets and all buffer lengths.                                     *)
(***************************************************************************)
EXTENDS ReorderRecv, FiniteSetTheorems, SequenceTheorems, TLAPS

-----------------------------------------------------------------------------
(* The invariant.                                                          *)

Busy(t) == pc[t] \in {"lock", "first", "second", "cleanup"}
Waiting(t) == pc[t] \in {"first", "second"}
Receiving(t) == pc[t] \in {"lock", "first", "second"}

\* The chunk a queue holds, if it holds one.
Full(q) == queue[q] # <<>>
Top(q) == queue[q][1]

\* A call has a queue until it returns, a buffer until it has its data, and no bytes to
\* record before that.  It began on this socket or an earlier one.
CallInv ==
  \A t \in Threads :
    /\ Busy(t) <=> call[t].queue # NoQueue
    /\ Receiving(t) => call[t].len \in Lengths
    /\ call[t].since <= epoch

\* A queue has one call at a time waiting for data under its lock; a call that is to
\* stage what it receives has found it empty.
LockInv ==
  /\ \A t, u \in Threads :
       Waiting(t) /\ Waiting(u) /\ call[t].queue = call[u].queue => t = u
  /\ \A t \in Threads :
       /\ pc[t] = "first" /\ call[t].stage => ~Full(call[t].queue)
       /\ pc[t] = "second" => Full(call[t].queue)

\* One close() at a time, with another socket to come.
CloseInv ==
  /\ \A t, u \in Threads : pc[t] = "closing" /\ pc[u] = "closing" => t = u
  /\ Closing => epoch < MaxEpoch

Apart(c, d) == c.hi < d.lo \/ d.hi < c.lo
Within(c, n) == c.lo <= c.hi /\ c.hi <= n

\* A byte that was received is at one place: in one chunk that was returned, or in one
\* that a queue holds.
PlaceInv ==
  /\ \A i \in DOMAIN got : Within(got[i].chunk, taken)
  /\ \A q \in Queues : Full(q) => Within(Top(q), taken)
  /\ \A i, j \in DOMAIN got : i # j => Apart(got[i].chunk, got[j].chunk)
  /\ \A i \in DOMAIN got, q \in Queues : Full(q) => Apart(got[i].chunk, Top(q))
  /\ \A q, r \in Queues : q # r /\ Full(q) /\ Full(r) => Apart(Top(q), Top(r))

\* What a queue holds is no older than the calls that refer to it; what the queue in the
\* map holds is of the socket that has the descriptor now.
HomeInv ==
  /\ \A t \in Threads :
       Receiving(t) /\ Full(call[t].queue) => Top(call[t].queue).home >= call[t].since
  /\ entry # NoQueue /\ Full(entry) => Top(entry).home >= epoch
  /\ Closing => entry = NoQueue
  /\ \A i \in DOMAIN got : got[i].chunk.home >= got[i].since

\* Where a byte may be when none is lost.
Placed(b) ==
  \/ \E i \in DOMAIN got : b \in Returned(i)
  \/ b \in thrown
  \/ entry # NoQueue /\ Full(entry) /\ b \in BytesOf(Top(entry))

\* The queue of a call that overlaps with no other is the one in the map, and empty when
\* the call takes it out.
TurnInv ==
  /\ \A t, u \in Threads : Busy(t) /\ Busy(u) => t = u
  /\ \A t \in Threads : Busy(t) => call[t].queue = entry
  /\ \A t \in Threads : pc[t] = "cleanup" => ~Full(entry)
  /\ \A b \in 1 .. taken : Placed(b)

\* Under a policy that stays no call asks for data over a held chunk, and none is still
\* under way when the end of the stream has been reported.
EndInv ==
  /\ policy
  /\ \A t \in Threads : pc[t] = "first" => ~Full(call[t].queue)
  /\ done => /\ \A t \in Threads : ~Receiving(t)
             /\ entry # NoQueue => ~Full(entry)

Before(c, d) == c.lo < d.lo

\* Only the last chunk returned may have overtaken the one that is held, and none has
\* while the call that staged it waits for another.
OrderInv ==
  /\ \A i, j \in DOMAIN got : i < j => Before(got[i].chunk, got[j].chunk) \/ j = i + 1
  /\ entry # NoQueue /\ Full(entry) =>
       \A i \in DOMAIN got : Before(got[i].chunk, Top(entry)) \/ i = Len(got)
  /\ \A t \in Threads : pc[t] = "second" =>
       \A i \in DOMAIN got : Before(got[i].chunk, Top(entry))

\* The bytes recorded, and those a call has yet to record.
CountInv ==
  /\ \A t, u \in Threads : pc[t] # "idle" /\ pc[u] # "idle" => t = u
  /\ \A t \in Threads : Receiving(t) => call[t].since = epoch
  /\ \A i \in DOMAIN got : got[i].since <= epoch
  /\ \A t \in Threads : pc[t] = "closing" => counted = 0
  /\ \A t \in Threads :
       pc[t] = "cleanup" => counted + call[t].record = Cardinality(Direct)
  /\ (\A t \in Threads : pc[t] \notin {"cleanup", "closing"}) =>
       counted = Cardinality(Direct)

Inv ==
  /\ TypeOK /\ CallInv /\ LockInv /\ CloseInv /\ PlaceInv
  /\ "close" \notin seen => HomeInv
  /\ "overlap" \notin seen => TurnInv
  /\ seen \cap {"overlap", "policy"} = {} => EndInv
  /\ seen = {} => OrderInv
  /\ seen \subseteq {"policy"} => CountInv

-----------------------------------------------------------------------------
(* Sequences.                                                              *)

QueueType == {<<>>} \cup {<<c>> : c \in Chunks}
CallType == [queue : Queues \cup {NoQueue}, len : Lengths \cup {0},
             since : 0 .. MaxEpoch, stage : BOOLEAN, record : 0 .. Bytes]
PcType == {"idle", "lock", "first", "second", "cleanup", "closing"}
GotType == [chunk : Chunks, since : 0 .. MaxEpoch, held : BOOLEAN]

\* A queue of one chunk.
LEMMA Single ==
  ASSUME NEW c
  PROVE  /\ <<c>> # <<>> /\ <<c>>[1] = c
         /\ Head(<<c>>) = c /\ Tail(<<c>>) = <<>> /\ Append(<<>>, c) = <<c>>
<1>1. <<c>> \in Seq({c}) /\ Len(<<c>>) = 1
  OBVIOUS
<1>2. Tail(<<c>>) \in Seq({c}) /\ Len(Tail(<<c>>)) = 0
  BY <1>1
<1>3. Tail(<<c>>) = <<>>
  BY <1>2, EmptySeq
<1> QED
  BY <1>1, <1>3

\* What a queue is.
LEMMA QueueForm ==
  ASSUME NEW q \in QueueType
  PROVE  /\ q = <<>> \/ (q[1] \in Chunks /\ q = <<q[1]>> /\ Head(q) = q[1] /\ Tail(q) = <<>>)
         /\ \A c : q = <<c>> => q[1] = c /\ q # <<>>
<1>1. ASSUME NEW c, q = <<c>> PROVE q # <<>> /\ q[1] = c /\ Head(q) = c /\ Tail(q) = <<>>
  BY <1>1, Single
<1>2. q = <<>> \/ \E c \in Chunks : q = <<c>>
  BY DEF QueueType
<1> QED
  BY <1>1, <1>2

\* One more chunk has been returned.
LEMMA Appended ==
  ASSUME NEW S, NEW s \in Seq(S), NEW x \in S
  PROVE  /\ Append(s, x) \in Seq(S)
         /\ Len(s) \in Nat /\ DOMAIN s = 1 .. Len(s) /\ Len(Append(s, x)) = Len(s) + 1
         /\ DOMAIN Append(s, x) = 1 .. Len(s) + 1
         /\ \A i \in 1 .. Len(s) : Append(s, x)[i] = s[i]
         /\ Append(s, x)[Len(s) + 1] = x
BY AppendProperties, LenProperties

-----------------------------------------------------------------------------
(* The steps.                                                              *)

\* How a call leaves its queue: with q in it, unless nobody else refers to it.
Ends(t, q, n) ==
  /\ pc' \in [Threads -> PcType] /\ call' \in [Threads -> CallType]
  /\ queue' \in [Queues -> QueueType] /\ counted' \in Nat
  /\ \A u \in Threads : u # t => pc'[u] = pc[u] /\ call'[u] = call[u]
  /\ \A r \in Queues : r # call[t].queue => queue'[r] = queue[r]
  /\ queue'[call[t].queue] = q \/ (queue'[call[t].queue] = <<>> /\ call[t].queue # entry)
  /\ q = <<>> => /\ pc'[t] = "cleanup" /\ call'[t].queue = call[t].queue
                 /\ call'[t].record = n /\ counted' = counted
  /\ q # <<>> => /\ pc'[t] = "idle" /\ call'[t].queue = NoQueue
                 /\ counted' = counted + n
  /\ call'[t].since = 0

LEMMA NoCallType ==
  /\ NoCall \in CallType /\ NoCall.queue = NoQueue /\ NoCall.since = 0
  /\ NoCall.stage = FALSE /\ NoCall.len = 0
BY RecvAssumption DEF NoCall, CallType

\* That is what Unlock does.
LEMMA UnlockEnds ==
  ASSUME TypeOK, NEW t \in Threads, call[t].queue \in Queues, NEW q \in QueueType,
         NEW n \in 0 .. Bytes, Unlock(t, q, n)
  PROVE  Ends(t, q, n)
<1> USE RecvAssumption
<1>1. /\ pc \in [Threads -> PcType] /\ call \in [Threads -> CallType]
      /\ queue \in [Queues -> QueueType] /\ counted \in Nat
  BY DEF TypeOK, PcType, CallType, QueueType
<1>2. <<>> \in QueueType
  BY DEF QueueType
<1>3. PICK x \in QueueType : /\ queue' = [queue EXCEPT ![call[t].queue] = x]
                             /\ x = q \/ (x = <<>> /\ call[t].queue # entry)
  BY <1>2 DEF Unlock, Orphan
<1>4. /\ queue' \in [Queues -> QueueType]
      /\ \A r \in Queues : r # call[t].queue => queue'[r] = queue[r]
      /\ queue'[call[t].queue] = q \/ (queue'[call[t].queue] = <<>> /\ call[t].queue # entry)
  BY <1>1, <1>3
<1>5. CASE q = <<>>
  <2>1. PICK d \in CallType : /\ call' = [call EXCEPT ![t] = d]
                              /\ d.queue = call[t].queue /\ d.record = n /\ d.since = 0
    <3> DEFINE d == [NoCall EXCEPT !.queue = call[t].queue, !.record = n]
    <3>1. PICK k \in Queues : k = call[t].queue
      OBVIOUS
    <3>2. /\ [NoCall EXCEPT !.queue = k, !.record = n] \in CallType
          /\ [NoCall EXCEPT !.queue = k, !.record = n].queue = k
          /\ [NoCall EXCEPT !.queue = k, !.record = n].record = n
          /\ [NoCall EXCEPT !.queue = k, !.record = n].since = 0
      BY NoCallType DEF CallType
    <3>3. call' = [call EXCEPT ![t] = d]
      BY <1>5 DEF Unlock
    <3>4. d \in CallType /\ d.queue = call[t].queue /\ d.record = n /\ d.since = 0
      BY <3>1, <3>2
    <3> HIDE DEF d
    <3> QED
      BY <3>3, <3>4
  <2>2. pc' = [pc EXCEPT ![t] = "cleanup"] /\ counted' = counted
    BY <1>5 DEF Unlock
  <2>3. /\ call' \in [Threads -> CallType] /\ call'[t] = d
        /\ \A u \in Threads : u # t => call'[u] = call[u]
    BY <1>1, <2>1
  <2>4. /\ pc' \in [Threads -> PcType] /\ pc'[t] = "cleanup"
        /\ \A u \in Threads : u # t => pc'[u] = pc[u]
    BY <1>1, <2>2 DEF PcType
  <2> QED
    BY <1>1, <1>4, <1>5, <2>1, <2>2, <2>3, <2>4 DEF Ends
<1>6. CASE q # <<>>
  <2>1. NoCall \in CallType /\ NoCall.queue = NoQueue /\ NoCall.since = 0
    BY NoCallType
  <2>2. /\ pc' = [pc EXCEPT ![t] = "idle"] /\ counted' = counted + n
        /\ call' = [call EXCEPT ![t] = NoCall]
    BY <1>6 DEF Unlock
  <2>3. /\ call' \in [Threads -> CallType] /\ call'[t] = NoCall
        /\ \A u \in Threads : u # t => call'[u] = call[u]
    BY <1>1, <2>1, <2>2
  <2>4. /\ pc' \in [Threads -> PcType] /\ pc'[t] = "idle"
        /\ \A u \in Threads : u # t => pc'[u] = pc[u]
    BY <1>1, <2>2 DEF PcType
  <2>5. counted' \in Nat
    BY <1>1, <2>2
  <2> QED
    BY <1>4, <1>6, <2>1, <2>2, <2>3, <2>4, <2>5 DEF Ends
<1> QED
  BY <1>5, <1>6

\* What the original call returns: the next bytes, as many as fit.
LEMMA ReceivedForm ==
  ASSUME TypeOK, CallInv, NEW t \in Threads, Receiving(t), NEW c \in Received(t)
  PROVE  /\ c \in Chunks /\ c.lo = taken + 1 /\ c.hi >= c.lo /\ c.home = epoch /\ ~eof
         /\ Fitting(c, call[t].len) = c /\ Size(c) \in 0 .. Bytes /\ c.hi \in 0 .. Bytes
<1> USE RecvAssumption
<1>1. call[t].len \in Lengths /\ call[t].len \in Nat
  BY DEF CallInv
<1>2. PICK l \in Nat : l = call[t].len
  BY <1>1
<1>3. PICK k \in Nat : k = taken /\ k <= Bytes
  BY DEF TypeOK
<1>4. PICK n \in k + 1 .. k + l : /\ c = [lo |-> k + 1, hi |-> n, home |-> epoch]
                                  /\ n <= Bytes /\ ~eof
  BY <1>2, <1>3 DEF Received
<1>5. epoch \in 0 .. MaxEpoch /\ n \in 1 .. Bytes /\ k + 1 \in 1 .. Bytes
  BY <1>3, <1>4 DEF TypeOK
<1>6. c \in Chunks /\ c.lo = k + 1 /\ c.hi = n /\ c.home = epoch
  BY <1>4, <1>5 DEF Chunks
<1>7. Size(c) = n - k /\ Size(c) <= l
  BY <1>3, <1>4, <1>6 DEF Size
<1>8. Fitting(c, call[t].len) = c
  BY <1>2, <1>7 DEF Fitting
<1> QED
  BY <1>3, <1>4, <1>5, <1>6, <1>7, <1>8

\* What fits of a chunk is its beginning.
LEMMA FittingForm ==
  ASSUME NEW c \in Chunks, c.lo <= c.hi, NEW len \in Lengths
  PROVE  /\ Fitting(c, len) \in Chunks /\ Fitting(c, len).lo = c.lo
         /\ Fitting(c, len).home = c.home
         /\ c.lo <= Fitting(c, len).hi /\ Fitting(c, len).hi <= c.hi
         /\ Size(Fitting(c, len)) \in 0 .. Bytes
<1> USE RecvAssumption
<1>1. c.lo \in 1 .. Bytes /\ c.hi \in 1 .. Bytes /\ len \in Nat /\ len > 0
  BY DEF Chunks
<1>2. PICK h \in 1 .. Bytes : h = IF Size(c) <= len THEN c.hi ELSE c.lo + len - 1
  BY <1>1 DEF Size
<1>3. c.lo <= h /\ h <= c.hi
  BY <1>1, <1>2 DEF Size
<1>4. PICK d \in Chunks : d = Fitting(c, len) /\ d.lo = c.lo /\ d.hi = h /\ d.home = c.home
  <2>1. CASE Size(c) <= len
    BY <1>2, <2>1 DEF Fitting
  <2>2. CASE ~(Size(c) <= len)
    <3>1. /\ [c EXCEPT !.hi = h] \in Chunks /\ [c EXCEPT !.hi = h].lo = c.lo
          /\ [c EXCEPT !.hi = h].hi = h /\ [c EXCEPT !.hi = h].home = c.home
      BY DEF Chunks
    <3> QED
      BY <1>2, <2>2, <3>1 DEF Fitting
  <2> QED
    BY <2>1, <2>2
<1> QED
  BY <1>1, <1>3, <1>4 DEF Size

\* A call that has its queue locked returns the chunk held there ...
Releases(t, b, n) ==
  /\ Receiving(t) /\ Full(call[t].queue) /\ b \in BOOLEAN
  /\ b => pc[t] = "lock" /\ policy /\ n = 0
  /\ ~b => pc[t] = "second" /\ n = Size(Fitting(Top(call[t].queue), call[t].len))
  /\ Ends(t, <<>>, n)
  /\ Return(t, Top(call[t].queue), b)
  /\ UNCHANGED <<kernel, entry, policy, taken, done, seen>>

\* ... or a new one, past it ...
Delivers(t, c) ==
  /\ pc[t] = "second" \/ (pc[t] = "first" /\ ~call[t].stage)
  /\ c \in Received(t)
  /\ Ends(t, queue[call[t].queue], Size(c))
  /\ got' = Append(got, [chunk |-> c, since |-> call[t].since, held |-> FALSE])
  /\ taken' = c.hi
  /\ UNCHANGED <<kernel, entry, policy, done, thrown, seen>>

\* ... or puts a new one there ...
Stages(t, c) ==
  /\ pc[t] = "first" /\ call[t].stage
  /\ c \in Received(t)
  /\ \/ Ends(t, <<c>>, 0)
     \/ /\ queue' = [queue EXCEPT ![call[t].queue] = <<c>>]
        /\ pc' = [pc EXCEPT ![t] = "second"]
        /\ UNCHANGED <<call, counted>>
  /\ taken' = c.hi
  /\ UNCHANGED <<kernel, entry, policy, done, got, thrown, seen>>

\* ... or has no data.
Misses(t) ==
  /\ \/ pc[t] = "lock" /\ ~Full(call[t].queue) /\ done' = done
     \/ pc[t] = "first" /\ done' = (done \/ (eof /\ call[t].since = epoch))
  /\ Ends(t, queue[call[t].queue], 0)
  /\ UNCHANGED <<kernel, entry, policy, taken, got, thrown, seen>>

\* These are the steps of a call that has its queue locked.
LEMMA CallSteps ==
  ASSUME TypeOK, CallInv, LockInv, PlaceInv, NEW t \in Threads,
         Pop(t) \/ Fail(t) \/ First(t) \/ FirstNothing(t) \/ Second(t) \/ SecondNothing(t)
  PROVE  \/ \E b, n : Releases(t, b, n)
         \/ \E c : Delivers(t, c) \/ Stages(t, c)
         \/ Misses(t)
<1> USE RecvAssumption
<1>1. Receiving(t)
  BY DEF Pop, Fail, First, FirstNothing, Second, SecondNothing, Free, Receiving
<1>2. call[t].queue \in Queues /\ queue[call[t].queue] \in QueueType /\ 0 \in 0 .. Bytes
      /\ call[t].len \in Lengths
  BY <1>1 DEF CallInv, TypeOK, QueueType, Busy, Receiving
<1>3. PICK q \in QueueType : q = queue[call[t].queue]
  BY <1>2
<1>4. q = <<>> \/ (q[1] \in Chunks /\ q = <<q[1]>> /\ Head(q) = q[1] /\ Tail(q) = <<>>)
  BY QueueForm
<1>5. <<>> \in QueueType
  BY DEF QueueType
<1>6. CASE Pop(t)
  <2>1. /\ pc[t] = "lock" /\ policy /\ q # <<>>
        /\ Return(t, q[1], TRUE) /\ Unlock(t, <<>>, 0)
        /\ UNCHANGED <<kernel, entry, policy, taken, done, seen>>
    BY <1>3, <1>4, <1>6 DEF Pop, Free
  <2>2. Ends(t, <<>>, 0)
    BY <1>2, <1>5, <2>1, UnlockEnds
  <2>3. Releases(t, TRUE, 0)
    BY <1>1, <1>3, <2>1, <2>2 DEF Releases, Full, Top
  <2> QED
    BY <2>3
<1>7. CASE Fail(t)
  <2>1. /\ pc[t] = "lock" /\ q = <<>> /\ Unlock(t, q, 0)
        /\ UNCHANGED <<kernel, entry, policy, taken, done, history>>
    BY <1>3, <1>7 DEF Fail, Free
  <2>2. Ends(t, q, 0)
    BY <1>2, <2>1, UnlockEnds
  <2> QED
    BY <1>3, <2>1, <2>2 DEF Misses, Full, history
<1>8. CASE First(t)
  <2>1. PICK c \in Received(t) :
          /\ taken' = c.hi
          /\ IF ~call[t].stage
             THEN Return(t, c, FALSE) /\ Unlock(t, q, Size(c))
             ELSE IF nonblocking
             THEN Unlock(t, Append(q, c), 0) /\ UNCHANGED <<got, thrown>>
             ELSE /\ queue' = [queue EXCEPT ![call[t].queue] = Append(q, c)]
                  /\ pc' = [pc EXCEPT ![t] = "second"]
                  /\ UNCHANGED <<call, counted, got, thrown>>
    BY <1>3, <1>8 DEF First
  <2>2. /\ pc[t] = "first" /\ UNCHANGED <<kernel, entry, policy, done, seen>>
    BY <1>8 DEF First
  <2>3. c \in Chunks /\ Fitting(c, call[t].len) = c /\ Size(c) \in 0 .. Bytes
    BY <1>1, ReceivedForm
  <2>4. CASE ~call[t].stage
    <3>1. Ends(t, q, Size(c))
      BY <1>2, <2>1, <2>3, <2>4, UnlockEnds
    <3>2. /\ got' = Append(got, [chunk |-> c, since |-> call[t].since, held |-> FALSE])
          /\ thrown' = thrown
      BY <2>1, <2>3, <2>4 DEF Return
    <3>3. Delivers(t, c)
      BY <1>3, <2>1, <2>2, <2>4, <3>1, <3>2 DEF Delivers
    <3> QED
      BY <3>3
  <2>5. CASE call[t].stage
    <3>1. Append(q, c) = <<c>>
      BY <1>3, <2>2, <2>5, Single DEF LockInv, Full
    <3>2. <<c>> \in QueueType
      BY <2>3 DEF QueueType
    <3>3. Unlock(t, <<c>>, 0) => Ends(t, <<c>>, 0)
      BY <1>2, <3>2, UnlockEnds
    <3>4. Stages(t, c)
      BY <2>1, <2>2, <2>5, <3>1, <3>3 DEF Stages
    <3> QED
      BY <3>4
  <2> QED
    BY <2>4, <2>5
<1>9. CASE FirstNothing(t)
  <2>1. /\ pc[t] = "first" /\ Unlock(t, q, 0)
        /\ done' = (done \/ (eof /\ call[t].since = epoch))
        /\ UNCHANGED <<kernel, entry, policy, taken, history>>
    BY <1>3, <1>9 DEF FirstNothing
  <2>2. Ends(t, q, 0)
    BY <1>2, <2>1, UnlockEnds
  <2> QED
    BY <1>3, <2>1, <2>2 DEF Misses, history
<1>10. CASE Second(t)
  <2>1. PICK c \in Received(t) :
          taken' = c.hi /\ Return(t, c, FALSE) /\ Unlock(t, q, Size(c))
    BY <1>3, <1>10 DEF Second
  <2>2. pc[t] = "second" /\ UNCHANGED <<kernel, entry, policy, done, seen>>
    BY <1>10 DEF Second
  <2>3. c \in Chunks /\ Fitting(c, call[t].len) = c /\ Size(c) \in 0 .. Bytes
    BY <1>1, ReceivedForm
  <2>4. Ends(t, q, Size(c))
    BY <1>2, <2>1, <2>3, UnlockEnds
  <2>5. /\ got' = Append(got, [chunk |-> c, since |-> call[t].since, held |-> FALSE])
        /\ thrown' = thrown
    BY <2>1, <2>3 DEF Return
  <2>6. Delivers(t, c)
    BY <1>3, <2>1, <2>2, <2>4, <2>5 DEF Delivers
  <2> QED
    BY <2>6
<1>11. CASE SecondNothing(t)
  <2>1. q # <<>> /\ pc[t] = "second"
    BY <1>3, <1>11 DEF SecondNothing, LockInv, Full
  <2> DEFINE n == Size(Fitting(q[1], call[t].len))
  <2>2. /\ Return(t, q[1], FALSE) /\ Unlock(t, <<>>, n)
        /\ UNCHANGED <<kernel, entry, policy, taken, done, seen>>
    BY <1>3, <1>4, <1>11, <2>1 DEF SecondNothing
  <2>3. q[1] \in Chunks /\ q[1].lo <= q[1].hi
    BY <1>2, <1>3, <1>4, <2>1 DEF PlaceInv, Full, Top, Within
  <2>4. n \in 0 .. Bytes
    BY <1>2, <2>3, FittingForm
  <2>5. n = Size(Fitting(Top(call[t].queue), call[t].len)) /\ Top(call[t].queue) = q[1]
    BY <1>3 DEF Top
  <2> HIDE DEF n
  <2>6. Ends(t, <<>>, n)
    BY <1>2, <1>5, <2>2, <2>4, UnlockEnds
  <2>7. Releases(t, FALSE, n)
    BY <1>1, <1>3, <2>1, <2>2, <2>5, <2>6 DEF Releases, Full
  <2> QED
    BY <2>7
<1> QED
  BY <1>6, <1>7, <1>8, <1>9, <1>10, <1>11

\* Nobody else has the queue locked.
Alone(t) == \A u \in Threads : u # t /\ Waiting(u) => call[u].queue # call[t].queue

LEMMA CallAlone ==
  ASSUME LockInv, NEW t \in Threads,
         Pop(t) \/ Fail(t) \/ Ask(t) \/ First(t) \/ FirstNothing(t) \/ Second(t) \/ SecondNothing(t)
  PROVE  Alone(t)
<1>1. CASE Pop(t) \/ Fail(t) \/ Ask(t)
  <2>1. Free(t)
    BY <1>1 DEF Pop, Fail, Ask
  <2> QED
    BY <2>1 DEF Free, Alone, Waiting
<1>2. CASE First(t) \/ FirstNothing(t) \/ Second(t) \/ SecondNothing(t)
  <2>1. Waiting(t)
    BY <1>2 DEF First, FirstNothing, Second, SecondNothing, Waiting
  <2> QED
    BY <2>1 DEF LockInv, Alone
<1> QED
  BY <1>1, <1>2

\* When the map has no queue there is one that nobody refers to: the calls cannot refer
\* to them all.
LEMMA QueueFree ==
  ASSUME TypeOK, entry = NoQueue
  PROVE  \E q \in Queues : Unreferenced(q)
<1> USE RecvAssumption
<1>1. SUFFICES ASSUME \A q \in Queues : ~Unreferenced(q) PROVE FALSE
  OBVIOUS
<1>2. Cardinality(Threads) \in Nat
  BY FS_CardinalityType
<1>3. \A q \in Queues : q # NoQueue
  BY <1>2 DEF Queues, NoQueue
<1>4. \A q \in Queues : \E u \in Threads : call[u].queue = q
  BY <1>1, <1>3 DEF Unreferenced
<1> DEFINE f == [u \in Threads |-> call[u].queue]
           R == {call[u].queue : u \in Threads}
<1>5. f \in Surjection(Threads, R)
  BY DEF Surjection
<1>6. IsFiniteSet(R) /\ Cardinality(R) <= Cardinality(Threads)
  <2> HIDE DEF f, R
  <2> QED
    BY <1>5, FS_Surjection
<1>7. Queues \in SUBSET R
  BY <1>4
<1> HIDE DEF R, f
<1>8. Cardinality(Queues) <= Cardinality(R) /\ Cardinality(R) \in Nat
  BY <1>6, <1>7, FS_Subset, FS_CardinalityType
<1>9. Cardinality(Queues) = Cardinality(Threads) + 1
  BY <1>2, FS_Interval DEF Queues
<1> QED
  BY <1>2, <1>6, <1>8, <1>9

\* A call begins with the queue of the map, or a new one.
Begins(t, q, len) ==
  /\ pc[t] = "idle" /\ ~done /\ q \in Queues /\ len \in Lengths
  /\ pc' = [pc EXCEPT ![t] = "lock"] /\ entry' = q
  /\ call' \in [Threads -> CallType]
  /\ \A u \in Threads : u # t => call'[u] = call[u]
  /\ call'[t].queue = q /\ call'[t].len = len /\ call'[t].since = epoch
  /\ \/ entry # NoQueue /\ q = entry /\ queue' = queue
     \/ entry = NoQueue /\ Unreferenced(q) /\ queue' = [queue EXCEPT ![q] = <<>>]
  /\ seen' = seen \cup (IF Overlaps THEN {"overlap"} ELSE {})
                  \cup (IF Closing THEN {"close"} ELSE {})
  /\ UNCHANGED <<kernel, policy, taken, done, counted, got, thrown>>

LEMMA LookUpBegins ==
  ASSUME TypeOK, NEW t \in Threads, LookUp(t)
  PROVE  \E q, len : Begins(t, q, len)
<1> USE RecvAssumption
<1> DEFINE q == IF entry # NoQueue THEN entry ELSE CHOOSE x \in Queues : Unreferenced(x)
<1>1. q \in Queues /\ (entry # NoQueue => q = entry) /\ (entry = NoQueue => Unreferenced(q))
  <2>1. CASE entry # NoQueue
    BY <2>1 DEF TypeOK
  <2>2. CASE entry = NoQueue
    BY <2>2, QueueFree
  <2> QED
    BY <2>1, <2>2
<1>2. PICK len \in Lengths :
        /\ call' = [call EXCEPT ![t] = [NoCall EXCEPT !.queue = q, !.len = len, !.since = epoch]]
        /\ entry' = q
        /\ queue' = IF entry # NoQueue THEN queue ELSE [queue EXCEPT ![q] = <<>>]
  BY DEF LookUp
<1>3. PICK k \in Queues : k = q
  BY <1>1
<1>4. PICK d : d = [NoCall EXCEPT !.queue = k, !.len = len, !.since = epoch]
  OBVIOUS
<1>5. d \in CallType /\ d.queue = k /\ d.len = len /\ d.since = epoch
  BY <1>4, NoCallType DEF CallType, TypeOK
<1>6. call' = [call EXCEPT ![t] = d] /\ call \in [Threads -> CallType]
  BY <1>2, <1>3, <1>4 DEF TypeOK, CallType
<1>7. /\ call' \in [Threads -> CallType] /\ call'[t] = d
      /\ \A u \in Threads : u # t => call'[u] = call[u]
  BY <1>5, <1>6
<1> HIDE DEF q
<1>8. Begins(t, k, len)
  <2>1. /\ pc[t] = "idle" /\ ~done /\ pc' = [pc EXCEPT ![t] = "lock"]
        /\ seen' = seen \cup (IF Overlaps THEN {"overlap"} ELSE {})
                        \cup (IF Closing THEN {"close"} ELSE {})
        /\ UNCHANGED <<kernel, policy, taken, done, counted, got, thrown>>
    BY DEF LookUp
  <2>2. \/ entry # NoQueue /\ k = entry /\ queue' = queue
        \/ entry = NoQueue /\ Unreferenced(k) /\ queue' = [queue EXCEPT ![k] = <<>>]
    BY <1>1, <1>2, <1>3
  <2>3. entry' = k
    BY <1>2, <1>3
  <2> QED
    BY <1>5, <1>7, <2>1, <2>2, <2>3 DEF Begins
<1> QED
  BY <1>8

-----------------------------------------------------------------------------
(* Types, calls and locks.                                                 *)

Basic == TypeOK /\ CallInv /\ LockInv /\ CloseInv

\* When a call leaves its queue the others keep theirs as they are.
LEMMA EndsBasic ==
  ASSUME Basic, NEW t \in Threads, Receiving(t), Alone(t), NEW q \in QueueType, NEW n,
         Ends(t, q, n), epoch' = epoch
  PROVE  CallInv' /\ LockInv' /\ CloseInv'
<1> USE RecvAssumption DEF Basic
<1>0. call[t].queue \in Queues /\ call[t].queue # NoQueue
  BY DEF CallInv, TypeOK, Busy, Receiving
<1>1. CallInv'
  <2>1. ASSUME NEW u \in Threads
        PROVE  /\ Busy(u)' <=> call'[u].queue # NoQueue
               /\ Receiving(u)' => call'[u].len \in Lengths
               /\ call'[u].since <= epoch
    <3>1. CASE u = t
      BY <1>0, <3>1 DEF Ends, Busy, Receiving, TypeOK
    <3>2. CASE u # t
      BY <3>2 DEF Ends, Busy, Receiving, CallInv
    <3> QED
      BY <3>1, <3>2
  <2> QED
    BY <2>1 DEF CallInv
<1>2. \A u \in Threads : Waiting(u)' =>
        /\ u # t /\ pc'[u] = pc[u] /\ call'[u] = call[u] /\ Waiting(u)
        /\ queue'[call[u].queue] = queue[call[u].queue]
  <2>1. ASSUME NEW u \in Threads, Waiting(u)'
        PROVE  u # t /\ pc'[u] = pc[u] /\ call'[u] = call[u] /\ Waiting(u)
    BY <2>1 DEF Ends, Waiting
  <2>2. ASSUME NEW u \in Threads, u # t, Waiting(u)
        PROVE  queue'[call[u].queue] = queue[call[u].queue]
    <3>1. call[u].queue \in Queues /\ call[u].queue # call[t].queue
      BY <2>2 DEF Alone, CallInv, Busy, Waiting, TypeOK
    <3> QED
      BY <3>1 DEF Ends
  <2> QED
    BY <2>1, <2>2
<1>3. LockInv'
  BY <1>2 DEF LockInv, Waiting, Full
<1>4. CloseInv'
  <2>1. \A u \in Threads : pc'[u] = "closing" => pc[u] = "closing"
    BY DEF Ends
  <2> QED
    BY <2>1 DEF CloseInv, Closing
<1> QED
  BY <1>1, <1>3, <1>4

\* What TypeOK says of the queues and calls follows from how a call ends and the locks.
LEMMA TypeParts ==
  /\ TypeOK => /\ pc \in [Threads -> PcType] /\ call \in [Threads -> CallType]
               /\ queue \in [Queues -> QueueType] /\ counted \in Nat /\ got \in Seq(GotType)
  /\ TypeOK' <=> /\ nonblocking' \in BOOLEAN /\ entry' \in Queues \cup {NoQueue}
                 /\ queue' \in [Queues -> QueueType]
                 /\ \A t \in Threads : pc'[t] = "second" => queue'[call'[t].queue] # <<>>
                 /\ pc' \in [Threads -> PcType] /\ call' \in [Threads -> CallType]
                 /\ policy' \in BOOLEAN /\ epoch' \in 0 .. MaxEpoch /\ taken' \in 0 .. Bytes
                 /\ eof' \in BOOLEAN /\ done' \in BOOLEAN /\ counted' \in Nat
                 /\ got' \in Seq(GotType) /\ thrown' \subseteq 1 .. Bytes
                 /\ seen' \subseteq {"overlap", "policy", "close"}
BY Zenon DEF TypeOK, PcType, CallType, QueueType, GotType

LEMMA CallsKeepBasic ==
  ASSUME Basic, PlaceInv, NEW t \in Threads,
         Pop(t) \/ Fail(t) \/ First(t) \/ FirstNothing(t) \/ Second(t) \/ SecondNothing(t)
  PROVE  Basic'
<1> USE RecvAssumption DEF Basic
<1>1. Alone(t) /\ Receiving(t)
  BY CallAlone DEF Pop, Fail, First, FirstNothing, Second, SecondNothing, Free, Receiving
<1>2. call[t].queue \in Queues /\ queue[call[t].queue] \in QueueType /\ call[t].len \in Lengths
      /\ call[t].since \in 0 .. MaxEpoch
  BY <1>1 DEF CallInv, TypeOK, QueueType, Busy, Receiving
<1>3. CASE \E b, n : Releases(t, b, n)
  <2>1. PICK b, n : Releases(t, b, n)
    BY <1>3
  <2>2. <<>> \in QueueType /\ Ends(t, <<>>, n) /\ b \in BOOLEAN
        /\ UNCHANGED <<kernel, entry, policy, taken, done, seen>>
    BY <2>1 DEF QueueType, Releases
  <2>3. CallInv' /\ LockInv' /\ CloseInv'
    BY <1>1, <2>2, EndsBasic DEF kernel
  <2> DEFINE c == Top(call[t].queue)
             d == Fitting(c, call[t].len)
  <2>4. c \in Chunks /\ c.lo <= c.hi
    BY <1>2, <2>1, QueueForm DEF Releases, Full, Top, PlaceInv, Within
  <2>5. d \in Chunks
    <3> HIDE DEF c
    <3> QED
      BY <1>2, <2>4, FittingForm
  <2>6. /\ got' = Append(got, [chunk |-> d, since |-> call[t].since, held |-> b])
        /\ thrown' = thrown \cup (BytesOf(c) \ BytesOf(d))
    BY <2>1 DEF Releases, Return
  <2>7. BytesOf(c) \subseteq 1 .. Bytes
    <3> HIDE DEF c
    <3> QED
      BY <2>4 DEF BytesOf, Chunks
  <2> HIDE DEF c, d
  <2>8. got' \in Seq(GotType)
    <3>1. [chunk |-> d, since |-> call[t].since, held |-> b] \in GotType
      BY <1>2, <2>2, <2>5 DEF GotType
    <3> QED
      BY <2>6, <3>1, TypeParts, Appended
  <2>9. thrown' \subseteq 1 .. Bytes
    BY <2>6, <2>7 DEF TypeOK
  <2>10. TypeOK'
    BY <2>2, <2>3, <2>8, <2>9, TypeParts DEF TypeOK, Ends, kernel, LockInv, Full
  <2> QED
    BY <2>3, <2>10
<1>4. CASE \E c : Delivers(t, c)
  <2>1. PICK c : Delivers(t, c)
    BY <1>4
  <2>2. /\ Ends(t, queue[call[t].queue], Size(c)) /\ c \in Received(t)
        /\ UNCHANGED <<kernel, entry, policy, done, thrown, seen>> /\ taken' = c.hi
        /\ got' = Append(got, [chunk |-> c, since |-> call[t].since, held |-> FALSE])
    BY <2>1 DEF Delivers
  <2>3. CallInv' /\ LockInv' /\ CloseInv'
    BY <1>1, <1>2, <2>2, EndsBasic DEF kernel
  <2>4. c \in Chunks /\ c.hi \in 0 .. Bytes
    BY <1>1, <2>2, ReceivedForm
  <2>5. got' \in Seq(GotType)
    <3>1. [chunk |-> c, since |-> call[t].since, held |-> FALSE] \in GotType
      BY <1>2, <2>4 DEF GotType
    <3> QED
      BY <2>2, <3>1, TypeParts, Appended
  <2>6. TypeOK'
    BY <2>2, <2>3, <2>4, <2>5, TypeParts DEF TypeOK, Ends, kernel, LockInv, Full
  <2> QED
    BY <2>3, <2>6
<1>5. CASE \E c : Stages(t, c)
  <2>1. PICK c : Stages(t, c)
    BY <1>5
  <2>2. /\ c \in Received(t) /\ pc[t] = "first"
        /\ UNCHANGED <<kernel, entry, policy, done, got, thrown, seen>> /\ taken' = c.hi
    BY <2>1 DEF Stages
  <2>3. c \in Chunks /\ c.hi \in 0 .. Bytes
    BY <1>1, <2>2, ReceivedForm
  <2>4. <<c>> \in QueueType /\ <<c>> # <<>>
    BY <2>3, Single DEF QueueType
  <2>5. CASE Ends(t, <<c>>, 0)
    <3>1. CallInv' /\ LockInv' /\ CloseInv'
      BY <1>1, <2>2, <2>4, <2>5, EndsBasic DEF kernel
    <3>2. TypeOK'
      BY <2>2, <2>3, <2>5, <3>1, TypeParts DEF TypeOK, Ends, kernel, LockInv, Full
    <3> QED
      BY <3>1, <3>2
  <2>6. CASE /\ queue' = [queue EXCEPT ![call[t].queue] = <<c>>]
             /\ pc' = [pc EXCEPT ![t] = "second"]
             /\ UNCHANGED <<call, counted>>
    <3>1. /\ pc' \in [Threads -> PcType] /\ pc'[t] = "second" /\ call' = call
          /\ \A u \in Threads : u # t => pc'[u] = pc[u]
      BY <2>6, TypeParts DEF PcType
    <3>2. /\ queue' \in [Queues -> QueueType] /\ queue'[call[t].queue] = <<c>>
          /\ \A r \in Queues : r # call[t].queue => queue'[r] = queue[r]
      BY <1>2, <2>4, <2>6, TypeParts
    <3>3. CallInv'
      BY <2>2, <3>1 DEF CallInv, Busy, Receiving, kernel
    <3>4. \A u \in Threads : Waiting(u)' =>
             Waiting(u) /\ (u # t => queue'[call[u].queue] = queue[call[u].queue])
      <4>1. Waiting(t)
        BY <2>2 DEF Waiting
      <4>2. ASSUME NEW u \in Threads, u # t, Waiting(u)
            PROVE  queue'[call[u].queue] = queue[call[u].queue]
        <5>1. call[u].queue \in Queues /\ call[u].queue # call[t].queue
          BY <1>1, <4>2 DEF Alone, CallInv, Busy, Waiting, TypeOK
        <5> QED
          BY <3>2, <5>1
      <4> QED
        BY <3>1, <4>1, <4>2 DEF Waiting
    <3>5. LockInv'
      BY <2>4, <3>1, <3>2, <3>4 DEF LockInv, Waiting, Full
    <3>7. CloseInv'
      BY <2>2, <3>1 DEF CloseInv, Closing, kernel
    <3>6. TypeOK'
      BY <2>2, <2>3, <2>6, <3>1, <3>2, <3>5, TypeParts DEF TypeOK, kernel, LockInv, Full
    <3> QED
      BY <3>3, <3>5, <3>6, <3>7
  <2> QED
    BY <2>1, <2>5, <2>6 DEF Stages
<1>6. CASE Misses(t)
  <2>1. /\ Ends(t, queue[call[t].queue], 0) /\ done' \in BOOLEAN
        /\ UNCHANGED <<kernel, entry, policy, taken, got, thrown, seen>>
    BY <1>6 DEF Misses, TypeOK
  <2>2. CallInv' /\ LockInv' /\ CloseInv'
    BY <1>1, <1>2, <2>1, EndsBasic DEF kernel
  <2>3. TypeOK'
    BY <2>1, <2>2, TypeParts DEF TypeOK, Ends, kernel, LockInv, Full
  <2> QED
    BY <2>2, <2>3
<1> QED
  BY <1>3, <1>4, <1>5, <1>6, CallSteps

LEMMA OthersKeepBasic ==
  ASSUME Basic,
         \/ \E t \in Threads : LookUp(t) \/ Ask(t) \/ Cleanup(t) \/ Clear(t) \/ Close(t)
         \/ HangUp \/ TogglePolicy \/ UNCHANGED vars
  PROVE  Basic'
<1> USE RecvAssumption DEF Basic
<1>0. NoQueue \notin Queues
  <2>1. Cardinality(Threads) \in Nat
    BY FS_CardinalityType
  <2> QED
    BY <2>1 DEF Queues, NoQueue
<1>1. ASSUME NEW t \in Threads, LookUp(t) PROVE Basic'
  <2>1. PICK q, len : Begins(t, q, len)
    BY <1>1, LookUpBegins
  <2>2. /\ pc' \in [Threads -> PcType] /\ pc'[t] = "lock" /\ pc[t] = "idle"
        /\ \A u \in Threads : u # t => pc'[u] = pc[u]
    BY <2>1, TypeParts DEF Begins, PcType
  <2>3. /\ call' \in [Threads -> CallType] /\ \A u \in Threads : u # t => call'[u] = call[u]
        /\ call'[t].queue = q /\ call'[t].len \in Lengths /\ call'[t].since = epoch
        /\ q \in Queues /\ entry' = q
        /\ UNCHANGED <<kernel, policy, taken, done, counted, got, thrown>>
        /\ seen' \subseteq {"overlap", "policy", "close"}
    BY <2>1 DEF Begins, TypeOK
  <2>4. /\ queue' \in [Queues -> QueueType]
        /\ \A r \in Queues : queue'[r] = queue[r] \/ Unreferenced(r)
    BY <2>1, TypeParts DEF Begins, QueueType
  <2>5. CallInv'
    <3>1. ASSUME NEW u \in Threads
          PROVE  /\ Busy(u)' <=> call'[u].queue # NoQueue
                 /\ Receiving(u)' => call'[u].len \in Lengths
                 /\ call'[u].since <= epoch'
      <4>1. CASE u = t
        BY <1>0, <2>2, <2>3, <4>1 DEF Busy, Receiving, TypeOK, kernel
      <4>2. CASE u # t
        BY <2>2, <2>3, <4>2 DEF CallInv, Busy, Receiving, kernel
      <4> QED
        BY <4>1, <4>2
    <3> QED
      BY <3>1 DEF CallInv
  <2>6. ASSUME NEW u \in Threads, Waiting(u)'
        PROVE  /\ u # t /\ Waiting(u) /\ call'[u] = call[u] /\ pc'[u] = pc[u]
               /\ queue'[call[u].queue] = queue[call[u].queue]
    <3>1. u # t /\ Waiting(u) /\ call'[u] = call[u] /\ pc'[u] = pc[u]
      BY <2>2, <2>3, <2>6 DEF Waiting
    <3>2. call[u].queue \in Queues /\ ~Unreferenced(call[u].queue)
      BY <3>1 DEF CallInv, Busy, Waiting, TypeOK, Unreferenced
    <3> QED
      BY <2>4, <3>1, <3>2
  <2>7. LockInv'
    BY <2>6 DEF LockInv, Waiting, Full
  <2>8. TypeOK'
    BY <2>2, <2>3, <2>4, <2>7, TypeParts DEF TypeOK, kernel, LockInv, Full
  <2>9. CloseInv'
    BY <2>2, <2>3 DEF CloseInv, Closing, kernel
  <2> QED
    BY <2>5, <2>7, <2>8, <2>9
<1>2. ASSUME NEW t \in Threads, Ask(t) PROVE Basic'
  <2>1. PICK stage \in BOOLEAN : /\ call' = [call EXCEPT ![t].stage = stage]
                                 /\ stage => policy
    BY <1>2 DEF Ask, TypeOK
  <2>2. /\ pc[t] = "lock" /\ pc' = [pc EXCEPT ![t] = "first"]
        /\ policy => queue[call[t].queue] = <<>>
        /\ UNCHANGED <<kernel, entry, queue, policy, taken, done, counted, history>>
    BY <1>2 DEF Ask, Free
  <2>3. Alone(t)
    BY <1>2, CallAlone
  <2>4. /\ pc' \in [Threads -> PcType] /\ pc'[t] = "first"
        /\ \A u \in Threads : u # t => pc'[u] = pc[u]
    BY <2>2, TypeParts DEF PcType
  <2>5. /\ call' \in [Threads -> CallType]
        /\ \A u \in Threads : u # t => call'[u] = call[u]
        /\ call'[t].queue = call[t].queue /\ call'[t].len = call[t].len
        /\ call'[t].since = call[t].since /\ call'[t].stage = stage
    BY <2>1, TypeParts, ZenonT(40) DEF CallType
  <2>6. CallInv'
    BY <2>2, <2>4, <2>5 DEF CallInv, Busy, Receiving, kernel
  <2>7. LockInv'
    <3>1. \A u, v \in Threads :
            Waiting(u)' /\ Waiting(v)' /\ call'[u].queue = call'[v].queue => u = v
      BY <2>3, <2>4, <2>5 DEF LockInv, Waiting, Alone
    <3>2. \A u \in Threads :
            /\ pc'[u] = "first" /\ call'[u].stage => queue'[call'[u].queue] = <<>>
            /\ pc'[u] = "second" => queue'[call'[u].queue] # <<>>
      BY <2>1, <2>2, <2>4, <2>5 DEF LockInv, Full
    <3> QED
      BY <3>1, <3>2 DEF LockInv, Full, Waiting
  <2>8. TypeOK'
    BY <2>2, <2>4, <2>5, <2>7, TypeParts DEF TypeOK, kernel, history, LockInv, Full
  <2>9. CloseInv'
    BY <2>2, <2>4 DEF CloseInv, Closing, kernel
  <2> QED
    BY <2>6, <2>7, <2>8, <2>9
<1>3. ASSUME NEW t \in Threads, Cleanup(t) PROVE Basic'
  <2>1. /\ pc[t] = "cleanup" /\ pc' = [pc EXCEPT ![t] = "idle"]
        /\ entry' \in {entry, NoQueue} /\ counted' = counted + call[t].record
        /\ call' = [call EXCEPT ![t] = NoCall]
        /\ UNCHANGED <<kernel, queue, policy, taken, done, history>>
    BY <1>3 DEF Cleanup
  <2>2. /\ pc' \in [Threads -> PcType] /\ pc'[t] = "idle"
        /\ \A u \in Threads : u # t => pc'[u] = pc[u]
    BY <2>1, TypeParts DEF PcType
  <2>3. /\ call' \in [Threads -> CallType] /\ call'[t] = NoCall
        /\ \A u \in Threads : u # t => call'[u] = call[u]
    BY <2>1, TypeParts, NoCallType
  <2>4. counted' \in Nat
    BY <2>1 DEF TypeOK
  <2>5. CallInv'
    BY <2>1, <2>2, <2>3, NoCallType DEF CallInv, Busy, Receiving, TypeOK, kernel
  <2>6. LockInv'
    BY <2>1, <2>2, <2>3 DEF LockInv, Waiting, Full
  <2>7. TypeOK'
    BY <2>1, <2>2, <2>3, <2>4, <2>6, TypeParts DEF TypeOK, kernel, history, LockInv, Full
  <2>8. CloseInv'
    BY <2>1, <2>2 DEF CloseInv, Closing, kernel
  <2> QED
    BY <2>5, <2>6, <2>7, <2>8
<1>4. ASSUME NEW t \in Threads, Clear(t) PROVE Basic'
  <2>1. /\ pc[t] = "idle" /\ pc' = [pc EXCEPT ![t] = "closing"]
        /\ entry' = NoQueue /\ counted' = 0
        /\ queue' = [q \in Queues |-> IF \A u \in Threads : call[u].queue # q THEN <<>>
                                      ELSE queue[q]]
        /\ thrown' = IF entry = NoQueue THEN thrown ELSE thrown \cup BytesIn(queue[entry])
        /\ seen' = IF Overlaps THEN seen \cup {"overlap"} ELSE seen
        /\ UNCHANGED <<kernel, call, policy, taken, done, got>>
    BY <1>4 DEF Clear
  <2>2. /\ pc' \in [Threads -> PcType] /\ pc'[t] = "closing"
        /\ \A u \in Threads : u # t => pc'[u] = pc[u]
    BY <2>1, TypeParts DEF PcType
  <2>3. /\ queue' \in [Queues -> QueueType]
        /\ \A u \in Threads : call[u].queue \in Queues =>
             queue'[call[u].queue] = queue[call[u].queue]
    BY <2>1, TypeParts DEF QueueType
  <2>4. thrown' \subseteq 1 .. Bytes
    <3>1. CASE entry = NoQueue
      BY <2>1, <3>1 DEF TypeOK
    <3>2. CASE entry # NoQueue
      <4>1. PICK q \in QueueType : q = queue[entry]
        BY <3>2, TypeParts DEF TypeOK
      <4>2. BytesIn(q) \subseteq 1 .. Bytes
        <5>1. CASE q = <<>>
          BY <5>1 DEF BytesIn
        <5>2. CASE q # <<>>
          <6>1. q = <<q[1]>> /\ q[1] \in Chunks
            BY <5>2, QueueForm
          <6>2. \A i \in DOMAIN q : i = 1
            BY <6>1
          <6>3. BytesOf(q[1]) \subseteq 1 .. Bytes
            BY <6>1 DEF BytesOf, Chunks
          <6> QED
            BY <6>2, <6>3 DEF BytesIn
        <5> QED
          BY <5>1, <5>2
      <4> QED
        BY <2>1, <3>2, <4>1, <4>2 DEF TypeOK
    <3> QED
      BY <3>1, <3>2
  <2>5. CallInv'
    BY <2>1, <2>2 DEF CallInv, Busy, Receiving, kernel
  <2>6. LockInv'
    <3>1. ASSUME NEW u \in Threads, Waiting(u)'
          PROVE  Waiting(u) /\ pc'[u] = pc[u] /\ queue'[call[u].queue] = queue[call[u].queue]
      <4>1. Waiting(u) /\ pc'[u] = pc[u]
        BY <2>1, <2>2, <3>1 DEF Waiting
      <4>2. call[u].queue \in Queues
        BY <4>1 DEF CallInv, Busy, Waiting, TypeOK
      <4> QED
        BY <2>3, <4>1, <4>2
    <3> QED
      BY <2>1, <3>1 DEF LockInv, Waiting, Full
  <2>7. TypeOK'
    BY <2>1, <2>2, <2>3, <2>4, <2>6, TypeParts DEF TypeOK, kernel, LockInv, Full
  <2>8. CloseInv'
    <3>1. ~Closing /\ epoch < MaxEpoch
      BY <1>4 DEF Clear
    <3> QED
      BY <2>1, <2>2, <3>1 DEF CloseInv, Closing, kernel
  <2> QED
    BY <2>5, <2>6, <2>7, <2>8
<1>5. ASSUME NEW t \in Threads, Close(t) PROVE Basic'
  <2>1. /\ pc[t] = "closing" /\ pc' = [pc EXCEPT ![t] = "idle"]
        /\ epoch' = epoch + 1 /\ eof' = FALSE /\ done' = FALSE
        /\ UNCHANGED <<nonblocking, entry, queue, call, policy, taken, counted, history>>
    BY <1>5 DEF Close
  <2>2. /\ pc' \in [Threads -> PcType] /\ pc'[t] = "idle"
        /\ \A u \in Threads : u # t => pc'[u] = pc[u]
    BY <2>1, TypeParts DEF PcType
  <2>3. epoch' \in 0 .. MaxEpoch /\ \A u \in Threads : call[u].since <= epoch'
    BY <2>1 DEF TypeOK, CallInv, CloseInv, Closing
  <2>4. CallInv'
    BY <2>1, <2>2, <2>3 DEF CallInv, Busy, Receiving
  <2>5. LockInv'
    BY <2>1, <2>2 DEF LockInv, Waiting, Full
  <2>6. TypeOK'
    BY <2>1, <2>2, <2>3, <2>5, TypeParts DEF TypeOK, history, LockInv, Full
  <2>7. CloseInv'
    BY <2>1, <2>2 DEF CloseInv, Closing
  <2> QED
    BY <2>4, <2>5, <2>6, <2>7
<1>6. CASE HangUp \/ TogglePolicy \/ UNCHANGED vars
  <2>1. /\ UNCHANGED <<nonblocking, entry, queue, pc, call, epoch, taken, done, counted, got, thrown>>
        /\ policy' \in BOOLEAN /\ eof' \in BOOLEAN
        /\ seen' \subseteq {"overlap", "policy", "close"}
    BY <1>6 DEF HangUp, TogglePolicy, TypeOK, vars, kernel, history
  <2>2. CallInv' /\ LockInv' /\ CloseInv'
    BY <2>1 DEF CallInv, LockInv, Busy, Receiving, Waiting, Full, CloseInv, Closing
  <2>3. TypeOK'
    BY <2>1, TypeParts DEF TypeOK
  <2> QED
    BY <2>2, <2>3
<1> QED
  BY <1>1, <1>2, <1>3, <1>4, <1>5, <1>6

-----------------------------------------------------------------------------
(* Every byte at one place.                                                *)

\* Chunks are intervals of bytes.
LEMMA ChunkTypes ==
  ASSUME TypeOK
  PROVE  /\ \A c \in Chunks : c.lo \in Int /\ c.hi \in Int /\ c.home \in Int
         /\ \A q \in Queues : Full(q) => Top(q) \in Chunks
         /\ \A i \in DOMAIN got : got[i].chunk \in Chunks /\ got[i].since \in Int
         /\ taken \in Int /\ epoch \in Int
         /\ Len(got) \in Nat /\ DOMAIN got = 1 .. Len(got)
<1> USE RecvAssumption
<1>1. \A c \in Chunks : c.lo \in Int /\ c.hi \in Int /\ c.home \in Int
  BY DEF Chunks
<1>2. \A q \in Queues : Full(q) => Top(q) \in Chunks
  BY TypeParts, QueueForm DEF Full, Top
<1>3. got \in Seq(GotType)
  BY TypeParts
<1>4. Len(got) \in Nat /\ DOMAIN got = 1 .. Len(got) /\ \A i \in 1 .. Len(got) : got[i] \in GotType
  BY <1>3, LenProperties
<1>5. \A i \in DOMAIN got : got[i].chunk \in Chunks /\ got[i].since \in Int
  BY <1>4 DEF GotType
<1> QED
  BY <1>1, <1>2, <1>4, <1>5 DEF TypeOK

\* What happens to what was returned and what is held: nothing new ...
Sheds == \A q \in Queues : queue'[q] = queue[q] \/ queue'[q] = <<>>

\* ... or a chunk more was returned.
Grows(c, since, b) ==
  /\ Len(got') = Len(got) + 1 /\ DOMAIN got' = 1 .. Len(got) + 1
  /\ \A i \in DOMAIN got : i \in DOMAIN got' /\ i # Len(got) + 1 /\ got'[i] = got[i]
  /\ \A i \in DOMAIN got' : i \in DOMAIN got \/ i = Len(got) + 1
  /\ got'[Len(got) + 1].chunk = c /\ got'[Len(got) + 1].since = since
  /\ got'[Len(got) + 1].held = b

LEMMA GotGrows ==
  ASSUME TypeOK, NEW c \in Chunks, NEW since \in 0 .. MaxEpoch, NEW b \in BOOLEAN,
         got' = Append(got, [chunk |-> c, since |-> since, held |-> b])
  PROVE  Grows(c, since, b)
<1>1. PICK x \in GotType : /\ x = [chunk |-> c, since |-> since, held |-> b]
                           /\ x.chunk = c /\ x.since = since /\ x.held = b
  BY DEF GotType
<1>2. got \in Seq(GotType)
  BY TypeParts
<1>3. /\ Len(got) \in Nat /\ DOMAIN got = 1 .. Len(got) /\ Len(got') = Len(got) + 1
      /\ DOMAIN got' = 1 .. Len(got) + 1
      /\ \A i \in 1 .. Len(got) : got'[i] = got[i]
      /\ got'[Len(got) + 1] = x
  BY <1>1, <1>2, Appended
<1> QED
  BY <1>1, <1>3 DEF Grows

\* A held chunk, or what fits of it, was returned.
LEMMA ReleaseForm ==
  ASSUME Basic, PlaceInv, NEW t \in Threads, NEW b, NEW n, Releases(t, b, n)
  PROVE  \E c, d \in Chunks :
           /\ c = Top(call[t].queue) /\ d = Fitting(c, call[t].len)
           /\ d.lo = c.lo /\ d.home = c.home /\ d.lo <= d.hi /\ d.hi <= c.hi
           /\ Grows(d, call[t].since, b)
           /\ thrown' = thrown \cup (BytesOf(c) \ BytesOf(d))
<1> USE RecvAssumption DEF Basic
<1>1. call[t].queue \in Queues /\ call[t].len \in Lengths /\ call[t].since \in 0 .. MaxEpoch
      /\ Full(call[t].queue) /\ b \in BOOLEAN
  BY DEF CallInv, TypeOK, Busy, Receiving, Releases
<1>2. PICK c \in Chunks : c = Top(call[t].queue) /\ c.lo <= c.hi
  BY <1>1, ChunkTypes DEF PlaceInv, Within
<1>3. PICK d \in Chunks : /\ d = Fitting(c, call[t].len) /\ d.lo = c.lo /\ d.home = c.home
                          /\ d.lo <= d.hi /\ d.hi <= c.hi
  BY <1>1, <1>2, FittingForm
<1>4. /\ got' = Append(got, [chunk |-> d, since |-> call[t].since, held |-> b])
      /\ thrown' = thrown \cup (BytesOf(c) \ BytesOf(d))
  BY <1>2, <1>3 DEF Releases, Return
<1>5. Grows(d, call[t].since, b)
  BY <1>1, <1>4, GotGrows
<1> QED
  BY <1>2, <1>3, <1>4, <1>5

\* A new chunk was.
LEMMA DeliverForm ==
  ASSUME Basic, NEW t \in Threads, NEW c, Delivers(t, c)
  PROVE  /\ Grows(c, call[t].since, FALSE) /\ Receiving(t)
         /\ c \in Chunks /\ c.lo = taken + 1 /\ c.hi >= c.lo /\ c.home = epoch /\ ~eof
<1> USE RecvAssumption DEF Basic
<1>1. Receiving(t) /\ c \in Received(t)
  BY DEF Delivers, Receiving
<1>2. c \in Chunks /\ c.lo = taken + 1 /\ c.hi >= c.lo /\ c.home = epoch /\ ~eof
  BY <1>1, ReceivedForm
<1>3. call[t].since \in 0 .. MaxEpoch
  BY DEF TypeOK
<1> QED
  BY <1>1, <1>2, <1>3, GotGrows DEF Delivers

LEMMA ShedKeepsPlace ==
  ASSUME Basic, PlaceInv, Sheds, got' = got, taken' = taken
  PROVE  PlaceInv'
BY DEF PlaceInv, Sheds, Full, Top, Within, Apart

LEMMA CallsKeepPlace ==
  ASSUME Basic, PlaceInv, NEW t \in Threads,
         Pop(t) \/ Fail(t) \/ First(t) \/ FirstNothing(t) \/ Second(t) \/ SecondNothing(t)
  PROVE  PlaceInv'
<1> USE DEF Basic
<1>0. /\ \A c \in Chunks : c.lo \in Int /\ c.hi \in Int /\ c.home \in Int
      /\ \A q \in Queues : Full(q) => Top(q) \in Chunks
      /\ \A i \in DOMAIN got : got[i].chunk \in Chunks
      /\ taken \in Int
  BY ChunkTypes
<1>1. Receiving(t)
  BY DEF Pop, Fail, First, FirstNothing, Second, SecondNothing, Free, Receiving
<1>2. call[t].queue \in Queues
  BY <1>1 DEF CallInv, TypeOK, Busy, Receiving
<1>3. CASE \E b, n : Releases(t, b, n)
  <2>1. PICK b, n : Releases(t, b, n)
    BY <1>3
  <2>2. PICK c, d \in Chunks : /\ c = Top(call[t].queue)
                               /\ d.lo = c.lo /\ d.lo <= d.hi /\ d.hi <= c.hi
                               /\ Grows(d, call[t].since, b)
    BY <2>1, ReleaseForm
  <2>3. /\ Full(call[t].queue) /\ taken' = taken /\ queue'[call[t].queue] = <<>>
        /\ \A r \in Queues : r # call[t].queue => queue'[r] = queue[r]
    BY <2>1 DEF Releases, Ends
  <2>4. \A r \in Queues : Full(r)' => /\ r # call[t].queue /\ Full(r) /\ Top(r)' = Top(r)
    BY <2>3 DEF Full, Top
  <2>5. /\ Within(c, taken)
        /\ \A i \in DOMAIN got : Apart(got[i].chunk, c)
        /\ \A r \in Queues : r # call[t].queue /\ Full(r) => Apart(Top(r), c)
    BY <1>2, <2>2, <2>3 DEF PlaceInv
  <2>6. Within(d, taken) /\ \A e \in Chunks : Apart(e, c) => Apart(e, d) /\ Apart(d, e)
    BY <1>0, <2>2, <2>5 DEF Within, Apart
  <2>7. \A i \in DOMAIN got' : \/ i \in DOMAIN got /\ got'[i] = got[i]
                               \/ i = Len(got) + 1 /\ got'[i].chunk = d
    BY <2>2 DEF Grows
  <2>8. \A i \in DOMAIN got' : Within(got'[i].chunk, taken')
    BY <2>3, <2>6, <2>7 DEF PlaceInv, Within
  <2>9. \A q \in Queues : Full(q)' => Within(Top(q)', taken')
    BY <2>3, <2>4 DEF PlaceInv, Within
  <2>10. \A i, j \in DOMAIN got' : i # j => Apart(got'[i].chunk, got'[j].chunk)
    <3>1. \A i \in DOMAIN got : Apart(got[i].chunk, d) /\ Apart(d, got[i].chunk)
      BY <1>0, <2>5, <2>6
    <3> QED
      BY <2>7, <3>1 DEF PlaceInv
  <2>11. \A i \in DOMAIN got', q \in Queues : Full(q)' => Apart(got'[i].chunk, Top(q)')
    <3>1. \A q \in Queues : Full(q)' => Apart(d, Top(q)')
      BY <1>0, <2>4, <2>5, <2>6
    <3> QED
      BY <2>4, <2>7, <3>1 DEF PlaceInv
  <2>12. \A q, r \in Queues : q # r /\ Full(q)' /\ Full(r)' => Apart(Top(q)', Top(r)')
    BY <2>4 DEF PlaceInv
  <2> QED
    BY <2>8, <2>9, <2>10, <2>11, <2>12 DEF PlaceInv, Apart, Within
<1>4. CASE \E c : Delivers(t, c)
  <2>1. PICK c : Delivers(t, c)
    BY <1>4
  <2>2. /\ c \in Chunks /\ c.lo = taken + 1 /\ c.lo <= c.hi /\ Grows(c, call[t].since, FALSE)
    BY <1>0, <2>1, DeliverForm
  <2>3. taken' = c.hi /\ Sheds
    BY <2>1 DEF Delivers, Ends, Sheds
  <2>4. \A r \in Queues : Full(r)' => Full(r) /\ Top(r)' = Top(r)
    BY <2>3 DEF Sheds, Full, Top
  <2>5. \A e \in Chunks : Within(e, taken) => Within(e, taken') /\ Apart(e, c) /\ Apart(c, e)
    BY <1>0, <2>2, <2>3 DEF Within, Apart
  <2>6. \A i \in DOMAIN got' : \/ i \in DOMAIN got /\ got'[i] = got[i]
                               \/ i = Len(got) + 1 /\ got'[i].chunk = c
    BY <2>2 DEF Grows
  <2>7. Within(c, taken')
    BY <1>0, <2>2, <2>3 DEF Within
  <2>8. \A i \in DOMAIN got : Within(got[i].chunk, taken') /\ Apart(got[i].chunk, c) /\ Apart(c, got[i].chunk)
    BY <1>0, <2>5 DEF PlaceInv
  <2>9. \A q \in Queues : Full(q)' => Within(Top(q)', taken') /\ Apart(c, Top(q)')
    BY <1>0, <2>4, <2>5 DEF PlaceInv, Within
  <2>10. \A i \in DOMAIN got' : Within(got'[i].chunk, taken')
    BY <2>6, <2>7, <2>8 DEF Within
  <2>11. \A i, j \in DOMAIN got' : i # j => Apart(got'[i].chunk, got'[j].chunk)
    BY <2>6, <2>8 DEF PlaceInv
  <2>12. \A i \in DOMAIN got', q \in Queues : Full(q)' => Apart(got'[i].chunk, Top(q)')
    BY <2>4, <2>6, <2>9 DEF PlaceInv
  <2>13. \A q, r \in Queues : q # r /\ Full(q)' /\ Full(r)' => Apart(Top(q)', Top(r)')
    BY <2>4 DEF PlaceInv
  <2> QED
    BY <2>9, <2>10, <2>11, <2>12, <2>13 DEF PlaceInv, Apart, Within
<1>5. CASE \E c : Stages(t, c)
  <2>1. PICK c : Stages(t, c)
    BY <1>5
  <2>2. c \in Chunks /\ c.lo = taken + 1 /\ c.lo <= c.hi /\ got' = got /\ taken' = c.hi
    BY <1>0, <1>1, <2>1, ReceivedForm DEF Stages
  <2>3. /\ queue'[call[t].queue] \in {<<c>>, <<>>}
        /\ \A r \in Queues : r # call[t].queue => queue'[r] = queue[r]
    BY <1>2, <2>1, TypeParts DEF Stages, Ends
  <2>4. \A r \in Queues : Full(r)' => \/ r # call[t].queue /\ Full(r) /\ Top(r)' = Top(r)
                                      \/ r = call[t].queue /\ Top(r)' = c
    BY <2>3, Single DEF Full, Top
  <2>5. \A e \in Chunks : Within(e, taken) => Within(e, taken') /\ Apart(e, c) /\ Apart(c, e)
    BY <1>0, <2>2 DEF Within, Apart
  <2>6. Within(c, taken')
    BY <1>0, <2>2 DEF Within
  <2>7. \A i \in DOMAIN got : Within(got[i].chunk, taken') /\ Apart(got[i].chunk, c)
    BY <1>0, <2>5 DEF PlaceInv
  <2>8. \A r \in Queues : Full(r) => Within(Top(r), taken) /\ Apart(Top(r), c) /\ Apart(c, Top(r))
    BY <1>0, <2>5 DEF PlaceInv
  <2>9. \A q \in Queues : Full(q)' => Within(Top(q)', taken')
    <3>1. \A q \in Queues : Full(q) => Top(q).lo <= Top(q).hi /\ Top(q).hi <= taken'
      BY <1>0, <2>2, <2>8 DEF Within
    <3> QED
      BY <2>4, <2>6, <3>1 DEF Within
  <2>10. \A i \in DOMAIN got, q \in Queues : Full(q)' => Apart(got[i].chunk, Top(q)')
    BY <2>4, <2>7 DEF PlaceInv
  <2>11. \A q, r \in Queues : q # r /\ Full(q)' /\ Full(r)' => Apart(Top(q)', Top(r)')
    BY <2>4, <2>8 DEF PlaceInv
  <2>12. \A i, j \in DOMAIN got : i # j => Apart(got[i].chunk, got[j].chunk)
    BY DEF PlaceInv
  <2> QED
    BY <2>2, <2>7, <2>9, <2>10, <2>11, <2>12 DEF PlaceInv, Apart, Within
<1>6. CASE Misses(t)
  <2>1. Sheds /\ got' = got /\ taken' = taken
    BY <1>6 DEF Misses, Ends, Sheds
  <2> QED
    BY <2>1, ShedKeepsPlace
<1> QED
  BY <1>3, <1>4, <1>5, <1>6, CallSteps

\* The other steps return nothing and put nothing into a queue.
LEMMA OthersShed ==
  ASSUME Basic,
         \/ \E t \in Threads : LookUp(t) \/ Ask(t) \/ Cleanup(t) \/ Clear(t) \/ Close(t)
         \/ HangUp \/ TogglePolicy \/ UNCHANGED vars
  PROVE  Sheds /\ got' = got /\ taken' = taken
<1> USE DEF Basic
<1>1. ASSUME NEW t \in Threads, LookUp(t) PROVE Sheds /\ got' = got /\ taken' = taken
  <2>1. PICK q, len : Begins(t, q, len)
    BY <1>1, LookUpBegins
  <2> QED
    BY <2>1, TypeParts DEF Begins, Sheds
<1>2. ASSUME NEW t \in Threads, Clear(t) PROVE Sheds /\ got' = got /\ taken' = taken
  BY <1>2 DEF Clear, Sheds
<1>3. ASSUME NEW t \in Threads, Ask(t) \/ Cleanup(t) \/ Close(t)
      PROVE  Sheds /\ got' = got /\ taken' = taken
  BY <1>3 DEF Ask, Cleanup, Close, Sheds, history
<1>4. CASE HangUp \/ TogglePolicy \/ UNCHANGED vars
  BY <1>4 DEF HangUp, TogglePolicy, vars, Sheds, history
<1> QED
  BY <1>1, <1>2, <1>3, <1>4

-----------------------------------------------------------------------------
(* Nothing of an earlier socket.                                           *)

\* A call that has its queue locked leaves the others, close() and the map alone.
LEMMA CallFrame ==
  ASSUME Basic, PlaceInv, NEW t \in Threads,
         Pop(t) \/ Fail(t) \/ First(t) \/ FirstNothing(t) \/ Second(t) \/ SecondNothing(t)
  PROVE  /\ UNCHANGED <<kernel, entry, policy, seen>>
         /\ \A u \in Threads : u # t => pc'[u] = pc[u] /\ call'[u] = call[u]
         /\ \A u \in Threads : pc'[u] = "closing" <=> pc[u] = "closing"
         /\ call[t].queue \in Queues /\ Receiving(t)
         /\ Receiving(t)' => pc'[t] = "second" /\ call'[t] = call[t]
<1> USE DEF Basic
<1>1. Receiving(t)
  BY DEF Pop, Fail, First, FirstNothing, Second, SecondNothing, Free, Receiving
<1>2. call[t].queue \in Queues
  BY <1>1 DEF CallInv, TypeOK, Busy, Receiving
<1>3. ASSUME NEW q, NEW n, Ends(t, q, n)
      PROVE  /\ \A u \in Threads : u # t => pc'[u] = pc[u] /\ call'[u] = call[u]
             /\ \A u \in Threads : pc'[u] = "closing" <=> pc[u] = "closing"
             /\ ~Receiving(t)'
  BY <1>1, <1>3 DEF Ends, Receiving
<1>4. CASE \E b, n : Releases(t, b, n)
  BY <1>1, <1>2, <1>3, <1>4 DEF Releases
<1>5. CASE \E c : Delivers(t, c)
  BY <1>1, <1>2, <1>3, <1>5 DEF Delivers
<1>6. CASE \E c : Stages(t, c)
  <2>1. PICK c : Stages(t, c)
    BY <1>6
  <2>2. CASE Ends(t, <<c>>, 0)
    BY <1>1, <1>2, <1>3, <2>1, <2>2 DEF Stages
  <2>3. CASE pc' = [pc EXCEPT ![t] = "second"] /\ UNCHANGED <<call, counted>>
    BY <1>1, <1>2, <2>1, <2>3, TypeParts DEF Stages, Receiving
  <2> QED
    BY <2>1, <2>2, <2>3 DEF Stages
<1>7. CASE Misses(t)
  BY <1>1, <1>2, <1>3, <1>7 DEF Misses
<1> QED
  BY <1>4, <1>5, <1>6, <1>7, CallSteps

LEMMA CallsKeepHome ==
  ASSUME Basic, PlaceInv, HomeInv, NEW t \in Threads,
         Pop(t) \/ Fail(t) \/ First(t) \/ FirstNothing(t) \/ Second(t) \/ SecondNothing(t)
  PROVE  HomeInv'
<1> USE DEF Basic
<1>0. /\ \A c \in Chunks : c.lo \in Int /\ c.hi \in Int /\ c.home \in Int
      /\ \A q \in Queues : Full(q) => Top(q) \in Chunks
      /\ \A i \in DOMAIN got : got[i].chunk \in Chunks
      /\ epoch \in Int /\ \A u \in Threads : call[u].since \in Int /\ call[u].since <= epoch
  BY ChunkTypes DEF CallInv, TypeOK
<1>1. /\ UNCHANGED <<kernel, entry, policy, seen>>
      /\ \A u \in Threads : u # t => pc'[u] = pc[u] /\ call'[u] = call[u]
      /\ \A u \in Threads : pc'[u] = "closing" <=> pc[u] = "closing"
      /\ call[t].queue \in Queues /\ Receiving(t)
      /\ Receiving(t)' => pc'[t] = "second" /\ call'[t] = call[t]
  BY CallFrame
<1>2. \A u \in Threads : Receiving(u)' => Receiving(u) /\ call'[u] = call[u] /\ call[u].queue \in Queues
  <2>1. \A u \in Threads : Receiving(u)' => Receiving(u) /\ call'[u] = call[u]
    BY <1>1 DEF Receiving
  <2>2. \A u \in Threads : Receiving(u) => call[u].queue \in Queues
    BY DEF CallInv, TypeOK, Busy, Receiving
  <2> QED
    BY <2>1, <2>2
<1>3. entry # NoQueue => entry \in Queues
  BY DEF TypeOK
<1>4. (Closing => entry = NoQueue)'
  BY <1>1 DEF HomeInv, Closing
<1>5. \A q \in Queues : Full(q)' =>
        (Full(q) /\ Top(q)' = Top(q)) \/ Top(q)'.home = epoch
  <2>1. CASE \E c : Stages(t, c)
    <3>1. PICK c : Stages(t, c)
      BY <2>1
    <3>2. c.home = epoch
      BY <1>1, <3>1, ReceivedForm DEF Stages
    <3>3. /\ queue'[call[t].queue] \in {<<c>>, <<>>}
          /\ \A r \in Queues : r # call[t].queue => queue'[r] = queue[r]
      <4>1. call[t].queue \in Queues
        BY <1>1
      <4> QED
        BY <3>1, <4>1, TypeParts DEF Stages, Ends
    <3> QED
      BY <3>2, <3>3, Single DEF Full, Top
  <2>2. CASE Misses(t) \/ (\E c : Delivers(t, c)) \/ (\E b, n : Releases(t, b, n))
    <3>1. Sheds
      BY <2>2 DEF Misses, Delivers, Releases, Ends, Sheds
    <3> QED
      BY <3>1 DEF Sheds, Full, Top
  <2> QED
    BY <2>1, <2>2, CallSteps
<1>6. ASSUME NEW u \in Threads, Receiving(u)', Full(call[u].queue)'
      PROVE  (Top(call[u].queue).home >= call[u].since)'
  <2>1. PICK q \in Queues : q = call[u].queue /\ call'[u].queue = q /\ Receiving(u)
                            /\ call'[u].since = call[u].since
    BY <1>2, <1>6
  <2>2. Full(q)' /\ (Full(q) => Top(q).home >= call[u].since)
    BY <1>6, <2>1 DEF HomeInv, Full
  <2>3. Top(q)'.home >= call[u].since
    BY <1>0, <1>5, <2>2
  <2> QED
    BY <2>1, <2>3 DEF Top
<1>7. (entry # NoQueue /\ Full(entry) => Top(entry).home >= epoch)'
  <2>1. SUFFICES ASSUME entry # NoQueue, (entry # NoQueue /\ Full(entry))'
                 PROVE  (Top(entry).home >= epoch)'
    BY <1>1
  <2>2. PICK q \in Queues : q = entry /\ entry' = q
    BY <1>1, <1>3, <2>1
  <2>3. Full(q)' /\ (Full(q) => Top(q).home >= epoch)
    BY <2>1, <2>2 DEF HomeInv, Full
  <2>4. Top(q)'.home >= epoch /\ epoch' = epoch
    BY <1>0, <1>1, <1>5, <2>3 DEF kernel
  <2> QED
    BY <2>2, <2>4 DEF Top
<1>8. \A i \in DOMAIN got' : got'[i].chunk.home >= got'[i].since
  <2>1. CASE \E b, n : Releases(t, b, n)
    <3>1. PICK b, n : Releases(t, b, n)
      BY <2>1
    <3>2. PICK c, d \in Chunks : /\ c = Top(call[t].queue) /\ d.home = c.home
                                 /\ Grows(d, call[t].since, b)
      BY <3>1, ReleaseForm
    <3>3. d.home >= call[t].since
      BY <1>1, <3>1, <3>2 DEF HomeInv, Releases
    <3> QED
      BY <3>2, <3>3 DEF Grows, HomeInv
  <2>2. CASE \E c : Delivers(t, c)
    <3>1. PICK c : Delivers(t, c)
      BY <2>2
    <3>2. c.home = epoch /\ Grows(c, call[t].since, FALSE)
      BY <3>1, DeliverForm
    <3> QED
      BY <1>0, <3>2 DEF Grows, HomeInv
  <2>3. CASE Misses(t) \/ \E c : Stages(t, c)
    BY <2>3 DEF Misses, Stages, HomeInv
  <2> QED
    BY <2>1, <2>2, <2>3, CallSteps
<1> QED
  BY <1>4, <1>6, <1>7, <1>8 DEF HomeInv

LEMMA OthersKeepHome ==
  ASSUME Basic, HomeInv, "close" \notin seen',
         \/ \E t \in Threads : LookUp(t) \/ Ask(t) \/ Cleanup(t) \/ Clear(t) \/ Close(t)
         \/ HangUp \/ TogglePolicy \/ UNCHANGED vars
  PROVE  HomeInv'
<1> USE DEF Basic
<1>0. Sheds /\ got' = got
  BY OthersShed
<1>1. \A q \in Queues : Full(q)' => Full(q) /\ Top(q)' = Top(q)
  BY <1>0 DEF Sheds, Full, Top
<1>2. \A i \in DOMAIN got' : got'[i].chunk.home >= got'[i].since
  BY <1>0 DEF HomeInv
<1>3. \A u \in Threads : Receiving(u) => call[u].queue \in Queues
  BY DEF CallInv, TypeOK, Busy, Receiving
<1>4. entry # NoQueue => entry \in Queues
  BY DEF TypeOK
\* Calls that go on, with the same queue.
<1>5. ASSUME NEW u \in Threads, Receiving(u), call'[u].queue = call[u].queue,
             call'[u].since = call[u].since, Full(call[u].queue)'
      PROVE  (Top(call[u].queue).home >= call[u].since)'
  <2>1. PICK q \in Queues : q = call[u].queue
    BY <1>3, <1>5
  <2>2. Full(q) /\ Top(q)' = Top(q)
    BY <1>1, <1>5, <2>1 DEF Full
  <2>3. Top(q).home >= call[u].since
    BY <1>5, <2>1, <2>2 DEF HomeInv
  <2> QED
    BY <1>5, <2>1, <2>2, <2>3 DEF Top
\* The map, while it has the same queue or none.
<1>6. ASSUME entry' \in {entry, NoQueue}, epoch' = epoch
      PROVE  (entry # NoQueue /\ Full(entry) => Top(entry).home >= epoch)'
  <2>1. SUFFICES ASSUME entry # NoQueue, entry' = entry, Full(entry)'
                 PROVE  (Top(entry).home >= epoch)'
    BY <1>6
  <2>2. PICK q \in Queues : q = entry /\ entry' = q
    BY <1>4, <2>1
  <2>3. Full(q) /\ Top(q)' = Top(q)
    BY <1>1, <2>1, <2>2 DEF Full
  <2> QED
    BY <1>6, <2>1, <2>2, <2>3 DEF HomeInv, Top
<1>7. ASSUME NEW t \in Threads, LookUp(t) PROVE HomeInv'
  <2>1. PICK q, len : Begins(t, q, len)
    BY <1>7, LookUpBegins
  <2>2. ~Closing /\ epoch' = epoch /\ entry' = q /\ q \in Queues /\ epoch \in Int
    BY <2>1 DEF Begins, kernel, TypeOK
  <2>3. /\ pc'[t] = "lock" /\ \A u \in Threads : u # t => pc'[u] = pc[u] /\ call'[u] = call[u]
        /\ call'[t].queue = q /\ call'[t].since = epoch
    BY <2>1, TypeParts DEF Begins
  <2>4. Full(q)' => Top(q)'.home >= epoch
    <3>1. CASE entry # NoQueue /\ q = entry /\ queue' = queue
      BY <3>1 DEF HomeInv, Full, Top
    <3>2. CASE queue' = [queue EXCEPT ![q] = <<>>]
      BY <2>2, <3>2, TypeParts DEF Full
    <3> QED
      BY <2>1, <3>1, <3>2 DEF Begins
  <2>5. (entry # NoQueue /\ Full(entry) => Top(entry).home >= epoch)'
    BY <2>2, <2>4 DEF Full, Top
  <2>6. (Closing => entry = NoQueue)'
    BY <2>2, <2>3 DEF Closing
  <2>7. ASSUME NEW u \in Threads, Receiving(u)', Full(call[u].queue)'
        PROVE  (Top(call[u].queue).home >= call[u].since)'
    <3>1. CASE u = t
      BY <2>3, <2>4, <2>7, <3>1 DEF Full, Top
    <3>2. CASE u # t
      BY <1>5, <2>3, <2>7, <3>2 DEF Receiving
    <3> QED
      BY <3>1, <3>2
  <2> QED
    BY <1>2, <2>5, <2>6, <2>7 DEF HomeInv
<1>8. ASSUME NEW t \in Threads, Ask(t) PROVE HomeInv'
  <2>1. /\ pc[t] = "lock" /\ pc' = [pc EXCEPT ![t] = "first"] /\ entry' = entry /\ epoch' = epoch
        /\ \E stage : call' = [call EXCEPT ![t].stage = stage]
    BY <1>8 DEF Ask, Free, kernel
  <2>2. \A u \in Threads : /\ Receiving(u)' => Receiving(u)
                           /\ call'[u].queue = call[u].queue /\ call'[u].since = call[u].since
                           /\ pc'[u] = "closing" => pc[u] = "closing"
    BY <2>1, TypeParts DEF Receiving, CallType
  <2>3. (Closing => entry = NoQueue)'
    BY <2>1, <2>2 DEF HomeInv, Closing
  <2> QED
    BY <1>2, <1>5, <1>6, <2>1, <2>2, <2>3 DEF HomeInv
<1>9. ASSUME NEW t \in Threads, Cleanup(t) \/ Clear(t) PROVE HomeInv'
  <2>1. /\ entry' \in {entry, NoQueue} /\ epoch' = epoch /\ (Clear(t) => entry' = NoQueue)
        /\ \A u \in Threads : Receiving(u)' => Receiving(u) /\ call'[u] = call[u]
        /\ Cleanup(t) => \A u \in Threads : pc'[u] = "closing" => pc[u] = "closing"
    BY <1>9, TypeParts DEF Cleanup, Clear, Receiving, kernel
  <2>2. (Closing => entry = NoQueue)'
    BY <1>9, <2>1 DEF HomeInv, Closing
  <2> QED
    BY <1>2, <1>5, <1>6, <2>1, <2>2 DEF HomeInv
<1>10. ASSUME NEW t \in Threads, Close(t) PROVE HomeInv'
  <2>1. entry' = NoQueue
    BY <1>10 DEF Close, HomeInv, Closing
  <2>2. \A u \in Threads : Receiving(u)' => Receiving(u) /\ call'[u] = call[u]
    BY <1>10, TypeParts DEF Close, Receiving
  <2> QED
    BY <1>2, <1>5, <2>1, <2>2 DEF HomeInv
<1>11. CASE HangUp \/ TogglePolicy \/ UNCHANGED vars
  <2>1. UNCHANGED <<entry, pc, call, epoch>>
    BY <1>11 DEF HangUp, TogglePolicy, vars, kernel
  <2>2. \A u \in Threads : Receiving(u)' => Receiving(u) /\ call'[u] = call[u]
    BY <2>1 DEF Receiving
  <2>3. (Closing => entry = NoQueue)'
    BY <2>1 DEF HomeInv, Closing
  <2> QED
    BY <1>2, <1>5, <1>6, <2>1, <2>2, <2>3 DEF HomeInv
<1> QED
  BY <1>7, <1>8, <1>9, <1>10, <1>11

-----------------------------------------------------------------------------
(* Calls that do not overlap.                                              *)

\* A byte that was returned stays returned.
LEMMA ReturnedStays ==
  ASSUME NEW c, NEW since, NEW h, Grows(c, since, h), NEW b,
         (\E i \in DOMAIN got : b \in Returned(i)) \/ b \in BytesOf(c),
         Len(got) \in Nat
  PROVE  \E i \in DOMAIN got' : b \in BytesOf(got'[i].chunk)
<1>1. CASE \E i \in DOMAIN got : b \in Returned(i)
  BY <1>1 DEF Grows, Returned
<1>2. CASE b \in BytesOf(c)
  <2>1. Len(got) + 1 \in DOMAIN got'
    BY DEF Grows
  <2> QED
    BY <1>2, <2>1 DEF Grows
<1> QED
  BY <1>1, <1>2

LEMMA CallsKeepTurn ==
  ASSUME Basic, PlaceInv, TurnInv, NEW t \in Threads,
         Pop(t) \/ Fail(t) \/ First(t) \/ FirstNothing(t) \/ Second(t) \/ SecondNothing(t)
  PROVE  /\ TurnInv' /\ \A u \in Threads : u # t => ~Busy(u)
         /\ entry = call[t].queue /\ entry \in Queues /\ entry # NoQueue /\ entry' = entry
<1> USE DEF Basic
<1>0. /\ \A c \in Chunks : c.lo \in Int /\ c.hi \in Int
      /\ \A q \in Queues : Full(q) => Top(q) \in Chunks
      /\ taken \in Int /\ Len(got) \in Nat
  BY ChunkTypes
<1>1. /\ UNCHANGED <<kernel, entry, policy, seen>>
      /\ \A u \in Threads : u # t => pc'[u] = pc[u] /\ call'[u] = call[u]
      /\ call[t].queue \in Queues /\ Receiving(t)
      /\ Receiving(t)' => pc'[t] = "second" /\ call'[t] = call[t]
  BY CallFrame
<1>2. PICK e \in Queues : e = call[t].queue /\ e = entry /\ e # NoQueue /\ entry' = e
  BY <1>1 DEF TurnInv, CallInv, Busy, Receiving
<1>3. \A u \in Threads : u # t => ~Busy(u)
  BY <1>1 DEF TurnInv, Busy, Receiving
<1>4. \A u \in Threads : Busy(u)' => u = t
  BY <1>1, <1>3 DEF Busy
\* The call ends.
<1>5. ASSUME NEW q, NEW n, Ends(t, q, n)
      PROVE  queue'[e] = q /\ (Busy(t)' => call'[t].queue = e /\ q = <<>>)
  BY <1>2, <1>5 DEF Ends, Busy
<1>6. ASSUME NEW q, NEW n, Ends(t, q, n), \A b \in 1 .. taken' : Placed(b)' PROVE TurnInv'
  <2>1. \A u \in Threads : Busy(u)' => call'[u].queue = entry'
    BY <1>2, <1>4, <1>5, <1>6
  <2>2. \A u \in Threads : pc'[u] = "cleanup" => ~Full(entry)'
    BY <1>2, <1>4, <1>5, <1>6 DEF Busy, Full
  <2>3. \A u, v \in Threads : Busy(u)' /\ Busy(v)' => u = v
    BY <1>4
  <2> QED
    BY <1>6, <2>1, <2>2, <2>3 DEF TurnInv
<1>7. CASE \E b, n : Releases(t, b, n)
  <2>1. PICK h, n : Releases(t, h, n)
    BY <1>7
  <2>2. PICK c, d \in Chunks : /\ c = Top(e) /\ Grows(d, call[t].since, h)
                               /\ thrown' = thrown \cup (BytesOf(c) \ BytesOf(d))
    BY <1>2, <2>1, ReleaseForm
  <2>3. Ends(t, <<>>, n) /\ taken' = taken
    BY <2>1 DEF Releases
  <2>4. ASSUME NEW b \in 1 .. taken PROVE Placed(b)'
    <3>1. Placed(b)
      BY DEF TurnInv
    <3>2. CASE (\E i \in DOMAIN got : b \in Returned(i)) \/ b \in BytesOf(d)
      <4>1. \E i \in DOMAIN got' : b \in BytesOf(got'[i].chunk)
        BY <1>0, <2>2, <3>2, ReturnedStays
      <4> QED
        BY <4>1 DEF Placed, Returned
    <3>3. CASE b \in thrown \/ (b \in BytesOf(c) /\ b \notin BytesOf(d))
      BY <2>2, <3>3 DEF Placed
    <3>4. CASE Full(entry) /\ b \in BytesOf(Top(entry))
      BY <1>2, <2>2, <3>2, <3>3, <3>4
    <3> QED
      BY <3>1, <3>2, <3>3, <3>4 DEF Placed
  <2>5. TurnInv'
    BY <1>6, <2>3, <2>4
  <2> QED
    BY <1>2, <1>3, <2>5
<1>8. CASE \E c : Delivers(t, c)
  <2>1. PICK c : Delivers(t, c)
    BY <1>8
  <2>2. Grows(c, call[t].since, FALSE) /\ c \in Chunks /\ c.lo = taken + 1
    BY <2>1, DeliverForm
  <2>3. Ends(t, queue[e], Size(c)) /\ taken' = c.hi /\ thrown' = thrown
    BY <1>2, <2>1 DEF Delivers
  <2>4. queue'[e] = queue[e]
    BY <1>5, <2>3
  <2>5. ASSUME NEW b \in 1 .. taken' PROVE Placed(b)'
    <3>1. Placed(b) \/ b \in BytesOf(c)
      BY <1>0, <2>2, <2>3 DEF TurnInv, BytesOf
    <3>2. CASE (\E i \in DOMAIN got : b \in Returned(i)) \/ b \in BytesOf(c)
      <4>1. \E i \in DOMAIN got' : b \in BytesOf(got'[i].chunk)
        BY <1>0, <2>2, <3>2, ReturnedStays
      <4> QED
        BY <4>1 DEF Placed, Returned
    <3>3. CASE b \in thrown \/ (entry # NoQueue /\ Full(entry) /\ b \in BytesOf(Top(entry)))
      BY <1>2, <2>3, <2>4, <3>3 DEF Placed, Full, Top
    <3> QED
      BY <3>1, <3>2, <3>3 DEF Placed
  <2>6. TurnInv'
    BY <1>6, <2>3, <2>5
  <2> QED
    BY <1>2, <1>3, <2>6
<1>9. CASE \E c : Stages(t, c)
  <2>1. PICK c : Stages(t, c)
    BY <1>9
  <2>2. /\ c \in Chunks /\ c.lo = taken + 1 /\ taken' = c.hi /\ got' = got /\ thrown' = thrown
        /\ ~Full(e)
    BY <1>1, <1>2, <2>1, ReceivedForm DEF Stages, LockInv
  <2>3. queue'[e] = <<c>>
    <3>1. CASE Ends(t, <<c>>, 0)
      BY <1>5, <3>1
    <3>2. CASE queue' = [queue EXCEPT ![call[t].queue] = <<c>>]
      BY <1>2, <3>2, TypeParts
    <3> QED
      BY <2>1, <3>1, <3>2 DEF Stages
  <2>4. Full(e)' /\ Top(e)' = c
    BY <2>3, Single DEF Full, Top
  <2>5. ASSUME NEW b \in 1 .. taken' PROVE Placed(b)'
    <3>1. Placed(b) \/ b \in BytesOf(c)
      BY <1>0, <2>2 DEF TurnInv, BytesOf
    <3>2. CASE b \in BytesOf(c)
      BY <1>2, <2>4, <3>2 DEF Placed, Full, Top
    <3>3. CASE Placed(b)
      BY <1>2, <2>2, <3>3 DEF Placed, Returned
    <3> QED
      BY <3>1, <3>2, <3>3
  <2>6. TurnInv'
    <3>1. CASE Ends(t, <<c>>, 0)
      BY <1>6, <2>5, <3>1
    <3>2. CASE pc' = [pc EXCEPT ![t] = "second"] /\ UNCHANGED <<call, counted>>
      <4>1. pc'[t] = "second" /\ call'[t].queue = entry'
        BY <1>2, <3>2, TypeParts
      <4>2. \A u \in Threads : pc'[u] # "cleanup"
        BY <1>4, <4>1 DEF Busy
      <4> QED
        BY <1>4, <2>5, <4>1, <4>2 DEF TurnInv
    <3> QED
      BY <2>1, <3>1, <3>2 DEF Stages
  <2> QED
    BY <1>2, <1>3, <2>6
<1>10. CASE Misses(t)
  <2>1. Ends(t, queue[e], 0) /\ taken' = taken /\ thrown' = thrown /\ got' = got
    BY <1>2, <1>10 DEF Misses
  <2>2. queue'[e] = queue[e]
    BY <1>5, <2>1
  <2>3. \A b \in 1 .. taken' : Placed(b)'
    BY <1>2, <2>1, <2>2 DEF TurnInv, Placed, Returned, Full, Top
  <2>4. TurnInv'
    BY <1>6, <2>1, <2>3
  <2> QED
    BY <1>2, <1>3, <2>4
<1> QED
  BY <1>7, <1>8, <1>9, <1>10, CallSteps

LEMMA OthersKeepTurn ==
  ASSUME Basic, TurnInv, "overlap" \notin seen',
         \/ \E t \in Threads : LookUp(t) \/ Ask(t) \/ Cleanup(t) \/ Clear(t) \/ Close(t)
         \/ HangUp \/ TogglePolicy \/ UNCHANGED vars
  PROVE  TurnInv'
<1> USE DEF Basic
<1>0. got' = got /\ taken' = taken
  BY OthersShed
<1>1. ASSUME NEW t \in Threads, LookUp(t) PROVE TurnInv'
  <2>1. PICK q, len : Begins(t, q, len)
    BY <1>1, LookUpBegins
  <2>2. ~Overlaps /\ thrown' = thrown /\ entry' = q
    BY <2>1 DEF Begins
  <2>3. /\ pc'[t] = "lock" /\ \A u \in Threads : u # t => pc'[u] = pc[u] /\ call'[u] = call[u]
        /\ call'[t].queue = q
    BY <2>1, TypeParts DEF Begins
  <2>4. \A u \in Threads : Busy(u)' => u = t
    BY <2>2, <2>3 DEF Overlaps, Busy
  <2>5. \A u \in Threads : pc'[u] # "cleanup"
    BY <2>3, <2>4 DEF Busy
  <2>6. ASSUME NEW b \in 1 .. taken PROVE Placed(b)'
    <3>1. Placed(b)
      BY DEF TurnInv
    <3>2. CASE entry # NoQueue /\ Full(entry) /\ b \in BytesOf(Top(entry))
      <4>1. queue' = queue /\ entry' = entry
        BY <2>1, <3>2 DEF Begins
      <4> QED
        BY <3>2, <4>1 DEF Placed, Full, Top
    <3>3. CASE (\E i \in DOMAIN got : b \in Returned(i)) \/ b \in thrown
      BY <1>0, <2>2, <3>3 DEF Placed, Returned
    <3> QED
      BY <3>1, <3>2, <3>3 DEF Placed
  <2> QED
    BY <1>0, <2>2, <2>3, <2>4, <2>5, <2>6 DEF TurnInv
<1>2. ASSUME NEW t \in Threads, Ask(t) PROVE TurnInv'
  <2>1. /\ pc[t] = "lock" /\ pc' = [pc EXCEPT ![t] = "first"]
        /\ UNCHANGED <<entry, queue, thrown>>
        /\ \E stage : call' = [call EXCEPT ![t].stage = stage]
    BY <1>2 DEF Ask, Free, history
  <2>2. \A u \in Threads : /\ Busy(u)' => Busy(u)
                           /\ call'[u].queue = call[u].queue
                           /\ pc'[u] = "cleanup" => pc[u] = "cleanup"
    BY <2>1, TypeParts DEF Busy, CallType
  <2>3. \A b \in 1 .. taken' : Placed(b)'
    BY <1>0, <2>1 DEF TurnInv, Placed, Returned, Full, Top
  <2> QED
    BY <2>1, <2>2, <2>3 DEF TurnInv, Full
<1>3. ASSUME NEW t \in Threads, Cleanup(t) PROVE TurnInv'
  <2>1. /\ pc[t] = "cleanup" /\ pc' = [pc EXCEPT ![t] = "idle"]
        /\ UNCHANGED <<queue, thrown>>
    BY <1>3 DEF Cleanup, history
  <2>2. ~Full(entry) /\ \A u \in Threads : u # t => ~Busy(u)
    BY <2>1 DEF TurnInv, Busy
  <2>3. \A u \in Threads : ~Busy(u)'
    BY <2>1, <2>2, TypeParts DEF Busy
  <2>4. \A u \in Threads : pc'[u] # "cleanup"
    BY <2>3 DEF Busy
  <2>5. \A b \in 1 .. taken' : Placed(b)'
    BY <1>0, <2>1, <2>2 DEF TurnInv, Placed, Returned
  <2> QED
    BY <2>3, <2>4, <2>5 DEF TurnInv
<1>4. ASSUME NEW t \in Threads, Clear(t) PROVE TurnInv'
  <2>1. /\ pc[t] = "idle" /\ pc' = [pc EXCEPT ![t] = "closing"] /\ ~Overlaps
        /\ entry' = NoQueue
        /\ thrown' = IF entry = NoQueue THEN thrown ELSE thrown \cup BytesIn(queue[entry])
    BY <1>4 DEF Clear
  <2>2. \A u \in Threads : ~Busy(u)'
    BY <2>1, TypeParts DEF Busy, Overlaps
  <2>3. \A u \in Threads : pc'[u] # "cleanup"
    BY <2>2 DEF Busy
  <2>4. entry # NoQueue /\ Full(entry) => BytesOf(Top(entry)) \subseteq thrown'
    <3>1. SUFFICES ASSUME entry # NoQueue, Full(entry)
                   PROVE  BytesOf(Top(entry)) \subseteq BytesIn(queue[entry])
      BY <2>1
    <3>2. PICK q \in QueueType : q = queue[entry]
      BY <3>1, TypeParts DEF TypeOK
    <3>3. q = <<q[1]>>
      BY <3>1, <3>2, QueueForm DEF Full
    <3>4. 1 \in DOMAIN q
      BY <3>3
    <3> QED
      BY <3>2, <3>4 DEF Top, BytesIn
  <2>5. \A b \in 1 .. taken' : Placed(b)'
    BY <1>0, <2>1, <2>4 DEF TurnInv, Placed, Returned
  <2> QED
    BY <2>2, <2>3, <2>5 DEF TurnInv
<1>5. ASSUME NEW t \in Threads, Close(t) PROVE TurnInv'
  <2>1. /\ pc[t] = "closing" /\ pc' = [pc EXCEPT ![t] = "idle"]
        /\ UNCHANGED <<entry, queue, call, thrown>>
    BY <1>5 DEF Close, history
  <2>2. \A u \in Threads : /\ Busy(u)' => Busy(u)
                           /\ pc'[u] = "cleanup" => pc[u] = "cleanup"
    BY <2>1, TypeParts DEF Busy
  <2>3. \A b \in 1 .. taken' : Placed(b)'
    BY <1>0, <2>1 DEF TurnInv, Placed, Returned, Full, Top
  <2> QED
    BY <2>1, <2>2, <2>3 DEF TurnInv, Full
<1>6. CASE HangUp \/ TogglePolicy \/ UNCHANGED vars
  <2>1. UNCHANGED <<entry, queue, pc, call, thrown, got, taken>>
    BY <1>6 DEF HangUp, TogglePolicy, vars, history
  <2> QED
    BY <2>1 DEF TurnInv, Placed, Returned, Full, Top, Busy
<1> QED
  BY <1>1, <1>2, <1>3, <1>4, <1>5, <1>6

-----------------------------------------------------------------------------
(* The end of the stream.                                                  *)

LEMMA CallsKeepEnd ==
  ASSUME Basic, PlaceInv, TurnInv, EndInv, NEW t \in Threads,
         Pop(t) \/ Fail(t) \/ First(t) \/ FirstNothing(t) \/ Second(t) \/ SecondNothing(t)
  PROVE  EndInv'
<1> USE DEF Basic
<1>1. /\ UNCHANGED <<kernel, entry, policy, seen>>
      /\ \A u \in Threads : u # t => pc'[u] = pc[u] /\ call'[u] = call[u]
      /\ call[t].queue \in Queues /\ Receiving(t)
      /\ Receiving(t)' => pc'[t] = "second" /\ call'[t] = call[t]
  BY CallFrame
<1>2. PICK e \in Queues : e = call[t].queue /\ e = entry /\ entry' = e
  BY CallsKeepTurn
<1>3. \A u \in Threads : u # t => ~Busy(u)
  BY CallsKeepTurn
<1>4. \A u \in Threads : pc'[u] # "first" /\ (Receiving(u)' => u = t)
  BY <1>1, <1>3 DEF Busy, Receiving
<1>5. policy' /\ ~done
  BY <1>1 DEF EndInv
<1>6. CASE ~done'
  BY <1>4, <1>5, <1>6 DEF EndInv
<1>7. CASE done'
  <2>1. Misses(t)
    BY <1>5, <1>7, CallSteps DEF Releases, Delivers, Stages
  <2>2. ~Full(e) /\ Ends(t, queue[e], 0)
    BY <1>2, <1>5, <1>7, <2>1 DEF Misses, EndInv
  <2>3. ~Full(e)' /\ ~Receiving(t)'
    BY <1>2, <2>2 DEF Ends, Full, Receiving
  <2>4. ~Full(entry)'
    BY <1>2, <2>3 DEF Full
  <2> QED
    BY <1>4, <1>5, <2>3, <2>4 DEF EndInv
<1> QED
  BY <1>6, <1>7

LEMMA OthersKeepEnd ==
  ASSUME Basic, TurnInv, EndInv, seen' \cap {"overlap", "policy"} = {},
         \/ \E t \in Threads : LookUp(t) \/ Ask(t) \/ Cleanup(t) \/ Clear(t) \/ Close(t)
         \/ HangUp \/ TogglePolicy \/ UNCHANGED vars
  PROVE  EndInv'
<1> USE DEF Basic
<1>1. ASSUME NEW t \in Threads, LookUp(t) PROVE EndInv'
  <2>1. PICK q, len : Begins(t, q, len)
    BY <1>1, LookUpBegins
  <2>2. ~Overlaps /\ policy' = policy /\ ~done'
    BY <2>1 DEF Begins
  <2>3. \A u \in Threads : pc'[u] # "first"
    BY <2>1, <2>2, TypeParts DEF Begins, Overlaps
  <2> QED
    BY <2>2, <2>3 DEF EndInv
<1>2. ASSUME NEW t \in Threads, Ask(t) PROVE EndInv'
  <2>1. /\ pc[t] = "lock" /\ pc' = [pc EXCEPT ![t] = "first"]
        /\ UNCHANGED <<entry, queue, policy, done>> /\ (policy => ~Full(call[t].queue))
        /\ \E stage : call' = [call EXCEPT ![t].stage = stage]
    BY <1>2 DEF Ask, Free, Full
  <2>2. ~done
    BY <2>1 DEF EndInv, Receiving
  <2>3. \A u \in Threads : /\ pc'[u] = "first" => pc[u] = "first" \/ u = t
                           /\ call'[u].queue = call[u].queue
    BY <2>1, TypeParts DEF CallType
  <2>4. \A u \in Threads : pc'[u] = "first" => ~Full(call[u].queue)'
    BY <2>1, <2>3 DEF EndInv, Full
  <2> QED
    BY <2>1, <2>2, <2>4 DEF EndInv
<1>3. ASSUME NEW t \in Threads, Cleanup(t) PROVE EndInv'
  <2>1. /\ pc' = [pc EXCEPT ![t] = "idle"] /\ entry' \in {entry, NoQueue}
        /\ UNCHANGED <<queue, policy, done>>
        /\ \A u \in Threads : u # t => call'[u] = call[u]
    BY <1>3, TypeParts DEF Cleanup
  <2>2. \A u \in Threads : /\ pc'[u] = "first" => pc[u] = "first" /\ call'[u] = call[u]
                           /\ Receiving(u)' => Receiving(u)
    BY <2>1, TypeParts DEF Receiving
  <2> QED
    BY <2>1, <2>2 DEF EndInv, Full
<1>4. ASSUME NEW t \in Threads, Clear(t) PROVE EndInv'
  <2>1. /\ pc' = [pc EXCEPT ![t] = "closing"] /\ ~Overlaps /\ entry' = NoQueue
        /\ UNCHANGED <<policy, done>>
    BY <1>4 DEF Clear
  <2>2. \A u \in Threads : pc'[u] # "first" /\ ~Receiving(u)'
    BY <2>1, TypeParts DEF Overlaps, Receiving
  <2> QED
    BY <2>1, <2>2 DEF EndInv
<1>5. ASSUME NEW t \in Threads, Close(t) PROVE EndInv'
  <2>1. pc' = [pc EXCEPT ![t] = "idle"] /\ ~done' /\ UNCHANGED <<queue, call, policy>>
    BY <1>5 DEF Close
  <2>2. \A u \in Threads : pc'[u] = "first" => pc[u] = "first"
    BY <2>1, TypeParts
  <2> QED
    BY <2>1, <2>2 DEF EndInv, Full
<1>6. CASE HangUp \/ TogglePolicy \/ UNCHANGED vars
  <2>1. UNCHANGED <<entry, queue, pc, call, policy, done>>
    BY <1>6 DEF HangUp, TogglePolicy, vars
  <2> QED
    BY <2>1 DEF EndInv, Full, Receiving
<1> QED
  BY <1>1, <1>2, <1>3, <1>4, <1>5, <1>6

-----------------------------------------------------------------------------
(* The order of what calls return.                                         *)

LEMMA CallsKeepOrder ==
  ASSUME Basic, PlaceInv, TurnInv, EndInv, OrderInv, NEW t \in Threads,
         Pop(t) \/ Fail(t) \/ First(t) \/ FirstNothing(t) \/ Second(t) \/ SecondNothing(t)
  PROVE  OrderInv'
<1> USE DEF Basic
<1>0. /\ \A c \in Chunks : c.lo \in Int /\ c.hi \in Int
      /\ \A i \in DOMAIN got : got[i].chunk \in Chunks /\ i \in Int
      /\ taken \in Int /\ Len(got) \in Nat /\ DOMAIN got = 1 .. Len(got)
  BY ChunkTypes
<1>1. /\ \A u \in Threads : u # t => pc'[u] = pc[u]
      /\ call[t].queue \in Queues /\ Receiving(t)
  BY CallFrame
<1>2. PICK e \in Queues : e = call[t].queue /\ e = entry /\ e # NoQueue /\ entry' = e
  BY CallsKeepTurn
<1>3. \A u \in Threads : u # t => pc'[u] # "second"
  BY <1>1, CallsKeepTurn DEF Busy
<1>4. ASSUME NEW q, NEW n, Ends(t, q, n)
      PROVE  queue'[e] = q /\ \A u \in Threads : pc'[u] # "second"
  BY <1>2, <1>3, <1>4 DEF Ends
\* What was just received comes after all that was returned.
<1>5. ASSUME NEW c \in Chunks, c.lo = taken + 1
      PROVE  \A i \in DOMAIN got : Before(got[i].chunk, c)
  BY <1>0, <1>5 DEF PlaceInv, Within, Before
<1>6. CASE \E b, n : Releases(t, b, n)
  <2>1. PICK h, n : Releases(t, h, n)
    BY <1>6
  <2>2. PICK c, d \in Chunks : c = Top(e) /\ d.lo = c.lo /\ Grows(d, call[t].since, h)
    BY <1>2, <2>1, ReleaseForm
  <2>3. queue'[e] = <<>> /\ \A u \in Threads : pc'[u] # "second"
    BY <1>4, <2>1 DEF Releases
  <2>4. ~Full(entry)'
    BY <1>2, <2>3 DEF Full
  <2>5. \A i \in DOMAIN got : Before(got[i].chunk, d) \/ i = Len(got)
    BY <1>2, <2>1, <2>2 DEF OrderInv, Releases, Before
  <2>6. \A i, j \in DOMAIN got' : i < j => Before(got'[i].chunk, got'[j].chunk) \/ j = i + 1
    <3>1. SUFFICES ASSUME NEW i \in DOMAIN got', NEW j \in DOMAIN got', i < j
                   PROVE  Before(got'[i].chunk, got'[j].chunk) \/ j = i + 1
      OBVIOUS
    <3>2. i \in 1 .. Len(got) + 1 /\ j \in 1 .. Len(got) + 1
      BY <2>2 DEF Grows
    <3>3. i \in DOMAIN got /\ got'[i] = got[i]
      BY <1>0, <2>2, <3>1, <3>2 DEF Grows
    <3>4. CASE j \in DOMAIN got
      BY <2>2, <3>1, <3>3, <3>4 DEF Grows, OrderInv
    <3>5. CASE j = Len(got) + 1
      BY <2>2, <2>5, <3>3, <3>5 DEF Grows
    <3> QED
      BY <1>0, <3>2, <3>4, <3>5
  <2> QED
    BY <2>3, <2>4, <2>6 DEF OrderInv
<1>7. CASE \E c : Delivers(t, c)
  <2>1. PICK c : Delivers(t, c)
    BY <1>7
  <2>2. Grows(c, call[t].since, FALSE) /\ c \in Chunks /\ c.lo = taken + 1
    BY <2>1, DeliverForm
  <2>3. queue'[e] = queue[e] /\ \A u \in Threads : pc'[u] # "second"
    BY <1>2, <1>4, <2>1 DEF Delivers
  <2>4. \A i, j \in DOMAIN got' : i < j => Before(got'[i].chunk, got'[j].chunk) \/ j = i + 1
    <3>1. SUFFICES ASSUME NEW i \in DOMAIN got', NEW j \in DOMAIN got', i < j
                   PROVE  Before(got'[i].chunk, got'[j].chunk) \/ j = i + 1
      OBVIOUS
    <3>2. i \in 1 .. Len(got) + 1 /\ j \in 1 .. Len(got) + 1
      BY <2>2 DEF Grows
    <3>3. i \in DOMAIN got /\ got'[i] = got[i]
      BY <1>0, <2>2, <3>1, <3>2 DEF Grows
    <3>4. CASE j \in DOMAIN got
      BY <2>2, <3>1, <3>3, <3>4 DEF Grows, OrderInv
    <3>5. CASE j = Len(got) + 1
      BY <1>5, <2>2, <3>3, <3>5 DEF Grows
    <3> QED
      BY <1>0, <3>2, <3>4, <3>5
  <2>5. ASSUME Full(e), NEW i \in DOMAIN got'
        PROVE  Before(got'[i].chunk, Top(e)) \/ i = Len(got')
    <3>1. pc[t] = "second"
      BY <1>2, <2>1, <2>5 DEF Delivers, EndInv
    <3>2. \A j \in DOMAIN got : Before(got[j].chunk, Top(e))
      BY <1>2, <3>1 DEF OrderInv
    <3> QED
      BY <2>2, <2>5, <3>2 DEF Grows
  <2>6. (entry # NoQueue /\ Full(entry) =>
           \A i \in DOMAIN got : Before(got[i].chunk, Top(entry)) \/ i = Len(got))'
    BY <1>2, <2>3, <2>5 DEF Full, Top
  <2> QED
    BY <2>3, <2>4, <2>6 DEF OrderInv
<1>8. CASE \E c : Stages(t, c)
  <2>1. PICK c : Stages(t, c)
    BY <1>8
  <2>2. c \in Chunks /\ c.lo = taken + 1 /\ got' = got
    BY <1>1, <2>1, ReceivedForm DEF Stages
  <2>3. queue'[e] = <<c>>
    <3>1. CASE Ends(t, <<c>>, 0)
      BY <1>4, <3>1
    <3>2. CASE queue' = [queue EXCEPT ![call[t].queue] = <<c>>]
      BY <1>2, <3>2, TypeParts
    <3> QED
      BY <2>1, <3>1, <3>2 DEF Stages
  <2>4. Top(entry)' = c
    BY <1>2, <2>3, Single DEF Top
  <2>5. \A i \in DOMAIN got' : Before(got'[i].chunk, Top(entry)')
    BY <1>5, <2>2, <2>4
  <2>6. \A i, j \in DOMAIN got' : i < j => Before(got'[i].chunk, got'[j].chunk) \/ j = i + 1
    BY <2>2 DEF OrderInv
  <2> QED
    BY <2>5, <2>6 DEF OrderInv
<1>9. CASE Misses(t)
  <2>1. queue'[e] = queue[e] /\ got' = got /\ \A u \in Threads : pc'[u] # "second"
    BY <1>2, <1>4, <1>9 DEF Misses
  <2>2. (Full(entry)' => Full(entry)) /\ Top(entry)' = Top(entry)
    BY <1>2, <2>1 DEF Full, Top
  <2> QED
    BY <1>2, <2>1, <2>2 DEF OrderInv
<1> QED
  BY <1>6, <1>7, <1>8, <1>9, CallSteps

LEMMA OthersKeepOrder ==
  ASSUME Basic, TurnInv, OrderInv, "overlap" \notin seen',
         \/ \E t \in Threads : LookUp(t) \/ Ask(t) \/ Cleanup(t) \/ Clear(t) \/ Close(t)
         \/ HangUp \/ TogglePolicy \/ UNCHANGED vars
  PROVE  OrderInv'
<1> USE DEF Basic
<1>0. got' = got
  BY OthersShed
<1>1. \A i, j \in DOMAIN got' : i < j => Before(got'[i].chunk, got'[j].chunk) \/ j = i + 1
  BY <1>0 DEF OrderInv
\* The map has the same queue, with the same chunk.
<1>2. ASSUME UNCHANGED <<entry, queue>>, \A u \in Threads : pc'[u] = "second" => pc[u] = "second"
      PROVE  OrderInv'
  BY <1>0, <1>1, <1>2 DEF OrderInv, Full, Top
\* The map has nothing, and no call has staged anything.
<1>3. ASSUME entry' = NoQueue \/ ~Full(entry)', \A u \in Threads : pc'[u] # "second"
      PROVE  OrderInv'
  BY <1>1, <1>3 DEF OrderInv
<1>4. ASSUME NEW t \in Threads, LookUp(t) PROVE OrderInv'
  <2>1. PICK q, len : Begins(t, q, len)
    BY <1>4, LookUpBegins
  <2>2. ~Overlaps
    BY <2>1 DEF Begins
  <2>3. \A u \in Threads : pc'[u] # "second"
    BY <2>1, <2>2, TypeParts DEF Begins, Overlaps
  <2>4. CASE q = entry /\ queue' = queue
    BY <1>2, <2>1, <2>3, <2>4 DEF Begins
  <2>5. CASE queue' = [queue EXCEPT ![q] = <<>>]
    <3>1. ~Full(entry)'
      BY <2>1, <2>5, TypeParts DEF Begins, Full
    <3> QED
      BY <1>3, <2>3, <3>1
  <2> QED
    BY <2>1, <2>4, <2>5 DEF Begins
<1>5. ASSUME NEW t \in Threads, Ask(t) PROVE OrderInv'
  <2>1. pc' = [pc EXCEPT ![t] = "first"] /\ UNCHANGED <<entry, queue>>
    BY <1>5 DEF Ask
  <2> QED
    BY <1>2, <2>1, TypeParts
<1>6. ASSUME NEW t \in Threads, Cleanup(t) PROVE OrderInv'
  <2>1. /\ pc[t] = "cleanup" /\ pc' = [pc EXCEPT ![t] = "idle"]
        /\ entry' \in {entry, NoQueue} /\ queue' = queue
    BY <1>6 DEF Cleanup
  <2>2. ~Full(entry) /\ \A u \in Threads : pc'[u] # "second"
    BY <2>1, TypeParts DEF TurnInv, Busy
  <2> QED
    BY <1>3, <2>1, <2>2 DEF Full
<1>7. ASSUME NEW t \in Threads, Clear(t) PROVE OrderInv'
  <2>1. pc' = [pc EXCEPT ![t] = "closing"] /\ ~Overlaps /\ entry' = NoQueue
    BY <1>7 DEF Clear
  <2>2. \A u \in Threads : pc'[u] # "second"
    BY <2>1, TypeParts DEF Overlaps
  <2> QED
    BY <1>3, <2>1, <2>2
<1>8. ASSUME NEW t \in Threads, Close(t) PROVE OrderInv'
  <2>1. pc' = [pc EXCEPT ![t] = "idle"] /\ UNCHANGED <<entry, queue>>
    BY <1>8 DEF Close
  <2> QED
    BY <1>2, <2>1, TypeParts
<1>9. CASE HangUp \/ TogglePolicy \/ UNCHANGED vars
  <2>1. UNCHANGED <<entry, queue, pc>>
    BY <1>9 DEF HangUp, TogglePolicy, vars
  <2> QED
    BY <1>2, <2>1
<1> QED
  BY <1>4, <1>5, <1>6, <1>7, <1>8, <1>9

-----------------------------------------------------------------------------
(* The bytes that are counted.                                             *)

\* The chunks that make up Direct.
DirectIndices == {j \in DOMAIN got : got[j].since = epoch /\ ~got[j].held}

LEMMA DirectFinite ==
  ASSUME TypeOK
  PROVE  IsFiniteSet(Direct) /\ Cardinality(Direct) \in Nat
<1> USE RecvAssumption
<1>1. Direct \subseteq 1 .. Bytes
  <2>1. ASSUME NEW b \in Direct PROVE b \in 1 .. Bytes
    <3>1. PICK i \in DOMAIN got : b \in Returned(i)
      BY <2>1 DEF Direct
    <3>2. got[i].chunk \in Chunks
      BY ChunkTypes
    <3>3. got[i].chunk.lo \in 1 .. Bytes /\ got[i].chunk.hi \in 1 .. Bytes
      BY <3>2 DEF Chunks
    <3> QED
      BY <3>1, <3>3 DEF Returned, BytesOf
  <2> QED
    BY <2>1
<1>2. IsFiniteSet(1 .. Bytes)
  BY FS_Interval
<1>3. IsFiniteSet(Direct)
  BY <1>1, <1>2, FS_Subset
<1> QED
  BY <1>3, FS_CardinalityType

\* A chunk that comes out of the queue is not counted.
LEMMA HeldNotCounted ==
  ASSUME TypeOK, NEW c, NEW since, Grows(c, since, TRUE), epoch' = epoch
  PROVE  Direct' = Direct
<1>1. Len(got) \in Nat
  BY ChunkTypes
<1>2. DirectIndices' = DirectIndices
  BY <1>1 DEF Grows, DirectIndices
<1>3. \A i \in DirectIndices : BytesOf(got'[i].chunk) = BytesOf(got[i].chunk)
  BY DEF Grows, DirectIndices
<1>4. Direct' = UNION {BytesOf(got'[i].chunk) : i \in DirectIndices'}
  BY DEF Direct, Returned, DirectIndices
<1>5. Direct = UNION {BytesOf(got[i].chunk) : i \in DirectIndices}
  BY DEF Direct, Returned, DirectIndices
<1> QED
  BY <1>2, <1>3, <1>4, <1>5

\* Every other chunk is, all of it.
LEMMA NewCounted ==
  ASSUME TypeOK, NEW c \in Chunks, c.lo <= c.hi, Grows(c, epoch, FALSE), epoch' = epoch,
         \A i \in DOMAIN got : Apart(got[i].chunk, c)
  PROVE  Cardinality(Direct)' = Cardinality(Direct) + Size(c)
<1>0. /\ c.lo \in Int /\ c.hi \in Int /\ Len(got) \in Nat
      /\ \A i \in DOMAIN got : got[i].chunk.lo \in Int /\ got[i].chunk.hi \in Int
  BY ChunkTypes
<1>1. DirectIndices' = DirectIndices \cup {Len(got) + 1}
  BY <1>0 DEF Grows, DirectIndices
<1>2. \A i \in DirectIndices : got'[i].chunk = got[i].chunk
  BY DEF Grows, DirectIndices
<1>3. got'[Len(got) + 1].chunk = c
  BY DEF Grows
<1>4. Direct' = UNION {BytesOf(got'[i].chunk) : i \in DirectIndices'}
  BY DEF Direct, Returned, DirectIndices
<1>5. Direct = UNION {BytesOf(got[i].chunk) : i \in DirectIndices}
  BY DEF Direct, Returned, DirectIndices
<1>6. Direct' = Direct \cup BytesOf(c)
  BY <1>1, <1>2, <1>3, <1>4, <1>5
<1>7. Direct \cap BytesOf(c) = {}
  <2>1. \A i \in DirectIndices : BytesOf(got[i].chunk) \cap BytesOf(c) = {}
    BY <1>0 DEF DirectIndices, Apart, BytesOf
  <2> QED
    BY <1>5, <2>1
<1>8. IsFiniteSet(BytesOf(c)) /\ Cardinality(BytesOf(c)) = Size(c)
  BY <1>0, FS_Interval, SMTT(40) DEF BytesOf, Size
<1>9. IsFiniteSet(Direct) /\ Cardinality(Direct) \in Nat
  BY DirectFinite
<1>10. Cardinality(Direct \cup BytesOf(c)) = Cardinality(Direct) + Size(c) - Cardinality({})
  BY <1>7, <1>8, <1>9, FS_Union
<1>11. Size(c) \in Int
  BY <1>0 DEF Size
<1> QED
  BY <1>6, <1>9, <1>10, <1>11, FS_EmptySet

LEMMA CallsKeepCount ==
  ASSUME Basic, PlaceInv, CountInv, NEW t \in Threads,
         Pop(t) \/ Fail(t) \/ First(t) \/ FirstNothing(t) \/ Second(t) \/ SecondNothing(t)
  PROVE  CountInv'
<1> USE DEF Basic
<1>0. /\ \A c \in Chunks : c.lo \in Int /\ c.hi \in Int
      /\ \A q \in Queues : Full(q) => Top(q) \in Chunks
      /\ \A i \in DOMAIN got : got[i].chunk \in Chunks /\ i \in Int
      /\ taken \in Int /\ Len(got) \in Nat /\ counted \in Nat
  BY ChunkTypes DEF TypeOK
<1>1. /\ UNCHANGED <<kernel, entry, policy, seen>>
      /\ \A u \in Threads : u # t => pc'[u] = pc[u] /\ call'[u] = call[u]
      /\ \A u \in Threads : pc'[u] = "closing" <=> pc[u] = "closing"
      /\ call[t].queue \in Queues /\ Receiving(t)
      /\ Receiving(t)' => pc'[t] = "second" /\ call'[t] = call[t]
  BY CallFrame
<1>2. epoch' = epoch /\ epoch \in Int /\ call[t].since = epoch
  BY <1>1 DEF kernel, CountInv, TypeOK
<1>3. /\ \A u \in Threads : u # t => pc[u] = "idle" /\ pc'[u] = "idle"
      /\ \A u \in Threads : pc[u] \notin {"cleanup", "closing"}
  BY <1>1 DEF CountInv, Receiving
<1>4. counted = Cardinality(Direct) /\ Cardinality(Direct) \in Nat
  BY <1>3, DirectFinite DEF CountInv
<1>5. \A u, v \in Threads : pc'[u] # "idle" /\ pc'[v] # "idle" => u = v
  BY <1>3
<1>6. \A u \in Threads : Receiving(u)' => call'[u].since = epoch'
  BY <1>1, <1>2, <1>3 DEF Receiving
<1>7. \A u \in Threads : pc'[u] # "closing"
  BY <1>1, <1>3
\* The call ends, and records n bytes at once or later.
<1>8. ASSUME NEW q, NEW n, Ends(t, q, n), \A i \in DOMAIN got' : got'[i].since <= epoch',
             Cardinality(Direct)' = Cardinality(Direct) + n
      PROVE  CountInv'
  <2>1. \A u \in Threads :
          pc'[u] = "cleanup" => counted' + call'[u].record = Cardinality(Direct)'
    BY <1>3, <1>4, <1>8 DEF Ends
  <2>2. (\A u \in Threads : pc'[u] \notin {"cleanup", "closing"}) =>
          counted' = Cardinality(Direct)'
    BY <1>4, <1>8 DEF Ends
  <2> QED
    BY <1>5, <1>6, <1>7, <1>8, <2>1, <2>2 DEF CountInv
<1>9. CASE \E b, n : Releases(t, b, n)
  <2>1. PICK h, n : Releases(t, h, n)
    BY <1>9
  <2>2. PICK c, d \in Chunks : /\ c = Top(call[t].queue) /\ d = Fitting(c, call[t].len)
                               /\ d.lo = c.lo /\ d.lo <= d.hi /\ d.hi <= c.hi
                               /\ Grows(d, epoch, h)
    BY <1>2, <2>1, ReleaseForm
  <2>3. Ends(t, <<>>, n) /\ h \in BOOLEAN
    BY <2>1 DEF Releases
  <2>4. \A i \in DOMAIN got' : got'[i].since <= epoch'
    BY <1>2, <2>2 DEF Grows, CountInv
  <2>5. Cardinality(Direct)' = Cardinality(Direct) + n
    <3>1. CASE h = TRUE
      <4>1. n = 0 /\ Direct' = Direct
        BY <1>2, <2>1, <2>2, <3>1, HeldNotCounted DEF Releases
      <4> QED
        BY <1>4, <4>1
    <3>2. CASE h = FALSE
      <4>1. n = Size(d)
        BY <2>1, <2>2, <3>2 DEF Releases
      <4>2. \A i \in DOMAIN got : Apart(got[i].chunk, c)
        BY <1>1, <2>1, <2>2 DEF PlaceInv, Releases
      <4>3. \A i \in DOMAIN got : Apart(got[i].chunk, d)
        BY <1>0, <2>2, <4>2 DEF Apart
      <4> QED
        BY <1>2, <2>2, <3>2, <4>1, <4>3, NewCounted
    <3> QED
      BY <2>3, <3>1, <3>2
  <2> QED
    BY <1>8, <2>3, <2>4, <2>5
<1>10. CASE \E c : Delivers(t, c)
  <2>1. PICK c : Delivers(t, c)
    BY <1>10
  <2>2. Grows(c, epoch, FALSE) /\ c \in Chunks /\ c.lo = taken + 1 /\ c.lo <= c.hi
    BY <1>0, <1>2, <2>1, DeliverForm
  <2>3. Ends(t, queue[call[t].queue], Size(c))
    BY <2>1 DEF Delivers
  <2>4. \A i \in DOMAIN got' : got'[i].since <= epoch'
    BY <1>2, <2>2 DEF Grows, CountInv
  <2>5. \A i \in DOMAIN got : Apart(got[i].chunk, c)
    BY <1>0, <2>2 DEF PlaceInv, Within, Apart
  <2>6. Cardinality(Direct)' = Cardinality(Direct) + Size(c)
    BY <1>2, <2>2, <2>5, NewCounted
  <2> QED
    BY <1>8, <2>3, <2>4, <2>6
<1>11. ASSUME got' = got
       PROVE  /\ \A i \in DOMAIN got' : got'[i].since <= epoch'
              /\ Direct' = Direct
  <2>1. \A i \in DOMAIN got' : got'[i].since <= epoch'
    BY <1>2, <1>11 DEF CountInv
  <2>2. Direct' = Direct
    BY <1>2, <1>11 DEF Direct, Returned
  <2> QED
    BY <2>1, <2>2
<1>12. CASE \E c : Stages(t, c)
  <2>1. PICK c : Stages(t, c)
    BY <1>12
  <2>2. got' = got
    BY <2>1 DEF Stages
  <2>3. CASE Ends(t, <<c>>, 0)
    BY <1>4, <1>8, <1>11, <2>2, <2>3
  <2>4. CASE pc' = [pc EXCEPT ![t] = "second"] /\ UNCHANGED <<call, counted>>
    <3>1. \A u \in Threads : pc'[u] # "cleanup"
      BY <1>3, <2>4, TypeParts
    <3>2. counted' = Cardinality(Direct)'
      BY <1>4, <1>11, <2>2, <2>4
    <3> QED
      BY <1>5, <1>6, <1>7, <1>11, <2>2, <3>1, <3>2 DEF CountInv
  <2> QED
    BY <2>1, <2>3, <2>4 DEF Stages
<1>13. CASE Misses(t)
  <2>1. Ends(t, queue[call[t].queue], 0) /\ got' = got
    BY <1>13 DEF Misses
  <2> QED
    BY <1>4, <1>8, <1>11, <2>1
<1> QED
  BY <1>9, <1>10, <1>12, <1>13, CallSteps

LEMMA OthersKeepCount ==
  ASSUME Basic, CountInv, seen' \subseteq {"policy"},
         \/ \E t \in Threads : LookUp(t) \/ Ask(t) \/ Cleanup(t) \/ Clear(t) \/ Close(t)
         \/ HangUp \/ TogglePolicy \/ UNCHANGED vars
  PROVE  CountInv'
<1> USE DEF Basic
<1>0. /\ got' = got /\ epoch \in Int /\ \A i \in DOMAIN got : got[i].since \in Int
      /\ IsFiniteSet(Direct) /\ Cardinality(Direct) \in Nat
  BY OthersShed, ChunkTypes, DirectFinite
<1>1. ASSUME epoch' = epoch
      PROVE  Direct' = Direct /\ \A i \in DOMAIN got' : got'[i].since <= epoch'
  BY <1>0, <1>1 DEF Direct, Returned, CountInv
<1>2. ASSUME NEW t \in Threads, LookUp(t) PROVE CountInv'
  <2>1. PICK q, len : Begins(t, q, len)
    BY <1>2, LookUpBegins
  <2>2. ~Overlaps /\ ~Closing /\ epoch' = epoch /\ counted' = counted
    BY <2>1 DEF Begins, kernel
  <2>3. /\ \A u \in Threads : pc[u] = "idle"
        /\ \A u \in Threads : u # t => pc'[u] = "idle"
        /\ pc'[t] = "lock" /\ call'[t].since = epoch
    BY <2>1, <2>2, TypeParts DEF Begins, Overlaps, Closing
  <2>4. counted = Cardinality(Direct)
    BY <2>3 DEF CountInv
  <2>5. counted' = Cardinality(Direct)'
    BY <1>1, <2>2, <2>4
  <2>6. \A u, v \in Threads : pc'[u] # "idle" /\ pc'[v] # "idle" => u = v
    BY <2>3
  <2>7. \A u \in Threads : Receiving(u)' => call'[u].since = epoch'
    BY <2>2, <2>3 DEF Receiving
  <2>8. \A u \in Threads : pc'[u] \notin {"cleanup", "closing"}
    BY <2>3
  <2> QED
    BY <1>1, <2>2, <2>5, <2>6, <2>7, <2>8 DEF CountInv
<1>3. ASSUME NEW t \in Threads, Ask(t) PROVE CountInv'
  <2>1. /\ pc[t] = "lock" /\ pc' = [pc EXCEPT ![t] = "first"]
        /\ epoch' = epoch /\ counted' = counted
        /\ \E stage : call' = [call EXCEPT ![t].stage = stage]
    BY <1>3 DEF Ask, Free, kernel
  <2>2. /\ \A u \in Threads : u # t => pc[u] = "idle" /\ pc'[u] = "idle"
        /\ pc'[t] = "first" /\ call[t].since = epoch /\ call'[t].since = epoch
    BY <2>1, TypeParts DEF CountInv, Receiving, CallType
  <2>3. counted = Cardinality(Direct)
    BY <2>1, <2>2 DEF CountInv
  <2>4. counted' = Cardinality(Direct)'
    BY <1>1, <2>1, <2>3
  <2>5. \A u, v \in Threads : pc'[u] # "idle" /\ pc'[v] # "idle" => u = v
    BY <2>2
  <2>6. \A u \in Threads : Receiving(u)' => call'[u].since = epoch'
    BY <2>1, <2>2 DEF Receiving
  <2>7. \A u \in Threads : pc'[u] \notin {"cleanup", "closing"}
    BY <2>2
  <2> QED
    BY <1>1, <2>1, <2>4, <2>5, <2>6, <2>7 DEF CountInv
<1>4. ASSUME NEW t \in Threads, Cleanup(t) PROVE CountInv'
  <2>1. /\ pc[t] = "cleanup" /\ pc' = [pc EXCEPT ![t] = "idle"]
        /\ epoch' = epoch /\ counted' = counted + call[t].record
    BY <1>4 DEF Cleanup, kernel
  <2>2. \A u \in Threads : pc'[u] = "idle"
    BY <2>1, TypeParts DEF CountInv
  <2>3. counted' = Cardinality(Direct)'
    BY <1>1, <2>1 DEF CountInv
  <2>4. \A u \in Threads : ~Receiving(u)'
    BY <2>2 DEF Receiving
  <2> QED
    BY <1>1, <2>1, <2>2, <2>3, <2>4 DEF CountInv
<1>5. ASSUME NEW t \in Threads, Clear(t) PROVE CountInv'
  <2>1. /\ pc' = [pc EXCEPT ![t] = "closing"] /\ ~Overlaps /\ ~Closing
        /\ epoch' = epoch /\ counted' = 0
    BY <1>5 DEF Clear, kernel
  <2>2. pc'[t] = "closing" /\ \A u \in Threads : u # t => pc'[u] = "idle"
    BY <2>1, TypeParts DEF Overlaps, Closing
  <2>3. \A u \in Threads : ~Receiving(u)' /\ pc'[u] # "cleanup"
    BY <2>2 DEF Receiving
  <2>4. \A u, v \in Threads : pc'[u] # "idle" /\ pc'[v] # "idle" => u = v
    BY <2>2
  <2> QED
    BY <1>1, <2>1, <2>2, <2>3, <2>4 DEF CountInv
<1>6. ASSUME NEW t \in Threads, Close(t) PROVE CountInv'
  <2>1. /\ pc[t] = "closing" /\ pc' = [pc EXCEPT ![t] = "idle"]
        /\ epoch' = epoch + 1 /\ counted' = counted
    BY <1>6 DEF Close
  <2>2. counted' = 0 /\ \A u \in Threads : pc'[u] = "idle"
    BY <2>1, TypeParts DEF CountInv
  <2>3. \A i \in DOMAIN got' : got'[i].since <= epoch' /\ got'[i].since # epoch'
    BY <1>0, <2>1 DEF CountInv
  <2>4. Direct' = {}
    BY <2>3 DEF Direct
  <2>5. Cardinality(Direct)' = 0
    BY <2>4, FS_EmptySet
  <2>6. \A u \in Threads : ~Receiving(u)'
    BY <2>2 DEF Receiving
  <2> QED
    BY <2>2, <2>3, <2>5, <2>6 DEF CountInv
<1>7. CASE HangUp \/ TogglePolicy \/ UNCHANGED vars
  <2>1. UNCHANGED <<pc, call, epoch, counted>>
    BY <1>7 DEF HangUp, TogglePolicy, vars, kernel
  <2>2. Direct' = Direct /\ \A i \in DOMAIN got' : got'[i].since <= epoch'
    BY <1>1, <2>1
  <2>3. Cardinality(Direct)' = Cardinality(Direct)
    BY <2>2
  <2> QED
    BY <2>1, <2>2, <2>3 DEF CountInv, Receiving
<1> QED
  BY <1>2, <1>3, <1>4, <1>5, <1>6, <1>7

-----------------------------------------------------------------------------
(* The invariant holds.                                                    *)

\* What has been seen is not forgotten.
LEMMA SeenGrows ==
  ASSUME Basic, PlaceInv, [Next]_vars
  PROVE  seen \subseteq seen'
<1>1. ASSUME NEW t \in Threads, LookUp(t) \/ Ask(t) \/ Cleanup(t) \/ Clear(t) \/ Close(t)
      PROVE  seen \subseteq seen'
  BY <1>1 DEF LookUp, Ask, Cleanup, Clear, Close, history
<1>2. ASSUME NEW t \in Threads,
             Pop(t) \/ Fail(t) \/ First(t) \/ FirstNothing(t) \/ Second(t) \/ SecondNothing(t)
      PROVE  seen \subseteq seen'
  BY <1>2, CallFrame
<1>3. CASE HangUp \/ TogglePolicy \/ UNCHANGED vars
  BY <1>3 DEF HangUp, TogglePolicy, vars, history
<1> QED
  BY <1>1, <1>2, <1>3 DEF Next

LEMMA InvInit == Init => Inv
<1> SUFFICES ASSUME Init PROVE Inv
  OBVIOUS
<1> USE RecvAssumption DEF Init
<1>0. /\ NoCall \in CallType /\ NoCall.queue = NoQueue /\ NoCall.since = 0
      /\ NoCall.stage = FALSE /\ NoCall.len = 0
  BY NoCallType
<1>1. \A t \in Threads : pc[t] = "idle" /\ call[t] = NoCall
  OBVIOUS
<1>2. \A q \in Queues : ~Full(q)
  BY DEF Full
<1>3. DOMAIN got = {}
  OBVIOUS
<1>4. TypeOK
  <2>1. call \in [Threads -> CallType] /\ queue \in [Queues -> {<<>>} \cup {<<c>> : c \in Chunks}]
    BY <1>0
  <2>2. got \in Seq([chunk : Chunks, since : 0 .. MaxEpoch, held : BOOLEAN])
    OBVIOUS
  <2>3. pc \in [Threads -> {"idle", "lock", "first", "second", "cleanup", "closing"}]
    OBVIOUS
  <2>4. \A t \in Threads : pc[t] = "second" => queue[call[t].queue] # <<>>
    BY <1>1
  <2>5. /\ epoch \in 0 .. MaxEpoch /\ taken \in 0 .. Bytes /\ counted \in Nat
        /\ entry \in Queues \cup {NoQueue}
    OBVIOUS
  <2>6. /\ nonblocking \in BOOLEAN /\ policy \in BOOLEAN /\ eof \in BOOLEAN /\ done \in BOOLEAN
        /\ thrown \subseteq 1 .. Bytes /\ seen \subseteq {"overlap", "policy", "close"}
    OBVIOUS
  <2> HIDE DEF Init
  <2> QED
    BY <2>1, <2>2, <2>3, <2>4, <2>5, <2>6 DEF TypeOK, CallType
<1>5. CallInv /\ LockInv /\ CloseInv
  BY <1>0, <1>1 DEF CallInv, LockInv, CloseInv, Busy, Receiving, Waiting, Closing
<1>6. PlaceInv
  BY <1>2, <1>3 DEF PlaceInv
<1>7. HomeInv
  BY <1>1, <1>3 DEF HomeInv, Receiving, Closing
<1>8. TurnInv
  BY <1>1 DEF TurnInv, Busy
<1>9. EndInv
  BY <1>1 DEF EndInv
<1>10. OrderInv
  BY <1>1, <1>3 DEF OrderInv
<1>11. CountInv
  <2>1. Direct = {}
    BY <1>3 DEF Direct
  <2>2. Cardinality(Direct) = 0
    BY <2>1, FS_EmptySet
  <2> QED
    BY <1>1, <1>3, <2>2 DEF CountInv, Receiving
<1> QED
  BY <1>4, <1>5, <1>6, <1>7, <1>8, <1>9, <1>10, <1>11 DEF Inv

LEMMA InvNext == Inv /\ [Next]_vars => Inv'
<1> SUFFICES ASSUME Inv, [Next]_vars PROVE Inv'
  OBVIOUS
<1>1. Basic /\ PlaceInv
  BY DEF Inv, Basic
<1>2. seen \subseteq seen'
  BY <1>1, SeenGrows
<1>3. /\ "close" \notin seen' => HomeInv
      /\ "overlap" \notin seen' => TurnInv
      /\ seen' \cap {"overlap", "policy"} = {} => TurnInv /\ EndInv
      /\ seen' = {} => TurnInv /\ EndInv /\ OrderInv
      /\ seen' \subseteq {"policy"} => CountInv
  BY <1>2 DEF Inv
<1>4. ASSUME NEW t \in Threads,
             Pop(t) \/ Fail(t) \/ First(t) \/ FirstNothing(t) \/ Second(t) \/ SecondNothing(t)
      PROVE  Inv'
  <2>1. Basic' /\ PlaceInv'
    BY <1>1, <1>4, CallsKeepBasic, CallsKeepPlace
  <2>2. "close" \notin seen' => HomeInv'
    BY <1>1, <1>3, <1>4, CallsKeepHome
  <2>3. "overlap" \notin seen' => TurnInv'
    BY <1>1, <1>3, <1>4, CallsKeepTurn
  <2>4. seen' \cap {"overlap", "policy"} = {} => EndInv'
    BY <1>1, <1>3, <1>4, CallsKeepEnd
  <2>5. seen' = {} => OrderInv'
    BY <1>1, <1>3, <1>4, CallsKeepOrder
  <2>6. seen' \subseteq {"policy"} => CountInv'
    BY <1>1, <1>3, <1>4, CallsKeepCount
  <2> QED
    BY <2>1, <2>2, <2>3, <2>4, <2>5, <2>6 DEF Inv, Basic
<1>5. CASE \/ \E t \in Threads : LookUp(t) \/ Ask(t) \/ Cleanup(t) \/ Clear(t) \/ Close(t)
           \/ HangUp \/ TogglePolicy \/ UNCHANGED vars
  <2>1. Basic' /\ PlaceInv'
    BY <1>1, <1>5, OthersKeepBasic, OthersShed, ShedKeepsPlace
  <2>2. "close" \notin seen' => HomeInv'
    BY <1>1, <1>3, <1>5, OthersKeepHome
  <2>3. "overlap" \notin seen' => TurnInv'
    BY <1>1, <1>3, <1>5, OthersKeepTurn
  <2>4. seen' \cap {"overlap", "policy"} = {} => EndInv'
    BY <1>1, <1>3, <1>5, OthersKeepEnd
  <2>5. seen' = {} => OrderInv'
    BY <1>1, <1>3, <1>5, OthersKeepOrder
  <2>6. seen' \subseteq {"policy"} => CountInv'
    BY <1>1, <1>3, <1>5, OthersKeepCount
  <2> QED
    BY <2>1, <2>2, <2>3, <2>4, <2>5, <2>6 DEF Inv, Basic
<1> QED
  BY <1>4, <1>5 DEF Next

LEMMA InvAlways == Spec => []Inv
<1> QED
  BY InvInit, InvNext, PTL DEF Spec

-----------------------------------------------------------------------------
(* The properties.                                                         *)

\* What the queue of the map holds counts as held.
LEMMA EntryHeld ==
  ASSUME TypeOK, entry # NoQueue, Full(entry)
  PROVE  BytesOf(Top(entry)) \subseteq Held
<1>1. PICK q \in QueueType : q = queue[entry] /\ entry \in Queues
  BY TypeParts DEF TypeOK
<1>2. q = <<q[1]>>
  BY <1>1, QueueForm DEF Full
<1>3. 1 \in DOMAIN q
  BY <1>2
<1>4. BytesOf(Top(entry)) \subseteq BytesIn(queue[entry])
  BY <1>1, <1>3 DEF Top, BytesIn
<1>5. entry \in {x \in Queues : ~Unreferenced(x)}
  BY <1>1 DEF Unreferenced
<1> QED
  BY <1>4, <1>5 DEF Held

\* A chunk that at most its neighbours in the order of return can have overtaken, or be
\* overtaken by, is at most one place from where it was received.
LEMMA RankNear ==
  ASSUME TypeOK, OrderInv, NEW i \in DOMAIN got
  PROVE  Rank(i) \in {i - 1, i, i + 1}
<1> DEFINE S == {j \in DOMAIN got : got[j].chunk.lo <= got[i].chunk.lo}
           T == (1 .. i - 2) \cup {i}
<1>1. /\ \A j \in DOMAIN got : got[j].chunk.lo \in Int
      /\ Len(got) \in Nat /\ DOMAIN got = 1 .. Len(got) /\ i \in 1 .. Len(got)
  BY ChunkTypes
<1>2. T \subseteq S
  BY <1>1 DEF OrderInv, Before
<1>3. S \subseteq 1 .. i + 1
  <2>1. ASSUME NEW j \in S PROVE j \in 1 .. i + 1
    <3>1. j \in 1 .. Len(got) /\ ~Before(got[i].chunk, got[j].chunk)
      BY <1>1 DEF Before
    <3> QED
      BY <1>1, <3>1 DEF OrderInv
  <2> QED
    BY <2>1
<1>4. IsFiniteSet(1 .. i + 1) /\ Cardinality(1 .. i + 1) = i + 1
  <2>1. 1 \in Int /\ i + 1 \in Int /\ i + 1 >= 1
    BY <1>1
  <2>2. /\ IsFiniteSet(1 .. i + 1)
        /\ Cardinality(1 .. i + 1) = IF 1 > i + 1 THEN 0 ELSE (i + 1) - 1 + 1
    BY <2>1, FS_Interval
  <2> QED
    BY <2>1, <2>2
<1>5. IsFiniteSet(S) /\ Cardinality(S) <= i + 1
  <2>1. S \in SUBSET (1 .. i + 1)
    BY <1>3
  <2>2. IsFiniteSet(S) /\ Cardinality(S) <= Cardinality(1 .. i + 1)
    BY <1>4, <2>1, FS_Subset
  <2> QED
    BY <1>4, <2>2
<1>6. Cardinality(T) >= i - 1 /\ Cardinality(T) \in Int
  <2>0. 1 \in Int /\ i - 2 \in Int
    BY <1>1
  <2>1. /\ IsFiniteSet(1 .. i - 2)
        /\ Cardinality(1 .. i - 2) = IF 1 > i - 2 THEN 0 ELSE (i - 2) - 1 + 1
    BY <2>0, FS_Interval
  <2>2. i \notin 1 .. i - 2
    BY <1>1
  <2>3. Cardinality(T) = Cardinality(1 .. i - 2) + 1
    BY <2>1, <2>2, FS_AddElement
  <2> QED
    BY <1>1, <2>1, <2>3
<1>7. Cardinality(T) <= Cardinality(S)
  BY <1>2, <1>5, FS_Subset
<1>8. Cardinality(S) \in Nat /\ Rank(i) = Cardinality(S)
  BY <1>5, FS_CardinalityType DEF Rank
<1> HIDE DEF S, T
<1> QED
  BY <1>1, <1>5, <1>6, <1>7, <1>8

\* At the end of the stream no queue that anyone refers to holds anything.
LEMMA EndEmpty ==
  ASSUME Basic, TurnInv, EndInv, done
  PROVE  Held = {}
<1> USE RecvAssumption DEF Basic
<1>1. NoQueue \notin Queues
  <2>1. Cardinality(Threads) \in Nat
    BY FS_CardinalityType
  <2> QED
    BY <2>1 DEF NoQueue, Queues
<1>2. ASSUME NEW q \in Queues, ~Unreferenced(q) PROVE BytesIn(queue[q]) = {}
  <2>1. q # NoQueue
    BY <1>1
  <2>2. q = entry
    <3>1. SUFFICES ASSUME NEW t \in Threads, call[t].queue = q PROVE q = entry
      BY <1>2 DEF Unreferenced
    <3>2. Busy(t)
      BY <2>1, <3>1 DEF CallInv
    <3> QED
      BY <3>1, <3>2 DEF TurnInv
  <2>3. queue[q] = <<>>
    BY <2>1, <2>2 DEF EndInv, Full
  <2> QED
    BY <2>3 DEF BytesIn
<1> QED
  BY <1>2 DEF Held

\* Every variable of the downlink queue keeps its type: in particular no queue ever
\* holds two chunks, however calls and close() interleave.
THEOREM TypeCorrect == Spec => []TypeOK
<1>1. Inv => TypeOK
  BY DEF Inv
<1> QED
  BY <1>1, InvAlways, PTL

\* No byte that handle_downlink_recv received is handed to the program twice, for any
\* number of threads, with or without overlap.
THEOREM NeverReturnedTwice == Spec => []ReturnedOnce
<1>1. Inv => ReturnedOnce
  <2>1. SUFFICES ASSUME Inv, NEW i \in DOMAIN got, NEW j \in DOMAIN got, i # j
                 PROVE  Returned(i) \cap Returned(j) = {}
    BY DEF ReturnedOnce
  <2>2. Apart(got[i].chunk, got[j].chunk)
    BY <2>1 DEF Inv, PlaceInv
  <2>3. /\ got[i].chunk.lo \in Int /\ got[i].chunk.hi \in Int
        /\ got[j].chunk.lo \in Int /\ got[j].chunk.hi \in Int
    BY <2>1, ChunkTypes DEF Inv
  <2> QED
    BY <2>2, <2>3 DEF Returned, BytesOf, Apart
<1> QED
  BY <1>1, InvAlways, PTL

\* Calls that do not overlap lose no byte: the queue that with_reorder_pending_recv finds,
\* stages into and takes out of the map is always the same one.
THEOREM NothingLostInTurn == Spec => []KeptInTurn
<1>1. Inv => KeptInTurn
  <2>1. SUFFICES ASSUME Inv, "overlap" \notin seen, NEW b \in 1 .. taken
                 PROVE  b \in ReturnedBytes \cup Held \cup thrown
    BY DEF KeptInTurn
  <2>2. Placed(b) /\ TypeOK
    BY <2>1 DEF Inv, TurnInv
  <2>3. (\E i \in DOMAIN got : b \in Returned(i)) => b \in ReturnedBytes
    BY DEF ReturnedBytes
  <2>4. entry # NoQueue /\ Full(entry) /\ b \in BytesOf(Top(entry)) => b \in Held
    BY <2>2, EntryHeld
  <2> QED
    BY <2>2, <2>3, <2>4 DEF Placed
<1> QED
  BY <1>1, InvAlways, PTL

\* No call gets data of a socket that was closed before it began, unless a call looked
\* its queue up between clear_fd_state and the original close().
THEOREM NeverStale == Spec => []NothingStale
<1>1. Inv => NothingStale
  BY DEF Inv, HomeInv, NothingStale
<1> QED
  BY <1>1, InvAlways, PTL

\* Under a policy that stays, and without overlap, the n-th chunk received is the
\* (n-1)-th, n-th or (n+1)-th returned, however long the stream is.
THEOREM OvertakenOnce == Spec => []AdjacentOnly
<1>1. Inv => AdjacentOnly
  BY RankNear DEF Inv, AdjacentOnly
<1> QED
  BY <1>1, InvAlways, PTL

LEMMA SocketFinite ==
  ASSUME TypeOK
  PROVE  /\ IsFiniteSet(OfSocket) /\ Cardinality(Direct) \in Nat
         /\ Cardinality(Direct) <= Cardinality(OfSocket)
<1>1. OfSocket \subseteq 1 .. Bytes
  <2>1. ASSUME NEW b \in OfSocket PROVE b \in 1 .. Bytes
    <3>1. PICK i \in DOMAIN got : b \in BytesOf(got[i].chunk)
      BY <2>1 DEF OfSocket, Returned
    <3>2. got[i].chunk \in Chunks
      BY ChunkTypes
    <3>3. got[i].chunk.lo \in 1 .. Bytes /\ got[i].chunk.hi \in 1 .. Bytes
      BY <3>2 DEF Chunks
    <3> QED
      BY <3>1, <3>3, RecvAssumption DEF BytesOf
  <2> QED
    BY <2>1
<1>2. IsFiniteSet(1 .. Bytes)
  BY FS_Interval, RecvAssumption
<1>3. IsFiniteSet(OfSocket)
  BY <1>1, <1>2, FS_Subset
<1>4. Direct \subseteq OfSocket
  BY DEF Direct, OfSocket
<1> QED
  BY <1>3, <1>4, FS_Subset, FS_CardinalityType

\* Between calls stream_bytes has every byte that a call of this socket received and
\* returned, and no more than the program was given, whatever the policy does meanwhile.
THEOREM CountBounded == Spec => []CountWithin
<1>1. Inv => CountWithin
  <2> SUFFICES ASSUME Inv, \A t \in Threads : pc[t] = "idle", seen \subseteq {"policy"}
               PROVE  Cardinality(Direct) <= counted /\ counted <= Cardinality(OfSocket)
    BY DEF CountWithin
  <2>1. counted = Cardinality(Direct)
    BY DEF Inv, CountInv
  <2> QED
    BY <2>1, SocketFinite DEF Inv, Basic
<1> QED
  BY <1>1, InvAlways, PTL

\* When a call has reported the end of the stream, no held chunk is left behind.
THEOREM EndComesLast == Spec => []NothingAfterEnd
<1>1. Inv => NothingAfterEnd
  BY EndEmpty DEF Inv, Basic, NothingAfterEnd
<1> QED
  BY <1>1, InvAlways, PTL
=============================================================================
