----------------------------- MODULE ReorderRecv -----------------------------
(***************************************************************************)
(* The downlink reorder queue of one file descriptor: the read(), recv()   *)
(* and recvfrom() hooks of several threads around handle_downlink_recv,    *)
(* close() of the descriptor, and the peer that sends bytes and hangs up.  *)
(*                                                                         *)
(* As on the uplink (ReorderSend), a queue is looked up under the lock of  *)
(* the map and locked on its own, here for as long as the call waits for   *)
(* data; the call that leaves it empty takes it out of the map.  A call    *)
(* that is to stage what it receives waits for a second chunk and returns  *)
(* that one, or, on a non-blocking descriptor, says EAGAIN.                *)
(*                                                                         *)
(* Bytes are numbered as they arrive; a chunk is what one original call    *)
(* returned, with the socket it came from.  What the engine decides is     *)
(* left open, mutated data is the chunk's own affair.                      *)
(***************************************************************************)
EXTENDS Integers, Sequences, FiniteSets

CONSTANTS
  Threads,     \* threads that use the descriptor
  Bytes,       \* bound: number of bytes that arrive
  Lengths,     \* buffer lengths
  MaxEpoch,    \* bound: sockets that get this descriptor, one after the other
  TimesOut,    \* a blocking original call may give up (SO_RCVTIMEO, a signal)
  PolicyEnds   \* the policy of the descriptor may be cleared and set again

ASSUME RecvAssumption ==
  /\ IsFiniteSet(Threads)
  /\ Bytes \in Nat
  /\ Lengths \subseteq Nat \ {0}
  /\ MaxEpoch \in Nat
  /\ TimesOut \in BOOLEAN
  /\ PolicyEnds \in BOOLEAN

\* Identities of the queues alive at one time: one in the map, one per call.
Queues == 1 .. Cardinality(Threads) + 1
NoQueue == 0

VARIABLES
  nonblocking, \* the descriptor has O_NONBLOCK
  entry,     \* reorder_pending_recv_by_fd[fd]: a queue, or NoQueue
  queue,     \* queue -> its chunks, oldest first
  pc,        \* thread: idle, lock, first, second, cleanup, closing
  call,      \* thread: its queue, buffer length, the socket the descriptor had
             \* when it began, whether to stage, and the bytes to be recorded
  policy,    \* a configuration resolves for the descriptor
  epoch,     \* which socket has the descriptor
  taken,     \* bytes the kernel has handed out, on all sockets
  eof,       \* the peer has hung up, and nothing more is there to be read
  done,      \* a call has returned 0: the program reads no more
  counted,   \* stream_bytes of R5
  got,       \* history: chunks that calls returned, in order
  thrown,    \* history: bytes that were cut off, or cleared with their queue
  seen       \* history: have calls overlapped, a policy changed, a close raced?

vars == <<nonblocking, entry, queue, pc, call, policy, epoch, taken, eof,
          done, counted, got, thrown, seen>>

kernel == <<nonblocking, epoch, eof>>
history == <<got, thrown, seen>>

NoCall == [queue |-> NoQueue, len |-> 0, since |-> 0, stage |-> FALSE, record |-> 0]

Chunks == [lo : 1 .. Bytes, hi : 1 .. Bytes, home : 0 .. MaxEpoch]
BytesOf(c) == c.lo .. c.hi
BytesIn(s) == UNION {BytesOf(s[i]) : i \in DOMAIN s}
Size(c) == c.hi - c.lo + 1

\* The values every variable takes; in particular no queue ever holds a second
\* chunk, and a call that waits for one to return instead has staged the first.
TypeOK ==
  /\ nonblocking \in BOOLEAN
  /\ entry \in Queues \cup {NoQueue}
  /\ queue \in [Queues -> {<<>>} \cup {<<c>> : c \in Chunks}]
  /\ \A t \in Threads : pc[t] = "second" => queue[call[t].queue] # <<>>
  /\ pc \in [Threads -> {"idle", "lock", "first", "second", "cleanup", "closing"}]
  /\ call \in [Threads -> [queue : Queues \cup {NoQueue}, len : Lengths \cup {0},
                           since : 0 .. MaxEpoch, stage : BOOLEAN, record : 0 .. Bytes]]
  /\ policy \in BOOLEAN
  /\ epoch \in 0 .. MaxEpoch
  /\ taken \in 0 .. Bytes
  /\ eof \in BOOLEAN
  /\ done \in BOOLEAN
  /\ counted \in Nat
  /\ got \in Seq([chunk : Chunks, since : 0 .. MaxEpoch, held : BOOLEAN])
  /\ thrown \subseteq 1 .. Bytes
  /\ seen \subseteq {"overlap", "policy", "close"}

Init ==
  /\ nonblocking \in BOOLEAN
  /\ entry = NoQueue
  /\ queue = [q \in Queues |-> <<>>]
  /\ pc = [t \in Threads |-> "idle"]
  /\ call = [t \in Threads |-> NoCall]
  /\ policy = TRUE
  /\ epoch = 0
  /\ taken = 0
  /\ eof = FALSE
  /\ done = FALSE
  /\ counted = 0
  /\ got = <<>>
  /\ thrown = {}
  /\ seen = {}

-----------------------------------------------------------------------------
Unreferenced(q) == q # entry /\ \A t \in Threads : call[t].queue # q

Overlaps == \E u \in Threads : pc[u] \notin {"idle", "closing"}
Closing == \E u \in Threads : pc[u] = "closing"

\* with_reorder_pending_recv: under the map's lock, the descriptor's queue, made
\* if there is none.
LookUp(t) ==
  /\ pc[t] = "idle"
  /\ ~done
  /\ \E len \in Lengths :
       LET q == IF entry # NoQueue THEN entry ELSE CHOOSE x \in Queues : Unreferenced(x)
       IN  /\ call' = [call EXCEPT ![t] = [NoCall EXCEPT !.queue = q, !.len = len,
                                                         !.since = epoch]]
           /\ entry' = q
           /\ queue' = IF entry # NoQueue THEN queue ELSE [queue EXCEPT ![q] = <<>>]
  /\ pc' = [pc EXCEPT ![t] = "lock"]
  /\ seen' = seen \cup (IF Overlaps THEN {"overlap"} ELSE {})
                  \cup (IF Closing THEN {"close"} ELSE {})
  /\ UNCHANGED <<kernel, policy, taken, done, counted, got, thrown>>

\* The queue is free: calls hold its lock until they have their data.
Free(t) ==
  /\ pc[t] = "lock"
  /\ \A u \in Threads : pc[u] \in {"first", "second"} => call[u].queue # call[t].queue

\* Only this call still refers to its queue, which then goes when the call ends.
Orphan(t) ==
  call[t].queue # entry /\ \A u \in Threads \ {t} : call[u].queue # call[t].queue

\* The call unlocks the queue and leaves q in it.  If that is empty the call still
\* has to clean up; otherwise it records its n bytes and returns.
Unlock(t, q, n) ==
  /\ queue' = [queue EXCEPT ![call[t].queue] = IF Orphan(t) THEN <<>> ELSE q]
  /\ IF q = <<>>
     THEN /\ pc' = [pc EXCEPT ![t] = "cleanup"]
          /\ call' = [call EXCEPT ![t] =
                        [NoCall EXCEPT !.queue = call[t].queue, !.record = n]]
          /\ UNCHANGED counted
     ELSE /\ pc' = [pc EXCEPT ![t] = "idle"]
          /\ call' = [call EXCEPT ![t] = NoCall]
          /\ counted' = counted + n

\* write_pending_recv_result and write_pending_recvfrom_result: as much of the chunk
\* as fits.
Fitting(c, len) == IF Size(c) <= len THEN c ELSE [c EXCEPT !.hi = c.lo + len - 1]

\* A call returns a chunk, or what fits of it; held: left by an earlier call.
Return(t, c, held) ==
  /\ got' = Append(got, [chunk |-> Fitting(c, call[t].len), since |-> call[t].since,
                         held |-> held])
  /\ thrown' = thrown \cup (BytesOf(c) \ BytesOf(Fitting(c, call[t].len)))

\* What the original call may return: the bytes there are, as far as they fit.
Received(t) ==
  {[lo |-> taken + 1, hi |-> n, home |-> epoch] :
     n \in {k \in taken + 1 .. taken + call[t].len : k <= Bytes /\ ~eof}}

\* Mutants of Pop: the chunk stays in the queue, or is overtaken again.
PopPeeking(t) ==
  /\ Free(t) /\ policy /\ queue[call[t].queue] # <<>>
  /\ LET q == queue[call[t].queue]
     IN  /\ Return(t, Head(q), TRUE)
         /\ Unlock(t, q, 0)
  /\ UNCHANGED <<kernel, entry, policy, taken, done, seen>>
PopOvertaken(t) ==
  /\ Free(t) /\ policy /\ queue[call[t].queue] # <<>>
  /\ LET q == queue[call[t].queue]
     IN  \/ /\ Return(t, Head(q), TRUE)
            /\ Unlock(t, Tail(q), 0)
            /\ UNCHANGED taken
         \/ \E c \in Received(t) :
              /\ taken' = c.hi
              /\ Return(t, c, FALSE)
              /\ Unlock(t, q, Size(c))
  /\ UNCHANGED <<kernel, entry, policy, done, seen>>

\* With a policy a held chunk goes first, before the engine is asked.  It is not
\* recorded, now or ever: the call that received it returned other bytes, or none.
Pop(t) ==
  /\ Free(t) /\ policy /\ queue[call[t].queue] # <<>>
  /\ LET q == queue[call[t].queue]
     IN  /\ Return(t, Head(q), TRUE)
         /\ Unlock(t, Tail(q), 0)
  /\ UNCHANGED <<kernel, entry, policy, taken, done, seen>>

\* The engine's decision ends the call (a drop, a timeout, an error, EAGAIN for
\* a delay on a non-blocking descriptor).
Fail(t) ==
  /\ Free(t) /\ policy /\ queue[call[t].queue] = <<>>
  /\ Unlock(t, <<>>, 0)
  /\ UNCHANGED <<kernel, entry, policy, taken, done, history>>

\* The original function is to be called, with a policy perhaps to stage what it
\* returns.
Ask(t) ==
  /\ Free(t) /\ (policy => queue[call[t].queue] = <<>>)
  /\ \E stage \in {FALSE} \cup {policy} : call' = [call EXCEPT ![t].stage = stage]
  /\ pc' = [pc EXCEPT ![t] = "first"]
  /\ UNCHANGED <<kernel, entry, queue, policy, taken, done, counted, history>>

\* It returns without data: the peer has hung up, nothing is there for a
\* non-blocking descriptor, the wait is over, or the call is still on a socket
\* that was closed.
Nothing(t) == eof \/ nonblocking \/ TimesOut \/ call[t].since # epoch

\* Mutants of First: when the call says EAGAIN the chunk is not kept, or is recorded.
FirstForgetting(t) ==
  /\ pc[t] = "first"
  /\ \E c \in Received(t) :
       LET q == queue[call[t].queue]
       IN  /\ taken' = c.hi
           /\ IF ~call[t].stage
              THEN Return(t, c, FALSE) /\ Unlock(t, q, Size(c))
              ELSE IF nonblocking
              THEN Unlock(t, q, 0) /\ UNCHANGED <<got, thrown>>
              ELSE /\ queue' = [queue EXCEPT ![call[t].queue] = Append(q, c)]
                   /\ pc' = [pc EXCEPT ![t] = "second"]
                   /\ UNCHANGED <<call, counted, got, thrown>>
  /\ UNCHANGED <<kernel, entry, policy, done, seen>>

FirstRecording(t) ==
  /\ pc[t] = "first"
  /\ \E c \in Received(t) :
       LET q == queue[call[t].queue]
       IN  /\ taken' = c.hi
           /\ IF ~call[t].stage
              THEN Return(t, c, FALSE) /\ Unlock(t, q, Size(c))
              ELSE IF nonblocking
              THEN Unlock(t, Append(q, c), Size(c)) /\ UNCHANGED <<got, thrown>>
              ELSE /\ queue' = [queue EXCEPT ![call[t].queue] = Append(q, c)]
                   /\ pc' = [pc EXCEPT ![t] = "second"]
                   /\ UNCHANGED <<call, counted, got, thrown>>
  /\ UNCHANGED <<kernel, entry, policy, done, seen>>

\* The original call returns data: it is returned, or staged.
First(t) ==
  /\ pc[t] = "first"
  /\ \E c \in Received(t) :
       LET q == queue[call[t].queue]
       IN  /\ taken' = c.hi
           /\ IF ~call[t].stage
              THEN Return(t, c, FALSE) /\ Unlock(t, q, Size(c))
              ELSE IF nonblocking
              THEN Unlock(t, Append(q, c), 0) /\ UNCHANGED <<got, thrown>>
              ELSE /\ queue' = [queue EXCEPT ![call[t].queue] = Append(q, c)]
                   /\ pc' = [pc EXCEPT ![t] = "second"]
                   /\ UNCHANGED <<call, counted, got, thrown>>
  /\ UNCHANGED <<kernel, entry, policy, done, seen>>

FirstNothing(t) ==
  /\ pc[t] = "first" /\ Nothing(t)
  /\ Unlock(t, queue[call[t].queue], 0)
  /\ done' = (done \/ (eof /\ call[t].since = epoch))
  /\ UNCHANGED <<kernel, entry, policy, taken, history>>

\* A second chunk overtakes the one that was staged.
Second(t) ==
  /\ pc[t] = "second"
  /\ \E c \in Received(t) :
       /\ taken' = c.hi
       /\ Return(t, c, FALSE)
       /\ Unlock(t, queue[call[t].queue], Size(c))
  /\ UNCHANGED <<kernel, entry, policy, done, seen>>

\* Mutant of SecondNothing: the call returns what the second call returned.
SecondGivingUp(t) ==
  /\ pc[t] = "second" /\ Nothing(t)
  /\ Unlock(t, queue[call[t].queue], 0)
  /\ done' = (done \/ (eof /\ call[t].since = epoch))
  /\ UNCHANGED <<kernel, entry, policy, taken, history>>

\* There is none: the call returns the chunk it staged.
SecondNothing(t) ==
  /\ pc[t] = "second" /\ Nothing(t)
  /\ LET q == queue[call[t].queue]
     IN  /\ Return(t, Head(q), FALSE)
         /\ Unlock(t, Tail(q), Size(Fitting(Head(q), call[t].len)))
  /\ UNCHANGED <<kernel, entry, policy, taken, done, seen>>

\* The call that left the queue empty takes it out of the map if it is still the
\* one there, full or not; then record_stream_bytes, and it returns.
Cleanup(t) ==
  /\ pc[t] = "cleanup"
  /\ entry' = IF entry = call[t].queue THEN NoQueue ELSE entry
  /\ counted' = counted + call[t].record
  /\ pc' = [pc EXCEPT ![t] = "idle"]
  /\ call' = [call EXCEPT ![t] = NoCall]
  /\ UNCHANGED <<kernel, queue, policy, taken, done, history>>

-----------------------------------------------------------------------------
\* Mutant of Clear: the queue outlives the socket.
ClearKeeping(t) ==
  /\ pc[t] = "idle" /\ ~Closing /\ epoch < MaxEpoch
  /\ counted' = 0
  /\ pc' = [pc EXCEPT ![t] = "closing"]
  /\ seen' = IF Overlaps THEN seen \cup {"overlap"} ELSE seen
  /\ UNCHANGED <<kernel, entry, queue, call, policy, taken, done, got, thrown>>

\* close(): clear_fd_state of engine and runtime come first ...
Clear(t) ==
  /\ pc[t] = "idle" /\ ~Closing /\ epoch < MaxEpoch
  /\ counted' = 0
  /\ entry' = NoQueue
  /\ thrown' = IF entry = NoQueue THEN thrown ELSE thrown \cup BytesIn(queue[entry])
  /\ queue' = [q \in Queues |-> IF \A u \in Threads : call[u].queue # q THEN <<>>
                                 ELSE queue[q]]
  /\ pc' = [pc EXCEPT ![t] = "closing"]
  /\ seen' = IF Overlaps THEN seen \cup {"overlap"} ELSE seen
  /\ UNCHANGED <<kernel, call, policy, taken, done, got>>

\* ... then the socket itself; the next one gets the number.
Close(t) ==
  /\ pc[t] = "closing"
  /\ epoch' = epoch + 1
  /\ eof' = FALSE
  /\ done' = FALSE
  /\ pc' = [pc EXCEPT ![t] = "idle"]
  /\ UNCHANGED <<nonblocking, entry, queue, call, policy, taken, counted, history>>

\* Outside: the peer hangs up; the decorated call on the owner thread ends, or
\* another begins.
HangUp ==
  /\ ~eof
  /\ eof' = TRUE
  /\ UNCHANGED <<nonblocking, entry, queue, pc, call, policy, epoch, taken,
                 done, counted, history>>

TogglePolicy ==
  /\ PolicyEnds
  /\ policy' = ~policy
  /\ seen' = seen \cup {"policy"}
  /\ UNCHANGED <<kernel, entry, queue, pc, call, taken, done, counted, got, thrown>>

Next ==
  \/ \E t \in Threads :
       \/ LookUp(t) \/ Pop(t) \/ Fail(t) \/ Ask(t)
       \/ First(t) \/ FirstNothing(t) \/ Second(t) \/ SecondNothing(t)
       \/ Cleanup(t) \/ Clear(t) \/ Close(t)
  \/ HangUp \/ TogglePolicy

Spec == Init /\ [][Next]_vars

-----------------------------------------------------------------------------
(* Properties.                                                             *)

Returned(i) == BytesOf(got[i].chunk)
ReturnedBytes == UNION {Returned(i) : i \in DOMAIN got}
Held == UNION {BytesIn(queue[q]) : q \in {x \in Queues : ~Unreferenced(x)}}

\* No byte is handed to the program twice, whatever calls overlap and whichever of
\* two received chunks is returned (pop_front, push_back of handle_downlink_recv).
ReturnedOnce ==
  \A i, j \in DOMAIN got : i # j => Returned(i) \cap Returned(j) = {}

\* As long as calls do not overlap, no received byte disappears: it was returned,
\* is held in a queue that the next call finds, or fell to a shorter buffer or to
\* close() (the clean-up of with_reorder_pending_recv, both staging paths).
KeptInTurn ==
  "overlap" \notin seen => 1 .. taken \subseteq ReturnedBytes \cup Held \cup thrown

\* A call never gets bytes of a socket that was closed before it began, also when
\* other calls were still waiting on that socket: they keep the queue that
\* clear_fd_state took out of the map.  Only a call that looks its queue up
\* between clear_fd_state and the original close() can leave data behind.
NothingStale ==
  "close" \notin seen => \A i \in DOMAIN got : got[i].chunk.home >= got[i].since

Rank(i) == Cardinality({j \in DOMAIN got : got[j].chunk.lo <= got[i].chunk.lo})

\* Under a policy that stays, a chunk is overtaken by one other at most: the n-th
\* chunk received is the (n-1)-th, n-th or (n+1)-th returned.
AdjacentOnly ==
  seen = {} => \A i \in DOMAIN got : Rank(i) \in {i - 1, i, i + 1}

\* The bytes that calls on this socket returned, and those of them that the returning call
\* had received itself.
OfSocket == UNION {Returned(i) : i \in {j \in DOMAIN got : got[j].since = epoch}}
Direct ==
  UNION {Returned(i) : i \in {j \in DOMAIN got : got[j].since = epoch /\ ~got[j].held}}

\* What half-open connections count (record_stream_bytes): between calls, every byte that
\* a call received and returned, and never more than the program was given, so no byte
\* twice, none that is still held, none of an earlier socket.  It is not all the program
\* was given: what comes out of the queue is never counted, and the threshold of
\* half_open is crossed that much later.
CountWithin ==
  ((\A t \in Threads : pc[t] = "idle") /\ seen \subseteq {"policy"}) =>
    /\ Cardinality(Direct) <= counted
    /\ counted <= Cardinality(OfSocket)

\* The end of the stream comes last: when a call says that the peer has hung up,
\* everything received was returned, held chunks included, unless calls overlap or
\* the policy goes away meanwhile (the second call of the blocking path returns
\* nothing, a held chunk goes before any call).
NothingAfterEnd ==
  done /\ seen \cap {"overlap", "policy"} = {} => Held = {}
=====
