---------------------------- MODULE RecordReplay ----------------------------
(***************************************************************************)
(* Record and replay of decisions: threads of one or two processes ask     *)
(* record_replay_evaluate_or_replay at their sites, first in an execution  *)
(* that records, which may crash anywhere, then in one that replays what   *)
(* is found in the file.                                                   *)
(*                                                                         *)
(* The session of a process is made on first use and guarded by one lock,  *)
(* which is held while a decision is made and its event written.  An event *)
(* is a gzip member of its own, written in two parts; the decoder stops at *)
(* the first place where a part is missing.                                *)
(*                                                                         *)
(* At its mutation sites a hook has R7 transform the payload first, records *)
(* or takes the next event, and drops the answer: there a replay only moves *)
(* on, and the bytes are those of the live evaluation.                     *)
(***************************************************************************)
EXTENDS Integers, Sequences, FiniteSets

CONSTANTS
  Threads,    \* threads that ask for decisions
  Processes,  \* processes they may belong to; all have the same environment
  Sites,      \* places in the hooks that ask
  MutationSites, \* those that ask for R7's mutations and do not use the answer
  Decisions,  \* what the engine may decide
  MaxAsked,   \* bound: decisions asked for in an execution of each mode
  MayFail     \* opening, creating or writing the file may fail

\* LayerDecision: the kinds that carry a number, and the others.
Numbered == {"DelayNs", "TimeoutMs", "ConnectionErrorKind", "Duplicate"}
Kinds == Numbered \cup {"Continue", "Drop", "Error", "StageReorder", "NxDomain", "Mutate"}

\* The value of an error stands for its text, that of a mutation for its data.
ASSUME RecordReplayAssumption ==
  /\ MutationSites \subseteq Sites
  /\ Decisions \subseteq [kind : Kinds, value : Nat]
  /\ MaxAsked \in [{"Record", "Replay"} -> Nat]
  /\ MayFail \in BOOLEAN

\* The decisions that may come up at a site: R7 mutates or lets the bytes be, and the
\* pipeline of the other layers lets no mutation through.
Possible(s) ==
  {d \in Decisions : IF s \in MutationSites THEN d.kind \in {"Continue", "Mutate"}
                                           ELSE d.kind # "Mutate"}

VARIABLES
  mode,     \* FAULTCORE_RECORD_REPLAY_MODE: "Record" or "Replay"
  home,     \* thread -> its process
  session,  \* process: RECORD_REPLAY, or NoSession before it is used
  pc,       \* thread: idle, lock, head or body
  job,      \* thread: its site, and the event it has to write
  file,     \* parts of members: [event, part]
  made,     \* history: decisions made while recording: [site, decision]
  answers,  \* history: process -> decisions given to it while replaying
  failed    \* history: an event did not get into the file

RecordVars == <<mode, home, session, pc, job, file, made, answers, failed>>

\* fail_fast_decision: an error with a text of its own.
Fail == [kind |-> "Error", value |-> 1]

NoSession == [up |-> FALSE, path |-> FALSE, fail_fast |-> FALSE, events |-> <<>>]
Session(path, fail_fast, events) ==
  [up |-> TRUE, path |-> path, fail_fast |-> fail_fast, events |-> events]
NoEvent == [site |-> "none", kind |-> "none", value |-> 0]
NoJob == [site |-> "none", event |-> NoEvent]

\* from_decision: only numbers are kept, no text and no data.
\* Mutant: nor is the value.
FromDecisionBare(site, d) == [site |-> site, kind |-> d.kind, value |-> 0]
from_decision(site, d) ==
  [site |-> site, kind |-> d.kind, value |-> IF d.kind \in Numbered THEN d.value ELSE 0]

\* to_decision: the answer for a recorded mutation, which no hook uses, is no fault; an
\* error gets one text for all.
to_decision(e) ==
  IF e.kind = "Mutate" THEN [kind |-> "Continue", value |-> 0]
                       ELSE [kind |-> e.kind, value |-> e.value]

Events == {from_decision(s, d) : s \in Sites, d \in Decisions}

\* The values every variable takes; in particular events are only written by a
\* session that could create the file, and only read by one that replays.
RecordTypeOK ==
  /\ mode \in {"Record", "Replay"}
  /\ home \in [Threads -> Processes]
  /\ \A p \in Processes : /\ session[p].up \in BOOLEAN
                          /\ session[p].path \in BOOLEAN
                          /\ session[p].fail_fast \in BOOLEAN
                          /\ session[p].events \in Seq(Events)
                          /\ session[p].events # <<>> => mode = "Replay"
  /\ pc \in [Threads -> {"idle", "lock", "head", "body"}]
  /\ \A t \in Threads : pc[t] \in {"head", "body"} => session[home[t]].path
  /\ \A i \in DOMAIN file : file[i].event \in Events /\ file[i].part \in {"head", "body"}
  /\ failed \in BOOLEAN

RecordInit ==
  /\ mode = "Record"
  /\ home \in [Threads -> Processes]
  /\ session = [p \in Processes |-> NoSession]
  /\ pc = [t \in Threads |-> "idle"]
  /\ job = [t \in Threads |-> NoJob]
  /\ file = <<>>
  /\ made = <<>>
  /\ answers = [p \in Processes |-> <<>>]
  /\ failed = FALSE

-----------------------------------------------------------------------------
\* load_replay_events: the members up to the first that is not whole.
Whole(f, n) ==
  \A i \in 1 .. n : /\ f[2 * i - 1].part = "head"
                    /\ f[2 * i].part = "body"
                    /\ f[2 * i - 1].event = f[2 * i].event

load_replay_events(f) ==
  LET n == Cardinality({k \in 1 .. Len(f) \div 2 : Whole(f, k)})
  IN  [i \in 1 .. n |-> f[2 * i].event]

\* RecordReplaySession::new, on the first use in a process: recording starts a new
\* file, whoever has written to it before; without a file nothing is written.
Open(p) ==
  IF session[p].up THEN UNCHANGED <<session, file>>
  ELSE IF mode = "Replay"
  THEN /\ session' = [session EXCEPT ![p] = Session(FALSE, FALSE, load_replay_events(file))]
       /\ UNCHANGED file
  ELSE \E ok \in {TRUE, ~MayFail} :
         /\ session' = [session EXCEPT ![p] = Session(ok, FALSE, <<>>)]
         /\ file' = IF ok THEN <<>> ELSE file

\* A hook asks for a decision.
Ask(t) ==
  /\ pc[t] = "idle"
  /\ Len(IF mode = "Record" THEN made ELSE answers[home[t]])
       + Cardinality({u \in Threads : pc[u] = "lock"}) < MaxAsked[mode]
  /\ \E s \in Sites : job' = [job EXCEPT ![t] = [NoJob EXCEPT !.site = s]]
  /\ pc' = [pc EXCEPT ![t] = "lock"]
  /\ Open(home[t])
  /\ UNCHANGED <<mode, home, made, answers, failed>>

\* Mutant of LockFree: events are written after the lock is released.
LockFreeWhileWriting(t) == TRUE

\* No other thread of the process is at work under the lock.
LockFree(t) ==
  \A u \in Threads : home[u] = home[t] => pc[u] \notin {"head", "body"}

Return(t) ==
  /\ pc' = [pc EXCEPT ![t] = "idle"]
  /\ job' = [job EXCEPT ![t] = NoJob]

\* evaluate_or_replay while recording: the engine decides, and the event is written
\* if there is a file.
Record(t) ==
  /\ pc[t] = "lock" /\ mode = "Record" /\ LockFree(t)
  /\ \E d \in Possible(job[t].site) :
       /\ made' = Append(made, [site |-> job[t].site, decision |-> d])
       /\ IF session[home[t]].path
          THEN /\ pc' = [pc EXCEPT ![t] = "head"]
               /\ job' = [job EXCEPT ![t].event = from_decision(job[t].site, d)]
               /\ UNCHANGED failed
          ELSE /\ Return(t)
               /\ failed' = TRUE
  /\ UNCHANGED <<mode, home, session, file, answers>>

\* persist_event: a part gets into the file, or is skipped without notice.
Write(t) ==
  /\ pc[t] \in {"head", "body"}
  /\ file' = Append(file, [event |-> job[t].event, part |-> pc[t]])
  /\ IF pc[t] = "head" THEN pc' = [pc EXCEPT ![t] = "body"] /\ UNCHANGED job
                       ELSE Return(t)
  /\ UNCHANGED <<mode, home, session, made, answers, failed>>

WriteFails(t) ==
  /\ pc[t] \in {"head", "body"}
  /\ MayFail
  /\ failed' = TRUE
  /\ Return(t)
  /\ UNCHANGED <<mode, home, session, file, made, answers>>

\* Mutant of Diverged: a later call may find its event again.
DivergedOnce(s) == FALSE

\* What fail_fast is set to when the next event is not the one asked for.
Diverged(s) == TRUE

\* evaluate_or_replay while replaying: the next event, if it is of this site.
Replay(t) ==
  /\ pc[t] = "lock" /\ mode = "Replay" /\ LockFree(t)
  /\ LET s == session[home[t]]
         found == ~s.fail_fast /\ s.events # <<>> /\ Head(s.events).site = job[t].site
     IN  /\ session' = [session EXCEPT ![home[t]] =
                          Session(s.path, ~found /\ (s.fail_fast \/ Diverged(s)),
                                  IF s.fail_fast \/ s.events = <<>> THEN s.events
                                                                    ELSE Tail(s.events))]
         /\ answers' = [answers EXCEPT ![home[t]] = Append(@,
                          [site |-> job[t].site,
                           decision |-> IF found THEN to_decision(Head(s.events)) ELSE Fail])]
  /\ Return(t)
  /\ UNCHANGED <<mode, home, file, made, failed>>

\* The recording ends or crashes, wherever its threads are, and the program is run
\* again to replay it.
Restart ==
  /\ mode = "Record"
  /\ mode' = "Replay"
  /\ session' = [p \in Processes |-> NoSession]
  /\ pc' = [t \in Threads |-> "idle"]
  /\ job' = [t \in Threads |-> NoJob]
  /\ UNCHANGED <<home, file, made, answers, failed>>

RecordNext ==
  \/ \E t \in Threads : Ask(t) \/ Record(t) \/ Write(t) \/ WriteFails(t) \/ Replay(t)
  \/ Restart

RecordSpec == RecordInit /\ [][RecordNext]_RecordVars

-----------------------------------------------------------------------------
(* Properties.                                                             *)

OneProcess == \A t, u \in Threads : home[t] = home[u]
MadeEvents == [i \in DOMAIN made |-> from_decision(made[i].site, made[i].decision)]
Loadable == load_replay_events(file)

\* The recording of a process is in the order of its decisions and complete but
\* for the one being written, also after a crash and whichever threads decided
\* (persist_event under the lock of the session).
RecordedPrefix ==
  OneProcess /\ ~failed =>
    /\ \A i \in DOMAIN Loadable : i \in DOMAIN MadeEvents /\ Loadable[i] = MadeEvents[i]
    /\ Len(made) - Len(Loadable) <= 1

\* Replay answers from the recording as long as the sites agree with it; from the
\* first disagreement on, or past its end, every answer of the process is the
\* fail-fast error ("Replay is fail-fast if event sequence diverges").
ReplayFaithful ==
  \A p \in Processes :
    LET a == answers[p]
        agrees(i) == i <= Len(Loadable) /\ \A j \in 1 .. i : a[j].site = Loadable[j].site
    IN  \A i \in DOMAIN a :
          a[i].decision = IF agrees(i) THEN to_decision(Loadable[i]) ELSE Fail

\* What the hooks make of a decision: its kind and its number.  The text of an error
\* tells them nothing (map_stream_decision, map_connect_decision).
Effect(d) ==
  [kind |-> d.kind, value |-> IF d.kind \in Numbered THEN d.value ELSE 0]

\* From end to end: a process that asks at the same sites as in the recording does at
\* every site that decides about a call what was decided then, with the same number,
\* except that a crash may have cost the last decision ("deterministic decision
\* capture/replay").  Mutations are not repeated: the mutation sites decide live.
SameDecisions ==
  OneProcess /\ ~failed =>
    \A p \in Processes :
      LET a == answers[p]
      IN  \A i \in DOMAIN a :
            (/\ i < Len(made) /\ made[i].site \notin MutationSites
             /\ \A j \in 1 .. i : a[j].site = made[j].site) =>
              Effect(a[i].decision) = Effect(made[i].decision)
=============================================================================
