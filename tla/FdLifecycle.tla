---------------------------- MODULE FdLifecycle ----------------------------
(***************************************************************************)
(* The life of file descriptors under the interceptor's hooks.             *)
(*                                                                         *)
(* The kernel numbers descriptors and reuses numbers; everything the       *)
(* interceptor knows of a connection it keeps under the number: the owner  *)
(* thread in shared memory, the server name seen on it, and the counters   *)
(* and queues of engine and runtime.  The hooks for socket(), close(),     *)
(* dup(), dup2()/dup3(), accept()/accept4() and connect() have to keep the *)
(* two in step although each is a system call and, before or after it, the *)
(* bookkeeping: two steps, between which other threads run.                *)
(*                                                                         *)
(* What the per-descriptor state says is abstracted to whose traffic it    *)
(* says it about: an entry is the set of connections that left their mark  *)
(* in it.  The application is taken to be well behaved: it does not close  *)
(* or alias over a descriptor another thread is inside a call with.        *)
(***************************************************************************)
EXTENDS Integers, FiniteSets

CONSTANTS
  Fds,        \* descriptor numbers
  Tracked,    \* those below MAX_FDS, which have an owner entry
  Threads,
  Ssl,        \* OpenSSL handles
  Kinds,      \* per-descriptor state looked at, of AllKinds
  MaxConn,    \* bound: connections ever made
  NoOwner,    \* INVALID_TID_SLOT
  NoFd

\* The maps of the layers and of the runtime that are keyed by descriptor.
R5Kinds == {"stream_bytes"}
R1Kinds == {"session"}
R2Kinds == {"burst_remaining", "ge_state"}
RuntimeKinds == {"latency_start", "reorder_pending", "reorder_pending_recv"}
AllKinds == R5Kinds \cup R1Kinds \cup R2Kinds \cup RuntimeKinds

ASSUME FdAssumption ==
  /\ Tracked \subseteq Fds
  /\ Kinds \subseteq AllKinds
  /\ MaxConn \in Nat
  /\ NoOwner \notin Threads
  /\ NoFd \notin Fds

Conns == 1 .. MaxConn

VARIABLES
  sock,      \* kernel: descriptor -> connection, 0 when free
  made,      \* kernel: connections made so far
  listening, \* kernel: connections that are listeners
  owner,     \* fd owner table in shared memory
  sni,       \* OBSERVED_SNI_BY_FD: descriptor -> name, 0 when none
  mark,      \* descriptor -> kind -> connections reflected in the entry
  fdBySsl,   \* FD_BY_SSL: handle -> descriptor
  sniBySsl,  \* SNI_BY_SSL: handle -> name, 0 when none
  bio,       \* OpenSSL: handle -> the descriptor, connection and name it has
  named,     \* history: connection -> names the application gave it
  busy       \* thread -> the hook it is inside

vars == <<sock, made, listening, owner, sni, mark, fdBySsl, sniBySsl, bio,
          named, busy>>

Idle == [op |-> "idle", fd |-> NoFd, from |-> NoFd]

\* Names stand for themselves; two are enough to tell them apart.
Names == {1, 2}

\* The values every variable takes; the owner of a descriptor is a thread or
\* no thread, also after close() has cleared it.
TypeOK ==
  /\ sock \in [Fds -> 0 .. MaxConn]
  /\ made \in 0 .. MaxConn
  /\ listening \subseteq Conns
  /\ owner \in [Fds -> Threads \cup {NoOwner}]
  /\ sni \in [Fds -> Names \cup {0}]
  /\ mark \in [Fds -> [Kinds -> SUBSET Conns]]
  /\ fdBySsl \in [Ssl -> Fds \cup {NoFd}]
  /\ sniBySsl \in [Ssl -> Names \cup {0}]
  /\ bio \in [Ssl -> [fd : Fds \cup {NoFd}, conn : 0 .. MaxConn, name : Names \cup {0}]]
  /\ named \in [Conns -> SUBSET Names]
  /\ busy \in [Threads -> [op : {"idle", "bind", "clone", "dup2", "close"},
                           fd : Fds \cup {NoFd}, from : Fds \cup {NoFd}]]

NewHandle == [fd |-> NoFd, conn |-> 0, name |-> 0]

Unmarked == [k \in Kinds |-> {}]

Init ==
  /\ sock = [f \in Fds |-> 0]
  /\ made = 0
  /\ listening = {}
  /\ owner = [f \in Fds |-> NoOwner]
  /\ sni = [f \in Fds |-> 0]
  /\ mark = [f \in Fds |-> Unmarked]
  /\ fdBySsl = [s \in Ssl |-> NoFd]
  /\ sniBySsl = [s \in Ssl |-> 0]
  /\ bio = [s \in Ssl |-> NewHandle]
  /\ named = [c \in Conns |-> {}]
  /\ busy = [t \in Threads |-> Idle]

\* Some thread is inside a hook that is changing f, or reading it as a source.
InHook(f) == \E t \in Threads : f \in {busy[t].fd, busy[t].from}

\* The application can use f.
Usable(f) == sock[f] # 0 /\ ~\E t \in Threads : busy[t].fd = f /\ busy[t].from # f

Enter(t, kind, f, s) ==
  /\ busy[t] = Idle
  /\ busy' = [busy EXCEPT ![t] = [op |-> kind, fd |-> f, from |-> s]]

Leave(t) == busy' = [busy EXCEPT ![t] = Idle]

table == <<owner, sni, mark>>
tls == <<fdBySsl, sniBySsl, bio, named>>

-----------------------------------------------------------------------------
(* socket(), accept(), dup(), dup2(): the system call, then the binding.   *)

NewConnection(f) ==
  /\ sock[f] = 0
  /\ made < MaxConn
  /\ made' = made + 1
  /\ sock' = [sock EXCEPT ![f] = made + 1]

SocketCall(t, f) ==
  /\ NewConnection(f)
  /\ Enter(t, "bind", f, NoFd)
  /\ listening' \in {listening, listening \cup {made + 1}}
  /\ UNCHANGED <<table, tls>>

\* bind_fd_to_current_thread
Assign(f, t) == owner' = [owner EXCEPT ![f] = IF f \in Tracked THEN t ELSE @]

SocketBind(t) ==
  /\ busy[t].op = "bind"
  /\ Assign(busy[t].fd, t)
  /\ Leave(t)
  /\ UNCHANGED <<sock, made, listening, sni, mark, tls>>

AcceptCall(t, s, f) ==
  /\ Usable(s) /\ sock[s] \in listening
  /\ NewConnection(f)
  /\ Enter(t, "clone", f, s)
  /\ UNCHANGED <<listening, table, tls>>

DupCall(t, s, f) ==
  /\ Usable(s)
  /\ sock[f] = 0
  /\ sock' = [sock EXCEPT ![f] = sock[s]]
  /\ Enter(t, "clone", f, s)
  /\ UNCHANGED <<made, listening, table, tls>>

\* The target of dup2() may be open, and may be the source itself.
Dup2Call(t, s, f) ==
  /\ Usable(s)
  /\ sock[f] # 0 /\ ~InHook(f)
  /\ sock' = [sock EXCEPT ![f] = sock[s]]
  /\ Enter(t, "dup2", f, s)
  /\ UNCHANGED <<made, listening, table, tls>>

\* Mutant of ClearedKinds: the byte counters of R5 are forgotten.
ClearedKindsButR5 == R1Kinds \cup RuntimeKinds

\* FaultOsiEngine::clear_fd_state and InterceptorRuntime::clear_fd_state.
ClearedKinds == R5Kinds \cup R1Kinds \cup RuntimeKinds

ClearFdState(f) ==
  mark' = [mark EXCEPT ![f] = [k \in Kinds |-> IF k \in ClearedKinds THEN {} ELSE @[k]]]

\* Mutant of CloneBinding: source and destination are swapped.
CloneBindingSwapped(s, f) ==
  /\ owner' = [owner EXCEPT ![s] = IF {s, f} \subseteq Tracked THEN owner[f] ELSE @]
  /\ sni' = [sni EXCEPT ![s] = sni[f]]

\* clone_fd_binding
CloneBinding(s, f) ==
  /\ owner' = [owner EXCEPT ![f] = IF {s, f} \subseteq Tracked THEN owner[s] ELSE @]
  /\ sni' = [sni EXCEPT ![f] = sni[s]]

CloneBind(t) ==
  /\ busy[t].op \in {"clone", "dup2"}
  /\ CloneBinding(busy[t].from, busy[t].fd)
  /\ IF busy[t].op = "dup2" /\ busy[t].fd # busy[t].from
     THEN ClearFdState(busy[t].fd)
     ELSE UNCHANGED mark
  /\ Leave(t)
  /\ UNCHANGED <<sock, made, listening, tls>>

-----------------------------------------------------------------------------
(* close(): the bookkeeping, then the system call.                         *)

\* forget_ssl_bindings_for_fd
ForgetSsl(f) ==
  /\ fdBySsl' = [s \in Ssl |-> IF fdBySsl[s] = f THEN NoFd ELSE fdBySsl[s]]
  /\ sniBySsl' = [s \in Ssl |-> IF fdBySsl[s] = f THEN 0 ELSE sniBySsl[s]]

CloseClear(t, f) ==
  /\ Usable(f) /\ ~InHook(f)
  /\ Enter(t, "close", f, NoFd)
  /\ ClearFdState(f)
  /\ ForgetSsl(f)
  /\ owner' = [owner EXCEPT ![f] = IF f \in Tracked THEN NoOwner ELSE @]
  /\ sni' = [sni EXCEPT ![f] = 0]
  /\ UNCHANGED <<sock, made, listening, bio, named>>

CloseCall(t) ==
  /\ busy[t].op = "close"
  /\ sock' = [sock EXCEPT ![busy[t].fd] = 0]
  /\ Leave(t)
  /\ UNCHANGED <<made, listening, table, tls>>

-----------------------------------------------------------------------------
(* Calls on a usable descriptor.                                           *)

\* connect() rebinds to the calling thread, also when the call then fails.
\* The pipeline it runs may leave loss state of this connection.
Connect(t, f) ==
  /\ busy[t] = Idle
  /\ Usable(f)
  /\ sock[f] \notin listening
  /\ Assign(f, t)
  /\ \E touched \in SUBSET (Kinds \cap R2Kinds) :
       mark' = [mark EXCEPT ![f] =
                 [k \in Kinds |-> @[k] \cup IF k \in touched THEN {sock[f]} ELSE {}]]
  /\ UNCHANGED <<sock, made, listening, sni, tls, busy>>

\* send(), recv() and their kin: entries are made or updated, and all but the
\* byte and session counters may also be removed again.  The first bytes of a
\* TLS session carry a server name.
Traffic(t, f) ==
  /\ busy[t] = Idle
  /\ Usable(f)
  /\ sock[f] \notin listening
  /\ \E touched, ended \in SUBSET Kinds :
       /\ touched \cap ended = {}
       /\ ended \cap (R5Kinds \cup R1Kinds) = {}
       /\ mark' = [mark EXCEPT ![f] =
            [k \in Kinds |-> IF k \in ended THEN {}
                             ELSE IF k \in touched THEN @[k] \cup {sock[f]}
                             ELSE @[k]]]
  /\ UNCHANGED <<sock, made, listening, owner, sni, tls, busy>>

\* observe_tls_sni_from_send_buffer
ClientHello(t, f) ==
  /\ busy[t] = Idle
  /\ Usable(f)
  /\ sock[f] \notin listening
  /\ \E n \in Names :
       /\ sni' = [sni EXCEPT ![f] = n]
       /\ named' = [named EXCEPT ![sock[f]] = @ \cup {n}]
  /\ UNCHANGED <<sock, made, listening, owner, mark, fdBySsl, sniBySsl, bio, busy>>
-----------------------------------------------------------------------------
(* OpenSSL handles.  The application uses a handle for one connection and  *)
(* frees it.                                                               *)

\* SSL_set_fd(): remember_ssl_fd, and the name given to the handle before.
SslSetFd(t, s, f) ==
  /\ busy[t] = Idle
  /\ bio[s].fd = NoFd
  /\ Usable(f) /\ sock[f] \notin listening
  /\ bio' = [bio EXCEPT ![s].fd = f, ![s].conn = sock[f]]
  /\ fdBySsl' = [fdBySsl EXCEPT ![s] = f]
  /\ sni' = [sni EXCEPT ![f] = IF sniBySsl[s] # 0 THEN sniBySsl[s] ELSE @]
  /\ named' = [named EXCEPT ![sock[f]] = @ \cup ({bio[s].name} \ {0})]
  /\ UNCHANGED <<sock, made, listening, owner, mark, sniBySsl, busy>>

\* SSL_ctrl(SSL_CTRL_SET_TLSEXT_HOSTNAME): with a descriptor, the name is
\* noted for it at once; without one it waits for SSL_set_fd().  No name (0)
\* forgets the handle.
SslSetHostname(t, s, n) ==
  /\ busy[t] = Idle
  /\ bio[s].fd # NoFd => Usable(bio[s].fd) /\ sock[bio[s].fd] = bio[s].conn
  /\ bio' = [bio EXCEPT ![s].name = n]
  /\ sniBySsl' = [sniBySsl EXCEPT ![s] = n]
  /\ fdBySsl' = [fdBySsl EXCEPT ![s] = IF n = 0 THEN NoFd ELSE bio[s].fd]
  /\ IF n # 0 /\ bio[s].fd # NoFd
     THEN /\ sni' = [sni EXCEPT ![bio[s].fd] = n]
          /\ named' = [named EXCEPT ![bio[s].conn] = @ \cup {n}]
     ELSE UNCHANGED <<sni, named>>
  /\ UNCHANGED <<sock, made, listening, owner, mark, busy>>

\* Mutant of SslFree: the handle's name is kept for whatever is allocated at
\* its address next.
SslFreeKeepingName(t, s) ==
  /\ busy[t] = Idle
  /\ bio' = [bio EXCEPT ![s] = NewHandle]
  /\ fdBySsl' = [fdBySsl EXCEPT ![s] = NoFd]
  /\ UNCHANGED <<sock, made, listening, table, sniBySsl, named, busy>>

\* SSL_free(): forget_ssl_state.
SslFree(t, s) ==
  /\ busy[t] = Idle
  /\ bio' = [bio EXCEPT ![s] = NewHandle]
  /\ fdBySsl' = [fdBySsl EXCEPT ![s] = NoFd]
  /\ sniBySsl' = [sniBySsl EXCEPT ![s] = 0]
  /\ UNCHANGED <<sock, made, listening, table, named, busy>>

-----------------------------------------------------------------------------
Next ==
  \/ \E t \in Threads :
       \/ SocketBind(t) \/ CloneBind(t) \/ CloseCall(t)
       \/ \E f \in Fds :
            \/ SocketCall(t, f) \/ CloseClear(t, f)
            \/ Connect(t, f) \/ Traffic(t, f) \/ ClientHello(t, f)
       \/ \E s, f \in Fds : AcceptCall(t, s, f) \/ DupCall(t, s, f) \/ Dup2Call(t, s, f)
       \/ \E h \in Ssl :
            \/ \E f \in Fds : SslSetFd(t, h, f)
            \/ \E n \in Names \cup {0} : SslSetHostname(t, h, n)
            \/ SslFree(t, h)

Spec == Init /\ [][Next]_vars

-----------------------------------------------------------------------------
(* Properties.                                                             *)

\* What the engine and the runtime keep under a descriptor is about the
\* connection behind it: counters, loss state, delays and held packets of a
\* closed connection never act on the next one with its number.  The loss
\* state of R2 is not among what clear_fd_state clears.
OwnFlow ==
  \A f \in Fds : Usable(f) => \A k \in Kinds : mark[f][k] \subseteq {sock[f]}

\* The server name that target rules are matched against was given for the
\* connection behind the descriptor, not for an earlier one with its number.
OwnName ==
  \A f \in Fds : Usable(f) /\ sni[f] # 0 => sni[f] \in named[sock[f]]

\* The owner binding behaves as if every hook were one step: FdTable.
Table == INSTANCE FdTable WITH
  open <- {f \in Fds : Usable(f)},
  bound <- [f \in Fds |-> IF Usable(f) THEN owner[f] ELSE NoOwner]

\* A descriptor in use keeps the owner that creating or connecting it gave it,
\* and an alias has the owner of its source: the binding the documentation
\* calls authoritative for descriptors handed from thread to thread.
OwnerBinding == Table!TSpec
=============================================================================
