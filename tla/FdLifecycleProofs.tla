------------------------- MODULE FdLifecycleProofs -------------------------
(***************************************************************************)
(* Proofs about FdLifecycle, for every set of descriptors, threads and     *)
(* OpenSSL handles and any number of connections.                          *)
(***************************************************************************)
EXTENDS FdLifecycle, TLAPS

BioType == [fd : Fds \cup {NoFd}, conn : 0 .. MaxConn, name : Names \cup {0}]

\* What a thread inside a hook knows: its descriptor is open and, while it copies the
\* binding, its source is in use and stands for the same connection, unless it is the
\* listener the descriptor was accepted from.
BusyInv ==
  \A t \in Threads :
    /\ busy[t].op = "idle" => busy[t] = Idle
    /\ busy[t].op # "idle" => busy[t].fd \in Fds /\ sock[busy[t].fd] # 0
    /\ busy[t].op \in {"bind", "close"} => busy[t].from = NoFd
    /\ busy[t].op \in {"clone", "dup2"} => busy[t].from \in Fds /\ Usable(busy[t].from)
    /\ busy[t].op = "clone" => /\ busy[t].fd # busy[t].from
                               /\ \/ sock[busy[t].fd] = sock[busy[t].from]
                                  \/ sock[busy[t].from] \in listening
    /\ busy[t].op = "dup2" => sock[busy[t].fd] = sock[busy[t].from]

\* A descriptor is changed by one hook at a time.
Exclusive ==
  \A t, u \in Threads : busy[t].fd = busy[u].fd /\ busy[t].fd # NoFd => t = u

HookInv == BusyInv /\ Exclusive

\* Of what is kept under f and close() clears, nothing is left.
Blank(f) == sni[f] = 0 /\ \A k \in Kinds \cap ClearedKinds : mark[f][k] = {}

\* That holds of every descriptor that is free, new or about to be closed.
BlankInv ==
  /\ \A f \in Fds : sock[f] = 0 => Blank(f)
  /\ \A t \in Threads : busy[t].op \in {"bind", "clone", "close"} => Blank(busy[t].fd)

\* OwnFlow, of the state that clear_fd_state clears.
ClearedFlow ==
  \A f \in Fds : Usable(f) =>
    \A k \in Kinds \cap ClearedKinds : mark[f][k] \subseteq {sock[f]}

\* Names are given to connections that exist and are no listeners, and a handle
\* remembers the name it was given.
NameInv ==
  /\ \A f \in Fds : sock[f] <= made
  /\ listening \subseteq 1 .. made
  /\ \A s \in Ssl : /\ bio[s].conn <= made
                    /\ bio[s].fd # NoFd => bio[s].conn \in Conns \ listening
                    /\ sniBySsl[s] # 0 => sniBySsl[s] = bio[s].name
  /\ \A c \in Conns : c > made \/ c \in listening => named[c] = {}

IndInv == TypeOK /\ HookInv /\ BlankInv /\ ClearedFlow /\ NameInv /\ OwnName

-----------------------------------------------------------------------------
\* No descriptor is in use, no hook is running and no name is known at first.
LEMMA InitInd == Init => IndInv
<1> SUFFICES ASSUME Init PROVE IndInv
  OBVIOUS
<1> USE FdAssumption DEF Init
<1>1. TypeOK
  BY DEF TypeOK, Idle, Unmarked, NewHandle, Conns
<1>2. HookInv
  BY DEF HookInv, BusyInv, Exclusive, Idle
<1>3. BlankInv
  BY DEF BlankInv, Blank, Unmarked, Idle
<1>4. ClearedFlow /\ OwnName
  BY DEF ClearedFlow, OwnName, Usable
<1>5. NameInv
  BY DEF NameInv, NewHandle, Conns
<1> QED
  BY <1>1, <1>2, <1>3, <1>4, <1>5 DEF IndInv

\* Every action keeps the types.
LEMMA TypesStep ==
  ASSUME TypeOK, HookInv, [Next]_vars
  PROVE  TypeOK'
<1> USE FdAssumption DEF TypeOK
<1>0. CASE UNCHANGED vars
  BY <1>0 DEF vars
<1>1. ASSUME NEW t \in Threads, NEW f \in Fds, SocketCall(t, f) PROVE TypeOK'
  BY <1>1 DEF SocketCall, NewConnection, Enter, Conns, table, tls
<1>2. ASSUME NEW t \in Threads, SocketBind(t) PROVE TypeOK'
  BY <1>2 DEF SocketBind, Assign, Leave, Idle, tls
<1>3. ASSUME NEW t \in Threads, NEW s \in Fds, NEW f \in Fds, AcceptCall(t, s, f)
      PROVE  TypeOK'
  BY <1>3 DEF AcceptCall, NewConnection, Enter, table, tls
<1>4. ASSUME NEW t \in Threads, NEW s \in Fds, NEW f \in Fds,
             DupCall(t, s, f) \/ Dup2Call(t, s, f)
      PROVE  TypeOK'
  <2>1. sock' \in [Fds -> 0 .. MaxConn]
    BY <1>4 DEF DupCall, Dup2Call
  <2>2. PICK kind \in {"clone", "dup2"} : Enter(t, kind, f, s)
    BY <1>4 DEF DupCall, Dup2Call
  <2>3. UNCHANGED <<made, listening, table, tls>>
    BY <1>4 DEF DupCall, Dup2Call
  <2> QED
    BY <2>1, <2>2, <2>3 DEF Enter, table, tls
<1>5. ASSUME NEW t \in Threads, CloneBind(t) PROVE TypeOK'
  <2>1. busy[t].fd \in Fds /\ busy[t].from \in Fds
    BY <1>5 DEF CloneBind, HookInv, BusyInv
  <2>2. mark' \in [Fds -> [Kinds -> SUBSET Conns]]
    <3>1. CASE ClearFdState(busy[t].fd)
      BY <2>1, <3>1 DEF ClearFdState
    <3> QED
      BY <1>5, <3>1 DEF CloneBind
  <2>3. owner' \in [Fds -> Threads \cup {NoOwner}] /\ sni' \in [Fds -> Names \cup {0}]
    BY <1>5, <2>1 DEF CloneBind, CloneBinding
  <2> QED
    BY <1>5, <2>2, <2>3 DEF CloneBind, Leave, Idle, tls
<1>6. ASSUME NEW t \in Threads, NEW f \in Fds, CloseClear(t, f) PROVE TypeOK'
  <2>1. mark' \in [Fds -> [Kinds -> SUBSET Conns]]
    BY <1>6 DEF CloseClear, ClearFdState
  <2>2. fdBySsl' \in [Ssl -> Fds \cup {NoFd}] /\ sniBySsl' \in [Ssl -> Names \cup {0}]
    BY <1>6 DEF CloseClear, ForgetSsl
  <2> QED
    BY <1>6, <2>1, <2>2 DEF CloseClear, Enter
<1>7. ASSUME NEW t \in Threads, CloseCall(t) PROVE TypeOK'
  <2>1. sock' \in [Fds -> 0 .. MaxConn]
    <3>1. 0 \in 0 .. MaxConn
      OBVIOUS
    <3>2. sock' = [sock EXCEPT ![busy[t].fd] = 0]
      BY <1>7 DEF CloseCall
    <3> QED
      BY <3>1, <3>2
  <2> QED
    BY <1>7, <2>1 DEF CloseCall, Leave, Idle, table, tls
<1>8. ASSUME NEW t \in Threads, NEW f \in Fds, Connect(t, f) PROVE TypeOK'
  <2>1. sock[f] \in Conns
    BY <1>8 DEF Connect, Usable, Conns
  <2>2. mark' \in [Fds -> [Kinds -> SUBSET Conns]]
    BY <1>8, <2>1 DEF Connect
  <2> QED
    BY <1>8, <2>2 DEF Connect, Assign, tls
<1>9. ASSUME NEW t \in Threads, NEW f \in Fds, Traffic(t, f) PROVE TypeOK'
  <2>1. sock[f] \in Conns
    BY <1>9 DEF Traffic, Usable, Conns
  <2>2. mark' \in [Fds -> [Kinds -> SUBSET Conns]]
    BY <1>9, <2>1 DEF Traffic
  <2> QED
    BY <1>9, <2>2 DEF Traffic, tls
<1>10. ASSUME NEW t \in Threads, NEW f \in Fds, ClientHello(t, f) PROVE TypeOK'
  <2>1. sock[f] \in Conns
    BY <1>10 DEF ClientHello, Usable, Conns
  <2> QED
    BY <1>10, <2>1 DEF ClientHello
<1>11. ASSUME NEW t \in Threads, NEW s \in Ssl, NEW f \in Fds, SslSetFd(t, s, f)
       PROVE  TypeOK'
  <2>1. sock[f] \in Conns
    BY <1>11 DEF SslSetFd, Usable, Conns
  <2>2. bio' \in [Ssl -> BioType]
    <3>1. bio[s] \in BioType /\ sock[f] \in 0 .. MaxConn /\ f \in Fds
      BY DEF BioType
    <3> DEFINE with == [[bio[s] EXCEPT !.fd = f] EXCEPT !.conn = sock[f]]
    <3> HIDE DEF TypeOK
    <3>2. [bio[s] EXCEPT !.fd = f] \in BioType
      BY <3>1 DEF BioType
    <3>3. with \in BioType
      BY <3>1, <3>2 DEF BioType
    <3>4. bio' = [bio EXCEPT ![s] = with]
      BY <1>11 DEF SslSetFd
    <3> HIDE DEF with
    <3> QED
      BY <3>3, <3>4 DEF TypeOK, BioType
  <2>3. sni' \in [Fds -> Names \cup {0}] /\ fdBySsl' \in [Ssl -> Fds \cup {NoFd}]
    BY <1>11 DEF SslSetFd
  <2>4. named' \in [Conns -> SUBSET Names]
    BY <1>11, <2>1 DEF SslSetFd
  <2> QED
    BY <1>11, <2>2, <2>3, <2>4 DEF SslSetFd, BioType
<1>12. ASSUME NEW t \in Threads, NEW s \in Ssl, NEW n \in Names \cup {0},
              SslSetHostname(t, s, n)
       PROVE  TypeOK'
  <2>1. bio' \in [Ssl -> BioType] /\ sniBySsl' \in [Ssl -> Names \cup {0}]
    BY <1>12 DEF SslSetHostname, BioType
  <2>2. fdBySsl' \in [Ssl -> Fds \cup {NoFd}]
    BY <1>12 DEF SslSetHostname
  <2>3. sni' \in [Fds -> Names \cup {0}]
    BY <1>12 DEF SslSetHostname
  <2>4. named' \in [Conns -> SUBSET Names]
    <3>1. CASE UNCHANGED named
      BY <3>1
    <3>2. CASE n # 0 /\ named' = [named EXCEPT ![bio[s].conn] = @ \cup {n}]
      BY <3>2
    <3> QED
      BY <1>12, <3>1, <3>2 DEF SslSetHostname
  <2> QED
    BY <1>12, <2>1, <2>2, <2>3, <2>4 DEF SslSetHostname, BioType
<1>13. ASSUME NEW t \in Threads, NEW s \in Ssl, SslFree(t, s) PROVE TypeOK'
  BY <1>13 DEF SslFree, NewHandle, table
<1> QED
  BY <1>0, <1>1, <1>2, <1>3, <1>4, <1>5, <1>6, <1>7, <1>8, <1>9, <1>10, <1>11, <1>12, <1>13
     DEF Next

-----------------------------------------------------------------------------
\* Which descriptors the application can use after a step: entering a hook takes the
\* descriptor it changes away, leaving one gives a new descriptor.
LEMMA UsableAfter ==
  ASSUME TypeOK, HookInv, NEW t \in Threads
  PROVE  /\ \A f \in Fds : SocketCall(t, f) => \A g \in Fds : Usable(g)' <=> Usable(g)
         /\ \A s, f \in Fds : AcceptCall(t, s, f) \/ DupCall(t, s, f) =>
              \A g \in Fds : Usable(g)' <=> Usable(g)
         /\ \A s, f \in Fds : Dup2Call(t, s, f) =>
              \A g \in Fds : Usable(g)' <=> Usable(g) /\ (g # f \/ f = s)
         /\ SocketBind(t) \/ CloneBind(t) =>
              \A g \in Fds : Usable(g)' <=> Usable(g) \/ g = busy[t].fd
         /\ \A f \in Fds : CloseClear(t, f) =>
              \A g \in Fds : Usable(g)' <=> Usable(g) /\ g # f
         /\ CloseCall(t) => \A g \in Fds : Usable(g)' <=> Usable(g)
<1> USE FdAssumption DEF TypeOK, HookInv, BusyInv, Exclusive, Usable, InHook, Idle
<1>1. ASSUME NEW f \in Fds, SocketCall(t, f) PROVE \A g \in Fds : Usable(g)' <=> Usable(g)
  BY <1>1 DEF SocketCall, NewConnection, Enter
<1>2. ASSUME NEW s \in Fds, NEW f \in Fds, AcceptCall(t, s, f)
      PROVE  \A g \in Fds : Usable(g)' <=> Usable(g)
  BY <1>2 DEF AcceptCall, NewConnection, Enter
<1>3. ASSUME NEW s \in Fds, NEW f \in Fds, DupCall(t, s, f)
      PROVE  \A g \in Fds : Usable(g)' <=> Usable(g)
  BY <1>3 DEF DupCall, Enter
<1>4. ASSUME NEW s \in Fds, NEW f \in Fds, Dup2Call(t, s, f)
      PROVE  \A g \in Fds : Usable(g)' <=> Usable(g) /\ (g # f \/ f = s)
  BY <1>4 DEF Dup2Call, Enter
<1>5. ASSUME SocketBind(t) \/ CloneBind(t)
      PROVE  \A g \in Fds : Usable(g)' <=> Usable(g) \/ g = busy[t].fd
  <2>0. PICK f \in Fds : f = busy[t].fd
    BY <1>5 DEF SocketBind, CloneBind
  <2>1. sock' = sock /\ busy' = [busy EXCEPT ![t] = Idle] /\ sock[f] # 0
    BY <1>5, <2>0 DEF SocketBind, CloneBind, Leave
  <2>2. busy'[t].fd = NoFd /\ \A u \in Threads : u # t => busy'[u] = busy[u]
    BY <2>1
  <2>3. \A u \in Threads : u # t => busy[u].fd # f
    BY <2>0, <2>1
  <2>4. Usable(f)'
    BY <2>1, <2>2, <2>3
  <2>5. ASSUME NEW g \in Fds, g # f PROVE Usable(g)' <=> Usable(g)
    BY <2>0, <2>1, <2>2, <2>5
  <2> HIDE DEF Usable
  <2> QED
    BY <2>0, <2>4, <2>5
<1>6. ASSUME NEW f \in Fds, CloseClear(t, f)
      PROVE  \A g \in Fds : Usable(g)' <=> Usable(g) /\ g # f
  BY <1>6 DEF CloseClear, Enter
<1>7. ASSUME CloseCall(t) PROVE \A g \in Fds : Usable(g)' <=> Usable(g)
  BY <1>7 DEF CloseCall, Leave
<1> QED
  BY <1>1, <1>2, <1>3, <1>4, <1>5, <1>6, <1>7

\* Steps that leave the kernel's table and the hooks alone leave HookInv alone.
LEMMA HookSame ==
  ASSUME HookInv, UNCHANGED <<sock, busy, listening>>
  PROVE  HookInv' /\ \A g \in Fds : Usable(g)' <=> Usable(g)
BY DEF HookInv, BusyInv, Exclusive, Usable

\* Every hook's step keeps what the threads inside hooks rely on.
LEMMA HookStep ==
  ASSUME TypeOK, TypeOK', HookInv, [Next]_vars
  PROVE  HookInv'
<1> USE FdAssumption DEF HookInv
<1>0. CASE UNCHANGED vars
  BY <1>0, HookSame DEF vars
<1>1. ASSUME NEW t \in Threads, NEW f \in Fds, SocketCall(t, f) PROVE HookInv'
  <2>1. \A g \in Fds : Usable(g)' <=> Usable(g)
    BY <1>1, UsableAfter
  <2>2. /\ sock[f] = 0 /\ sock'[f] # 0 /\ \A g \in Fds : g # f => sock'[g] = sock[g]
        /\ listening \subseteq listening'
    BY <1>1 DEF SocketCall, NewConnection, TypeOK
  <2>3. /\ busy'[t] = [op |-> "bind", fd |-> f, from |-> NoFd]
        /\ \A u \in Threads : u # t => busy'[u] = busy[u]
    BY <1>1 DEF SocketCall, Enter, TypeOK
  <2>4. Exclusive'
    BY <2>2, <2>3 DEF Exclusive, BusyInv, Idle
  <2>5. BusyInv'
    BY <2>1, <2>2, <2>3 DEF BusyInv, Usable
  <2> QED
    BY <2>4, <2>5
<1>2. ASSUME NEW t \in Threads, SocketBind(t) \/ CloneBind(t) PROVE HookInv'
  <2>1. \A g \in Fds : Usable(g) => Usable(g)'
    BY <1>2, UsableAfter
  <2>2. UNCHANGED <<sock, listening>>
    BY <1>2 DEF SocketBind, CloneBind
  <2>3. busy'[t] = Idle /\ \A u \in Threads : u # t => busy'[u] = busy[u]
    BY <1>2 DEF SocketBind, CloneBind, Leave, TypeOK
  <2>4. Exclusive'
    BY <2>3 DEF Exclusive, Idle
  <2>5. BusyInv'
    BY <2>1, <2>2, <2>3 DEF BusyInv, Idle
  <2> QED
    BY <2>4, <2>5
<1>3. ASSUME NEW t \in Threads, NEW s \in Fds, NEW f \in Fds,
             AcceptCall(t, s, f) \/ DupCall(t, s, f)
      PROVE  HookInv'
  <2>1. \A g \in Fds : Usable(g)' <=> Usable(g)
    BY <1>3, UsableAfter
  <2>2. /\ sock[f] = 0 /\ sock'[f] # 0 /\ \A g \in Fds : g # f => sock'[g] = sock[g]
        /\ listening' = listening /\ s # f /\ Usable(s)
        /\ sock'[f] = sock'[s] \/ sock'[s] \in listening
    BY <1>3 DEF AcceptCall, DupCall, NewConnection, TypeOK, Usable
  <2>3. /\ busy'[t] = [op |-> "clone", fd |-> f, from |-> s]
        /\ \A u \in Threads : u # t => busy'[u] = busy[u]
    BY <1>3 DEF AcceptCall, DupCall, Enter, TypeOK
  <2>4. Exclusive'
    BY <2>2, <2>3 DEF Exclusive, BusyInv, Idle
  <2>5. BusyInv'
    BY <2>1, <2>2, <2>3 DEF BusyInv, Usable
  <2> QED
    BY <2>4, <2>5
<1>4. ASSUME NEW t \in Threads, NEW s \in Fds, NEW f \in Fds, Dup2Call(t, s, f)
      PROVE  HookInv'
  <2>1. \A g \in Fds : Usable(g)' <=> Usable(g) /\ (g # f \/ f = s)
    BY <1>4, UsableAfter
  <2>2. /\ sock'[f] = sock[s] /\ sock[s] # 0 /\ \A g \in Fds : g # f => sock'[g] = sock[g]
        /\ listening' = listening /\ Usable(s)
        /\ \A u \in Threads : busy[u].fd # f /\ busy[u].from # f
    BY <1>4 DEF Dup2Call, TypeOK, Usable, InHook
  <2>3. /\ busy'[t] = [op |-> "dup2", fd |-> f, from |-> s]
        /\ \A u \in Threads : u # t => busy'[u] = busy[u]
    BY <1>4 DEF Dup2Call, Enter, TypeOK
  <2>4. Exclusive'
    BY <2>2, <2>3 DEF Exclusive
  <2>5. BusyInv'
    BY <2>1, <2>2, <2>3 DEF BusyInv
  <2> QED
    BY <2>4, <2>5
<1>5. ASSUME NEW t \in Threads, NEW f \in Fds, CloseClear(t, f) PROVE HookInv'
  <2>1. \A g \in Fds : Usable(g)' <=> Usable(g) /\ g # f
    BY <1>5, UsableAfter
  <2>2. /\ UNCHANGED <<sock, listening>> /\ sock[f] # 0
        /\ \A u \in Threads : busy[u].fd # f /\ busy[u].from # f
    BY <1>5 DEF CloseClear, TypeOK, Usable, InHook
  <2>3. /\ busy'[t] = [op |-> "close", fd |-> f, from |-> NoFd]
        /\ \A u \in Threads : u # t => busy'[u] = busy[u]
    BY <1>5 DEF CloseClear, Enter, TypeOK
  <2>4. Exclusive'
    BY <2>2, <2>3 DEF Exclusive
  <2>5. BusyInv'
    BY <2>1, <2>2, <2>3 DEF BusyInv
  <2> QED
    BY <2>4, <2>5
<1>6. ASSUME NEW t \in Threads, CloseCall(t) PROVE HookInv'
  <2>1. \A g \in Fds : Usable(g)' <=> Usable(g)
    BY <1>6, UsableAfter
  <2> DEFINE f == busy[t].fd
  <2>2. /\ f \in Fds /\ ~Usable(f) /\ listening' = listening
        /\ \A g \in Fds : g # f => sock'[g] = sock[g]
    BY <1>6 DEF CloseCall, TypeOK, Usable, BusyInv
  <2>3. busy'[t] = Idle /\ \A u \in Threads : u # t => busy'[u] = busy[u]
    BY <1>6 DEF CloseCall, Leave, TypeOK
  <2>4. \A u \in Threads : u # t => busy[u].fd # f /\ busy[u].from # f
    BY <2>2 DEF Exclusive, BusyInv, Idle, TypeOK
  <2>5. Exclusive'
    BY <2>3 DEF Exclusive, Idle
  <2>6. BusyInv'
    BY <2>1, <2>2, <2>3, <2>4 DEF BusyInv, Idle
  <2> QED
    BY <2>5, <2>6
<1>7. ASSUME NEW t \in Threads, NEW f \in Fds,
             Connect(t, f) \/ Traffic(t, f) \/ ClientHello(t, f)
      PROVE  HookInv'
  BY <1>7, HookSame DEF Connect, Traffic, ClientHello
<1>8. ASSUME NEW t \in Threads, NEW s \in Ssl,
             \/ \E f \in Fds : SslSetFd(t, s, f)
             \/ \E n \in Names \cup {0} : SslSetHostname(t, s, n)
             \/ SslFree(t, s)
      PROVE  HookInv'
  BY <1>8, HookSame DEF SslSetFd, SslSetHostname, SslFree
<1> QED
  BY <1>0, <1>1, <1>2, <1>3, <1>4, <1>5, <1>6, <1>7, <1>8 DEF Next

-----------------------------------------------------------------------------
\* Every action keeps free and new descriptors blank, and the state of used ones about
\* the connection behind them.
LEMMA FlowStep ==
  ASSUME TypeOK, TypeOK', HookInv, HookInv', BlankInv, ClearedFlow, [Next]_vars
  PROVE  BlankInv' /\ ClearedFlow'
<1> DEFINE K == Kinds \cap ClearedKinds
<1> USE FdAssumption
\* A step that changes no entry, and no connection behind a descriptor in use.
<1>0. ASSUME UNCHANGED <<sni, mark>>,
             \A g \in Fds : Usable(g)' => Usable(g) /\ sock'[g] = sock[g]
      PROVE  ClearedFlow'
  BY <1>0 DEF ClearedFlow
<1>1. CASE UNCHANGED vars
  BY <1>1 DEF vars, BlankInv, Blank, ClearedFlow, Usable
<1>2. ASSUME NEW t \in Threads, NEW f \in Fds, NEW kind \in {"bind", "clone"}, NEW s,
             sock[f] = 0, \A g \in Fds : g # f => sock'[g] = sock[g],
             \A g \in Fds : Usable(g)' <=> Usable(g),
             Enter(t, kind, f, s), UNCHANGED <<sni, mark>>
      PROVE  BlankInv' /\ ClearedFlow'
  <2>1. ~Usable(f)
    BY <1>2 DEF Usable
  <2>2. ClearedFlow'
    BY <1>0, <1>2, <2>1
  <2>3. /\ busy'[t] = [op |-> kind, fd |-> f, from |-> s]
        /\ \A u \in Threads : u # t => busy'[u] = busy[u]
    BY <1>2 DEF Enter, TypeOK
  <2>4. Blank(f) /\ \A g \in Fds : Blank(g)' <=> Blank(g)
    BY <1>2 DEF BlankInv, Blank
  <2>5. BlankInv'
    BY <1>2, <2>3, <2>4 DEF BlankInv, HookInv, BusyInv
  <2> QED
    BY <2>2, <2>5
<1>3. ASSUME NEW t \in Threads, NEW f \in Fds, SocketCall(t, f) PROVE BlankInv' /\ ClearedFlow'
  <2>1. /\ sock[f] = 0 /\ \A g \in Fds : g # f => sock'[g] = sock[g]
        /\ Enter(t, "bind", f, NoFd) /\ UNCHANGED <<sni, mark>>
    BY <1>3 DEF SocketCall, NewConnection, TypeOK, table
  <2>2. \A g \in Fds : Usable(g)' <=> Usable(g)
    BY <1>3, UsableAfter
  <2> QED
    BY <1>2, <2>1, <2>2
<1>4. ASSUME NEW t \in Threads, NEW s \in Fds, NEW f \in Fds,
             AcceptCall(t, s, f) \/ DupCall(t, s, f)
      PROVE  BlankInv' /\ ClearedFlow'
  <2>1. /\ sock[f] = 0 /\ \A g \in Fds : g # f => sock'[g] = sock[g]
        /\ Enter(t, "clone", f, s) /\ UNCHANGED <<sni, mark>>
    BY <1>4 DEF AcceptCall, DupCall, NewConnection, TypeOK, table
  <2>2. \A g \in Fds : Usable(g)' <=> Usable(g)
    BY <1>4, UsableAfter
  <2> QED
    BY <1>2, <2>1, <2>2
<1>5. ASSUME NEW t \in Threads, NEW s \in Fds, NEW f \in Fds, Dup2Call(t, s, f)
      PROVE  BlankInv' /\ ClearedFlow'
  <2>1. /\ sock' = [sock EXCEPT ![f] = sock[s]] /\ sock[s] # 0
        /\ busy' = [busy EXCEPT ![t] = [op |-> "dup2", fd |-> f, from |-> s]]
        /\ UNCHANGED <<sni, mark>>
    BY <1>5 DEF Dup2Call, Enter, Usable, table
  <2>2. \A g \in Fds : Usable(g)' => Usable(g) /\ sock'[g] = sock[g]
    <3>1. \A g \in Fds : Usable(g)' <=> Usable(g) /\ (g # f \/ f = s)
      BY <1>5, UsableAfter
    <3> QED
      BY <2>1, <3>1 DEF TypeOK
  <2>3. BlankInv'
    BY <2>1, ZenonT(40) DEF BlankInv, Blank, TypeOK
  <2> QED
    BY <1>0, <2>1, <2>2, <2>3
<1>6. ASSUME NEW t \in Threads, SocketBind(t) PROVE BlankInv' /\ ClearedFlow'
  <2>0. PICK f \in Fds : f = busy[t].fd
    BY <1>6 DEF SocketBind, HookInv, BusyInv
  <2>1. UNCHANGED <<sock, sni, mark>> /\ busy' = [busy EXCEPT ![t] = Idle] /\ Blank(f)
    BY <1>6, <2>0 DEF SocketBind, Leave, BlankInv
  <2>2. \A g \in Fds : Usable(g)' <=> Usable(g) \/ g = f
    BY <1>6, <2>0, UsableAfter
  <2>3. BlankInv'
    BY <2>1 DEF BlankInv, Blank, Idle, TypeOK
  <2>4. ClearedFlow'
    BY <2>1, <2>2 DEF ClearedFlow, Blank
  <2> QED
    BY <2>3, <2>4
<1>7. ASSUME NEW t \in Threads, CloneBind(t) PROVE BlankInv' /\ ClearedFlow'
  <2>0. PICK f \in Fds, s \in Fds : f = busy[t].fd /\ s = busy[t].from
    BY <1>7 DEF CloneBind, HookInv, BusyInv
  <2>1. /\ UNCHANGED sock /\ busy' = [busy EXCEPT ![t] = Idle]
        /\ sock[f] # 0 /\ Usable(s)
        /\ \A g \in Fds : g # f => sni'[g] = sni[g] /\ mark'[g] = mark[g]
    BY <1>7, <2>0 DEF CloneBind, CloneBinding, ClearFdState, Leave, HookInv, BusyInv, TypeOK
  <2>2. \A g \in Fds : Usable(g)' <=> Usable(g) \/ g = f
    BY <1>7, <2>0, UsableAfter
  <2>3. \A g \in Fds : g # f => (Blank(g)' <=> Blank(g))
    BY <2>1 DEF Blank
  <2>4. \A u \in Threads : u # t => busy[u].fd # f
    BY <2>0 DEF HookInv, Exclusive
  <2>5. BlankInv'
    <3>1. \A g \in Fds : sock'[g] = 0 => Blank(g)'
      BY <2>1, <2>3 DEF BlankInv
    <3>2. \A u \in Threads : u # t => busy'[u] = busy[u]
      BY <2>1 DEF TypeOK
    <3>3. (\A u \in Threads : busy[u].op \in {"bind", "clone", "close"} => Blank(busy[u].fd))'
      BY <2>1, <2>3, <2>4, <3>2 DEF BlankInv, Idle, TypeOK, HookInv, BusyInv
    <3> QED
      BY <3>1, <3>3 DEF BlankInv
  <2>6. \A k \in K : mark'[f][k] \subseteq {sock[f]}
    <3>1. CASE busy[t].op = "dup2" /\ f # s
      <4>1. ClearFdState(f)
        BY <1>7, <2>0, <3>1 DEF CloneBind
      <4> QED
        BY <4>1 DEF ClearFdState, TypeOK
    <3>2. CASE busy[t].op = "dup2" /\ f = s
      BY <1>7, <2>0, <2>1, <3>2 DEF CloneBind, ClearedFlow
    <3>3. CASE busy[t].op = "clone"
      BY <1>7, <2>0, <3>3 DEF CloneBind, BlankInv, Blank
    <3> QED
      BY <1>7, <3>1, <3>2, <3>3 DEF CloneBind
  <2>7. ClearedFlow'
    BY <2>1, <2>2, <2>6 DEF ClearedFlow
  <2> QED
    BY <2>5, <2>7
<1>8. ASSUME NEW t \in Threads, NEW f \in Fds, CloseClear(t, f) PROVE BlankInv' /\ ClearedFlow'
  <2>1. /\ UNCHANGED sock /\ sock[f] # 0
        /\ busy' = [busy EXCEPT ![t] = [op |-> "close", fd |-> f, from |-> NoFd]]
        /\ \A u \in Threads : busy[u].fd # f
    BY <1>8 DEF CloseClear, Enter, Usable, InHook
  <2>2. \A g \in Fds : g # f => sni'[g] = sni[g] /\ mark'[g] = mark[g]
    BY <1>8 DEF CloseClear, ClearFdState, TypeOK
  <2>3. Blank(f)'
    BY <1>8 DEF CloseClear, ClearFdState, Blank, TypeOK
  <2>4. \A g \in Fds : g # f => (Blank(g)' <=> Blank(g))
    BY <2>2 DEF Blank
  <2>5. BlankInv'
    BY <2>1, <2>3, <2>4 DEF BlankInv, TypeOK, HookInv, BusyInv
  <2>6. \A g \in Fds : Usable(g)' <=> Usable(g) /\ g # f
    BY <1>8, UsableAfter
  <2>7. ClearedFlow'
    BY <2>1, <2>2, <2>6 DEF ClearedFlow
  <2> QED
    BY <2>5, <2>7
<1>9. ASSUME NEW t \in Threads, CloseCall(t) PROVE BlankInv' /\ ClearedFlow'
  <2>0. PICK f \in Fds : f = busy[t].fd
    BY <1>9 DEF CloseCall, HookInv, BusyInv
  <2>1. /\ sock' = [sock EXCEPT ![f] = 0] /\ busy' = [busy EXCEPT ![t] = Idle]
        /\ UNCHANGED <<sni, mark>> /\ Blank(f)
    BY <1>9, <2>0 DEF CloseCall, Leave, table, BlankInv
  <2>2. \A g \in Fds : Usable(g)' <=> Usable(g)
    BY <1>9, UsableAfter
  <2>3. ~Usable(f)'
    BY <2>1 DEF Usable, TypeOK
  <2>4. ClearedFlow'
    BY <1>0, <2>1, <2>2, <2>3 DEF TypeOK
  <2>5. BlankInv'
    BY <2>1, ZenonT(40) DEF BlankInv, Blank, TypeOK, Idle
  <2> QED
    BY <2>4, <2>5
\* Calls on a descriptor in use.
<1>10. ASSUME UNCHANGED <<sock, busy>>, NEW f \in Fds, Usable(f),
              \A g \in Fds : g # f => sni'[g] = sni[g] /\ mark'[g] = mark[g],
              \A k \in K : mark'[f][k] \subseteq mark[f][k] \cup {sock[f]}
       PROVE  BlankInv' /\ ClearedFlow'
  <2>1. \A g \in Fds : g # f => (Blank(g)' <=> Blank(g))
    BY <1>10 DEF Blank
  <2>2. sock[f] # 0 /\ \A u \in Threads : busy[u].op \in {"bind", "clone", "close"} => busy[u].fd # f
    BY <1>10 DEF Usable, HookInv, BusyInv
  <2>3. BlankInv'
    BY <1>10, <2>1, <2>2 DEF BlankInv, HookInv, BusyInv
  <2>4. ClearedFlow'
    BY <1>10 DEF ClearedFlow, Usable
  <2> QED
    BY <2>3, <2>4
<1>11. ASSUME NEW t \in Threads, NEW f \in Fds, Connect(t, f) PROVE BlankInv' /\ ClearedFlow'
  <2>1. PICK touched \in SUBSET (Kinds \cap R2Kinds) :
          mark' = [mark EXCEPT ![f] =
            [k \in Kinds |-> @[k] \cup IF k \in touched THEN {sock[f]} ELSE {}]]
    BY <1>11 DEF Connect
  <2>2. /\ \A g \in Fds : g # f => mark'[g] = mark[g]
        /\ \A k \in K : mark'[f][k] \subseteq mark[f][k] \cup {sock[f]}
    BY <2>1 DEF TypeOK
  <2>3. UNCHANGED <<sock, busy, sni>> /\ Usable(f)
    BY <1>11 DEF Connect
  <2> QED
    BY <1>10, <2>2, <2>3
<1>12. ASSUME NEW t \in Threads, NEW f \in Fds, Traffic(t, f) PROVE BlankInv' /\ ClearedFlow'
  <2>1. PICK touched \in SUBSET Kinds, ended \in SUBSET Kinds :
          mark' = [mark EXCEPT ![f] =
            [k \in Kinds |-> IF k \in ended THEN {}
                             ELSE IF k \in touched THEN @[k] \cup {sock[f]}
                             ELSE @[k]]]
    BY <1>12 DEF Traffic
  <2>2. /\ \A g \in Fds : g # f => mark'[g] = mark[g]
        /\ \A k \in K : mark'[f][k] \subseteq mark[f][k] \cup {sock[f]}
    BY <2>1 DEF TypeOK
  <2>3. UNCHANGED <<sock, busy, sni>> /\ Usable(f)
    BY <1>12 DEF Traffic
  <2> QED
    BY <1>10, <2>2, <2>3
<1>13. ASSUME NEW t \in Threads, NEW f \in Fds, ClientHello(t, f) PROVE BlankInv' /\ ClearedFlow'
  <2>1. UNCHANGED <<sock, busy, mark>> /\ Usable(f) /\ \A g \in Fds : g # f => sni'[g] = sni[g]
    BY <1>13 DEF ClientHello, TypeOK
  <2> QED
    BY <1>10, <2>1
<1>14. ASSUME NEW t \in Threads, NEW s \in Ssl, NEW f \in Fds, SslSetFd(t, s, f)
       PROVE  BlankInv' /\ ClearedFlow'
  <2>1. UNCHANGED <<sock, busy, mark>> /\ Usable(f) /\ \A g \in Fds : g # f => sni'[g] = sni[g]
    BY <1>14 DEF SslSetFd, TypeOK
  <2> QED
    BY <1>10, <2>1
<1>15. ASSUME NEW t \in Threads, NEW s \in Ssl, NEW n \in Names \cup {0}, SslSetHostname(t, s, n)
       PROVE  BlankInv' /\ ClearedFlow'
  <2>1. UNCHANGED <<sock, busy, mark>>
    BY <1>15 DEF SslSetHostname
  <2>2. CASE UNCHANGED sni
    BY <2>1, <2>2 DEF BlankInv, Blank, ClearedFlow, Usable
  <2>3. CASE bio[s].fd # NoFd
    <3>1. PICK f \in Fds : f = bio[s].fd
      BY <2>3 DEF TypeOK
    <3>2. Usable(f) /\ \A g \in Fds : g # f => sni'[g] = sni[g]
      BY <1>15, <2>3, <3>1 DEF SslSetHostname, TypeOK
    <3> QED
      BY <1>10, <2>1, <3>2
  <2> QED
    BY <1>15, <2>2, <2>3 DEF SslSetHostname
<1>16. ASSUME NEW t \in Threads, NEW s \in Ssl, SslFree(t, s) PROVE BlankInv' /\ ClearedFlow'
  BY <1>16 DEF SslFree, table, BlankInv, Blank, ClearedFlow, Usable
<1> QED
  BY <1>1, <1>3, <1>4, <1>5, <1>6, <1>7, <1>8, <1>9, <1>11, <1>12, <1>13, <1>14, <1>15, <1>16
     DEF Next

\* Every action keeps the names given to connections, and those found under the
\* descriptors in use among them.
LEMMA NameStep ==
  ASSUME TypeOK, TypeOK', HookInv, HookInv', BlankInv, NameInv, OwnName, [Next]_vars
  PROVE  NameInv' /\ OwnName'
<1> USE FdAssumption
<1>0. made \in Nat /\ \A f \in Fds : sock[f] \in Nat /\ (sock[f] # 0 => sock[f] \in Conns)
  BY DEF TypeOK, Conns
\* The name under no descriptor in use and the connection behind none changes, and
\* no name is taken back.
<1>1. ASSUME \A g \in Fds : Usable(g)' => Usable(g) /\ sock'[g] = sock[g] /\ sni'[g] = sni[g],
             \A c \in Conns : named[c] \subseteq named'[c]
      PROVE  OwnName'
  BY <1>0, <1>1 DEF OwnName, Usable
<1>2. CASE UNCHANGED vars
  BY <1>2 DEF vars, NameInv, OwnName, Usable
<1>3. ASSUME NEW t \in Threads, NEW f \in Fds, SocketCall(t, f) PROVE NameInv' /\ OwnName'
  <2>1. /\ sock[f] = 0 /\ sock' = [sock EXCEPT ![f] = made + 1] /\ made' = made + 1
        /\ listening' \in {listening, listening \cup {made + 1}}
        /\ UNCHANGED <<sni, tls>>
    BY <1>3 DEF SocketCall, NewConnection, table
  <2>2. \A g \in Fds : Usable(g)' <=> Usable(g)
    BY <1>3, UsableAfter
  <2>3. OwnName'
    BY <1>1, <2>1, <2>2 DEF tls, Usable, TypeOK
  <2>4. /\ \A g \in Fds : sock'[g] <= made'
        /\ listening' \subseteq 1 .. made'
    BY <1>0, <2>1 DEF NameInv, TypeOK
  <2>5. \A s \in Ssl : /\ bio[s].conn <= made'
                       /\ bio[s].fd # NoFd => bio[s].conn \in Conns \ listening'
    BY <1>0, <2>1 DEF NameInv, TypeOK
  <2>6. \A c \in Conns : c > made' \/ c \in listening' => named[c] = {}
    BY <1>0, <2>1 DEF NameInv, Conns
  <2> QED
    BY <2>1, <2>3, <2>4, <2>5, <2>6 DEF NameInv, tls
<1>4. ASSUME NEW t \in Threads, NEW s \in Fds, NEW f \in Fds, AcceptCall(t, s, f)
      PROVE  NameInv' /\ OwnName'
  <2>1. /\ sock[f] = 0 /\ sock' = [sock EXCEPT ![f] = made + 1] /\ made' = made + 1
        /\ UNCHANGED <<listening, sni, tls>>
    BY <1>4 DEF AcceptCall, NewConnection, table
  <2>2. \A g \in Fds : Usable(g)' <=> Usable(g)
    BY <1>4, UsableAfter
  <2>3. OwnName'
    BY <1>1, <2>1, <2>2 DEF tls, Usable, TypeOK
  <2>4. /\ \A g \in Fds : sock'[g] <= made'
        /\ listening' \subseteq 1 .. made'
    BY <1>0, <2>1 DEF NameInv, TypeOK
  <2>5. \A h \in Ssl : bio[h].conn <= made'
    BY <1>0, <2>1 DEF NameInv, TypeOK
  <2>6. \A c \in Conns : c > made' => c > made
    BY <1>0, <2>1 DEF Conns
  <2> QED
    BY <2>1, <2>3, <2>4, <2>5, <2>6 DEF NameInv, tls
<1>5. ASSUME NEW t \in Threads, NEW s \in Fds, NEW f \in Fds,
             DupCall(t, s, f) \/ Dup2Call(t, s, f)
      PROVE  NameInv' /\ OwnName'
  <2>1. sock' = [sock EXCEPT ![f] = sock[s]] /\ UNCHANGED <<made, listening, sni, tls>>
    BY <1>5 DEF DupCall, Dup2Call, table
  <2>2. \A g \in Fds : Usable(g)' => Usable(g) /\ sock'[g] = sock[g]
    <3>1. CASE DupCall(t, s, f)
      <4>1. sock[f] = 0 /\ \A g \in Fds : Usable(g)' <=> Usable(g)
        BY <3>1, UsableAfter DEF DupCall
      <4> QED
        BY <2>1, <4>1 DEF Usable, TypeOK
    <3>2. CASE Dup2Call(t, s, f)
      <4>1. \A g \in Fds : Usable(g)' <=> Usable(g) /\ (g # f \/ f = s)
        BY <3>2, UsableAfter
      <4> QED
        BY <2>1, <4>1 DEF TypeOK
    <3> QED
      BY <1>5, <3>1, <3>2
  <2>3. OwnName'
    BY <1>1, <2>1, <2>2 DEF tls
  <2> QED
    BY <2>1, <2>3 DEF NameInv, tls, TypeOK
<1>6. ASSUME NEW t \in Threads, SocketBind(t) PROVE NameInv' /\ OwnName'
  <2>0. PICK f \in Fds : f = busy[t].fd
    BY <1>6 DEF SocketBind, HookInv, BusyInv
  <2>1. UNCHANGED <<sock, made, listening, sni, tls>> /\ sni[f] = 0
    BY <1>6, <2>0 DEF SocketBind, BlankInv, Blank
  <2>2. \A g \in Fds : Usable(g)' <=> Usable(g) \/ g = f
    BY <1>6, <2>0, UsableAfter
  <2> QED
    BY <2>1, <2>2 DEF NameInv, OwnName, tls
<1>7. ASSUME NEW t \in Threads, CloneBind(t) PROVE NameInv' /\ OwnName'
  <2>0. PICK f \in Fds, s \in Fds : f = busy[t].fd /\ s = busy[t].from
    BY <1>7 DEF CloneBind, HookInv, BusyInv
  <2>1. UNCHANGED <<sock, made, listening, tls>> /\ sni' = [sni EXCEPT ![f] = sni[s]]
    BY <1>7, <2>0 DEF CloneBind, CloneBinding
  <2>2. Usable(s) /\ sock[s] \in Conns /\ (sock[f] = sock[s] \/ sock[s] \in listening)
    BY <1>0, <1>7, <2>0 DEF CloneBind, HookInv, BusyInv, Usable
  <2>3. sni[s] # 0 => sni[s] \in named[sock[f]]
    BY <2>2 DEF OwnName, NameInv
  <2>4. \A g \in Fds : Usable(g)' <=> Usable(g) \/ g = f
    BY <1>7, <2>0, UsableAfter
  <2>5. OwnName'
    BY <2>1, <2>3, <2>4 DEF OwnName, tls, TypeOK
  <2> QED
    BY <2>1, <2>5 DEF NameInv, tls
<1>8. ASSUME NEW t \in Threads, NEW f \in Fds, CloseClear(t, f) PROVE NameInv' /\ OwnName'
  <2>1. /\ UNCHANGED <<sock, made, listening, bio, named>>
        /\ \A g \in Fds : g # f => sni'[g] = sni[g]
        /\ \A s \in Ssl : sniBySsl'[s] # 0 => sniBySsl'[s] = sniBySsl[s]
    BY <1>8 DEF CloseClear, ForgetSsl, TypeOK
  <2>2. \A g \in Fds : Usable(g)' <=> Usable(g) /\ g # f
    BY <1>8, UsableAfter
  <2>3. OwnName'
    BY <1>1, <2>1, <2>2
  <2> QED
    BY <2>1, <2>3 DEF NameInv
<1>9. ASSUME NEW t \in Threads, CloseCall(t) PROVE NameInv' /\ OwnName'
  <2>0. PICK f \in Fds : f = busy[t].fd
    BY <1>9 DEF CloseCall, HookInv, BusyInv
  <2>1. sock' = [sock EXCEPT ![f] = 0] /\ UNCHANGED <<made, listening, sni, tls>>
    BY <1>9, <2>0 DEF CloseCall, table
  <2>2. \A g \in Fds : Usable(g)' <=> Usable(g)
    BY <1>9, UsableAfter
  <2>3. \A g \in Fds : Usable(g)' => sock'[g] = sock[g]
    BY <2>1 DEF Usable, TypeOK
  <2>4. OwnName'
    BY <1>1, <2>1, <2>2, <2>3 DEF tls
  <2>5. \A g \in Fds : sock'[g] <= made
    BY <1>0, <2>1 DEF NameInv, TypeOK
  <2> QED
    BY <2>1, <2>4, <2>5 DEF NameInv, tls
<1>10. ASSUME NEW t \in Threads, NEW f \in Fds, Connect(t, f) \/ Traffic(t, f)
       PROVE  NameInv' /\ OwnName'
  <2>1. UNCHANGED <<sock, made, listening, sni, tls, busy>>
    BY <1>10 DEF Connect, Traffic
  <2> QED
    BY <2>1 DEF NameInv, OwnName, Usable, tls
\* A connection that is no listener is given the name noted under its descriptor.
<1>11. ASSUME NEW f \in Fds, Usable(f), sock[f] \notin listening, NEW n, NEW N,
              UNCHANGED <<sock, made, listening, busy>>,
              sni' = [sni EXCEPT ![f] = n],
              named' = [named EXCEPT ![sock[f]] = @ \cup N],
              n # 0 => n \in named[sock[f]] \cup N
       PROVE  /\ OwnName'
              /\ \A c \in Conns : c > made \/ c \in listening => named'[c] = {}
  <2>1. sock[f] \in Conns /\ sock[f] <= made
    BY <1>0, <1>11 DEF Usable, NameInv
  <2>2. \A g \in Fds : (Usable(g)' <=> Usable(g)) /\ (Usable(g) => sock[g] \in Conns)
    BY <1>0, <1>11 DEF Usable
  <2>3. /\ \A c \in Conns : named[c] \subseteq named'[c]
        /\ named'[sock[f]] = named[sock[f]] \cup N
        /\ \A c \in Conns : c # sock[f] => named'[c] = named[c]
    BY <1>11, <2>1 DEF TypeOK
  <2>4. sni'[f] = n /\ \A g \in Fds : g # f => sni'[g] = sni[g]
    BY <1>11 DEF TypeOK
  <2>5. OwnName'
    BY <1>11, <2>2, <2>3, <2>4 DEF OwnName
  <2>6. ASSUME NEW c \in Conns, c > made \/ c \in listening PROVE named'[c] = {}
    BY <1>0, <1>11, <2>1, <2>3, <2>6 DEF NameInv, Conns
  <2> QED
    BY <2>5, <2>6
<1>12. ASSUME NEW t \in Threads, NEW f \in Fds, ClientHello(t, f) PROVE NameInv' /\ OwnName'
  <2>1. PICK n \in Names : /\ sni' = [sni EXCEPT ![f] = n]
                           /\ named' = [named EXCEPT ![sock[f]] = @ \cup {n}]
    BY <1>12 DEF ClientHello
  <2>2. /\ Usable(f) /\ sock[f] \notin listening
        /\ UNCHANGED <<sock, made, listening, busy, sniBySsl, bio>>
    BY <1>12 DEF ClientHello
  <2>3. /\ OwnName'
        /\ \A c \in Conns : c > made \/ c \in listening => named'[c] = {}
    BY <1>11, <2>1, <2>2
  <2> QED
    BY <2>2, <2>3 DEF NameInv
<1>13. ASSUME NEW t \in Threads, NEW s \in Ssl, NEW f \in Fds, SslSetFd(t, s, f)
       PROVE  NameInv' /\ OwnName'
  <2>1. /\ Usable(f) /\ sock[f] \notin listening
        /\ UNCHANGED <<sock, made, listening, busy, sniBySsl>>
        /\ bio' = [bio EXCEPT ![s].fd = f, ![s].conn = sock[f]]
    BY <1>13 DEF SslSetFd
  <2>2. PICK n : n = IF sniBySsl[s] # 0 THEN sniBySsl[s] ELSE sni[f]
    OBVIOUS
  <2>3. /\ sni' = [sni EXCEPT ![f] = n]
        /\ named' = [named EXCEPT ![sock[f]] = @ \cup ({bio[s].name} \ {0})]
    BY <1>13, <2>2 DEF SslSetFd
  <2>4. n # 0 => n \in named[sock[f]] \cup ({bio[s].name} \ {0})
    BY <2>1, <2>2 DEF NameInv, OwnName
  <2>5. /\ OwnName'
        /\ \A c \in Conns : c > made \/ c \in listening => named'[c] = {}
    BY <1>11, <2>1, <2>3, <2>4
  <2>6. /\ bio'[s].name = bio[s].name /\ bio'[s].conn = sock[f] /\ bio'[s].fd = f
        /\ \A h \in Ssl : h # s => bio'[h] = bio[h]
    BY <2>1 DEF TypeOK
  <2>7. sock[f] \in Conns \ listening /\ sock[f] <= made
    BY <1>0, <2>1 DEF Usable, NameInv
  <2>8. \A h \in Ssl : /\ bio'[h].conn <= made
                       /\ bio'[h].fd # NoFd => bio'[h].conn \in Conns \ listening
                       /\ sniBySsl[h] # 0 => sniBySsl[h] = bio'[h].name
    BY <2>6, <2>7 DEF NameInv
  <2> QED
    BY <2>1, <2>5, <2>8 DEF NameInv
<1>14. ASSUME NEW t \in Threads, NEW s \in Ssl, NEW n \in Names \cup {0}, SslSetHostname(t, s, n)
       PROVE  NameInv' /\ OwnName'
  <2>1. /\ UNCHANGED <<sock, made, listening, busy>>
        /\ bio' = [bio EXCEPT ![s].name = n]
        /\ sniBySsl' = [sniBySsl EXCEPT ![s] = n]
    BY <1>14 DEF SslSetHostname
  <2>2. /\ bio'[s].name = n /\ bio'[s].conn = bio[s].conn /\ bio'[s].fd = bio[s].fd
        /\ \A h \in Ssl : h # s => bio'[h] = bio[h] /\ sniBySsl'[h] = sniBySsl[h]
        /\ sniBySsl'[s] = n
    BY <2>1 DEF TypeOK
  <2>3. \A h \in Ssl : /\ bio'[h].conn <= made
                       /\ bio'[h].fd # NoFd => bio'[h].conn \in Conns \ listening
                       /\ sniBySsl'[h] # 0 => sniBySsl'[h] = bio'[h].name
    BY <2>2 DEF NameInv
  <2>4. CASE UNCHANGED <<sni, named>>
    BY <2>1, <2>3, <2>4 DEF NameInv, OwnName, Usable
  <2>5. CASE n # 0 /\ bio[s].fd # NoFd
    <3>1. PICK f \in Fds : f = bio[s].fd
      BY <2>5 DEF TypeOK
    <3>2. /\ Usable(f) /\ sock[f] = bio[s].conn /\ sock[f] \notin listening
          /\ sni' = [sni EXCEPT ![f] = n]
          /\ named' = [named EXCEPT ![sock[f]] = @ \cup {n}]
      BY <1>14, <2>5, <3>1 DEF SslSetHostname, NameInv
    <3>3. /\ OwnName'
          /\ \A c \in Conns : c > made \/ c \in listening => named'[c] = {}
      BY <1>11, <2>1, <3>2
    <3> QED
      BY <2>1, <2>3, <3>3 DEF NameInv
  <2> QED
    BY <1>14, <2>4, <2>5 DEF SslSetHostname
<1>15. ASSUME NEW t \in Threads, NEW s \in Ssl, SslFree(t, s) PROVE NameInv' /\ OwnName'
  <2>1. /\ UNCHANGED <<sock, made, listening, busy, sni, named>>
        /\ bio' = [bio EXCEPT ![s] = NewHandle]
        /\ sniBySsl' = [sniBySsl EXCEPT ![s] = 0]
    BY <1>15 DEF SslFree, table
  <2>2. \A h \in Ssl : /\ bio'[h].conn <= made
                       /\ bio'[h].fd # NoFd => bio'[h].conn \in Conns \ listening
                       /\ sniBySsl'[h] # 0 => sniBySsl'[h] = bio'[h].name
    BY <1>0, <2>1 DEF NameInv, NewHandle, TypeOK
  <2> QED
    BY <2>1, <2>2 DEF NameInv, OwnName, Usable
<1> QED
  BY <1>2, <1>3, <1>4, <1>5, <1>6, <1>7, <1>8, <1>9, <1>10, <1>12, <1>13, <1>14, <1>15 DEF Next

-----------------------------------------------------------------------------
\* The invariant holds of every interleaving of the hooks.
THEOREM HooksInvariant == Spec => []IndInv
<1>1. IndInv /\ [Next]_vars => IndInv'
  BY TypesStep, HookStep, FlowStep, NameStep DEF IndInv
<1> QED
  BY <1>1, InitInd, PTL DEF Spec

\* The variables keep their types.
THEOREM TypeCorrect == Spec => []TypeOK
<1>1. IndInv => TypeOK
  BY DEF IndInv
<1> QED
  BY <1>1, HooksInvariant, PTL

\* What engine and runtime keep under a descriptor is about the connection behind it,
\* if the state looked at is among what clear_fd_state clears: all of it but the loss
\* state of R2.
THEOREM FlowsStayApart ==
  ASSUME Kinds \subseteq ClearedKinds
  PROVE  Spec => []OwnFlow
<1>1. IndInv => OwnFlow
  BY DEF IndInv, ClearedFlow, OwnFlow
<1> QED
  BY <1>1, HooksInvariant, PTL

\* The server name found under a descriptor was given for the connection behind it.
THEOREM NamesStayApart == Spec => []OwnName
<1>1. IndInv => OwnName
  BY DEF IndInv
<1> QED
  BY <1>1, HooksInvariant, PTL

-----------------------------------------------------------------------------
(* The refinement of FdTable, for descriptors that all have an owner entry. *)

\* What the hooks show of the table.
Shown == [f \in Fds |-> IF Usable(f) THEN owner[f] ELSE NoOwner]
InUse == {f \in Fds : Usable(f)}

\* Nothing is in use at first, as in the table.
LEMMA TableInit == Init => Table!TInit
<1> SUFFICES ASSUME Init PROVE Table!TInit
  OBVIOUS
<1>1. \A f \in Fds : ~Usable(f)
  BY DEF Init, Usable
<1> QED
  BY <1>1 DEF Table!TInit

\* Every step of a hook is a step of the table, or none: the one that gives the
\* application a descriptor creates or aliases it, the one that takes it away shuts it.
LEMMA TableStep ==
  ASSUME Tracked = Fds, TypeOK, HookInv, [Next]_vars
  PROVE  [Table!TNext]_(Table!tvars)
<1> USE FdAssumption DEF InUse, Shown
\* A step that changes neither what is in use nor its owners is none of the table's.
<1>0. ASSUME \A g \in Fds : Usable(g)' <=> Usable(g),
             \A g \in Fds : Usable(g) => owner'[g] = owner[g]
      PROVE  [Table!TNext]_(Table!tvars)
  <2>1. InUse' = InUse /\ Shown' = Shown
    BY <1>0
  <2> QED
    BY <2>1 DEF Table!tvars
<1>1. CASE UNCHANGED vars
  BY <1>0, <1>1 DEF vars, Usable
<1>2. ASSUME NEW t \in Threads, NEW f \in Fds, SocketCall(t, f)
      PROVE  [Table!TNext]_(Table!tvars)
  <2>1. owner' = owner
    BY <1>2 DEF SocketCall, table
  <2> QED
    BY <1>0, <1>2, <2>1, UsableAfter
<1>3. ASSUME NEW t \in Threads, NEW s \in Fds, NEW f \in Fds,
             AcceptCall(t, s, f) \/ DupCall(t, s, f)
      PROVE  [Table!TNext]_(Table!tvars)
  <2>1. owner' = owner
    BY <1>3 DEF AcceptCall, DupCall, table
  <2> QED
    BY <1>0, <1>3, <2>1, UsableAfter
<1>4. ASSUME NEW t \in Threads, NEW s \in Fds, NEW f \in Fds, Dup2Call(t, s, f)
      PROVE  [Table!TNext]_(Table!tvars)
  <2>1. owner' = owner /\ Usable(f)
    BY <1>4 DEF Dup2Call, table, Usable, InHook
  <2>2. \A g \in Fds : Usable(g)' <=> Usable(g) /\ (g # f \/ f = s)
    BY <1>4, UsableAfter
  <2>3. CASE f = s
    BY <1>0, <2>1, <2>2, <2>3
  <2>4. CASE f # s
    <3>1. InUse' = InUse \ {f} /\ Shown' = [Shown EXCEPT ![f] = NoOwner]
      BY <2>1, <2>2, <2>4
    <3>2. Table!Shut(f)
      BY <2>1, <3>1 DEF Table!Shut
    <3> QED
      BY <3>2 DEF Table!TNext
  <2> QED
    BY <2>3, <2>4
<1>5. ASSUME NEW t \in Threads, SocketBind(t) PROVE [Table!TNext]_(Table!tvars)
  <2>0. PICK f \in Fds : f = busy[t].fd
    BY <1>5 DEF SocketBind, HookInv, BusyInv
  <2>1. owner' = [owner EXCEPT ![f] = t] /\ ~Usable(f)
    BY <1>5, <2>0 DEF SocketBind, Assign, HookInv, BusyInv, Usable
  <2>2. \A g \in Fds : Usable(g)' <=> Usable(g) \/ g = f
    BY <1>5, <2>0, UsableAfter
  <2>3. InUse' = InUse \cup {f} /\ Shown' = [Shown EXCEPT ![f] = t]
    BY <2>1, <2>2, ZenonT(40) DEF TypeOK
  <2>4. Table!Create(f, t)
    BY <2>1, <2>3 DEF Table!Create
  <2> QED
    BY <2>4 DEF Table!TNext
<1>6. ASSUME NEW t \in Threads, CloneBind(t) PROVE [Table!TNext]_(Table!tvars)
  <2>0. PICK f \in Fds, s \in Fds : f = busy[t].fd /\ s = busy[t].from
    BY <1>6 DEF CloneBind, HookInv, BusyInv
  <2>1. owner' = [owner EXCEPT ![f] = owner[s]] /\ Usable(s)
    BY <1>6, <2>0 DEF CloneBind, CloneBinding, HookInv, BusyInv
  <2>2. \A g \in Fds : Usable(g)' <=> Usable(g) \/ g = f
    BY <1>6, <2>0, UsableAfter
  <2>3. CASE f = s
    BY <1>0, <2>1, <2>2, <2>3 DEF TypeOK
  <2>4. CASE f # s
    <3>1. ~Usable(f)
      BY <2>0, <2>4 DEF Usable
    <3>2. InUse' = InUse \cup {f} /\ Shown' = [Shown EXCEPT ![f] = Shown[s]]
      BY <2>1, <2>2, <2>4, <3>1, ZenonT(40) DEF TypeOK
    <3>3. Table!Alias(f, s)
      BY <2>1, <3>1, <3>2 DEF Table!Alias
    <3> QED
      BY <3>3 DEF Table!TNext
  <2> QED
    BY <2>3, <2>4
<1>7. ASSUME NEW t \in Threads, NEW f \in Fds, CloseClear(t, f)
      PROVE  [Table!TNext]_(Table!tvars)
  <2>1. Usable(f) /\ \A g \in Fds : g # f => owner'[g] = owner[g]
    BY <1>7 DEF CloseClear, TypeOK
  <2>2. \A g \in Fds : Usable(g)' <=> Usable(g) /\ g # f
    BY <1>7, UsableAfter
  <2>3. InUse' = InUse \ {f} /\ Shown' = [Shown EXCEPT ![f] = NoOwner]
    BY <2>1, <2>2
  <2>4. Table!Shut(f)
    BY <2>1, <2>3 DEF Table!Shut
  <2> QED
    BY <2>4 DEF Table!TNext
<1>8. ASSUME NEW t \in Threads, CloseCall(t) PROVE [Table!TNext]_(Table!tvars)
  <2>1. owner' = owner
    BY <1>8 DEF CloseCall, table
  <2> QED
    BY <1>0, <1>8, <2>1, UsableAfter
<1>9. ASSUME NEW t \in Threads, NEW f \in Fds, Connect(t, f)
      PROVE  [Table!TNext]_(Table!tvars)
  <2>1. Usable(f) /\ owner' = [owner EXCEPT ![f] = t] /\ UNCHANGED <<sock, busy>>
    BY <1>9 DEF Connect, Assign
  <2>2. \A g \in Fds : Usable(g)' <=> Usable(g)
    BY <2>1 DEF Usable
  <2>3. InUse' = InUse /\ Shown' = [Shown EXCEPT ![f] = t]
    BY <2>1, <2>2, ZenonT(40) DEF TypeOK
  <2>4. Table!Rebind(f, t)
    BY <2>1, <2>3 DEF Table!Rebind
  <2> QED
    BY <2>4 DEF Table!TNext
<1>10. ASSUME UNCHANGED <<sock, busy, owner>> PROVE [Table!TNext]_(Table!tvars)
  BY <1>0, <1>10 DEF Usable
<1>11. ASSUME NEW t \in Threads, NEW f \in Fds, Traffic(t, f) \/ ClientHello(t, f)
       PROVE  UNCHANGED <<sock, busy, owner>>
  BY <1>11 DEF Traffic, ClientHello
<1>12. ASSUME NEW t \in Threads, NEW s \in Ssl,
              \/ \E f \in Fds : SslSetFd(t, s, f)
              \/ \E n \in Names \cup {0} : SslSetHostname(t, s, n)
              \/ SslFree(t, s)
       PROVE  UNCHANGED <<sock, busy, owner>>
  BY <1>12 DEF SslSetFd, SslSetHostname, SslFree, table
<1> QED
  BY <1>1, <1>2, <1>3, <1>4, <1>5, <1>6, <1>7, <1>8, <1>9, <1>10, <1>11, <1>12 DEF Next

\* The hooks implement the owner table in which every creation, alias, connect() and
\* close is one step, although each is a system call and bookkeeping with other
\* threads in between.
THEOREM HooksImplementTable ==
  ASSUME Tracked = Fds
  PROVE  Spec => OwnerBinding
<1>1. IndInv /\ [Next]_vars => [Table!TNext]_(Table!tvars)
  BY TableStep DEF IndInv
<1> QED
  BY <1>1, TableInit, HooksInvariant, PTL DEF Spec, OwnerBinding, Table!TSpec
=============================================================================
