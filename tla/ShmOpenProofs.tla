--------------------------- MODULE ShmOpenProofs ---------------------------
(***************************************************************************)
(* Proofs about ShmOpen, for every set of processes, threads, creators and *)
(* descriptors and any number of processes that end.                       *)
(***************************************************************************)
EXTENDS ShmOpen, TLAPS

ProcType == [initialized : BOOLEAN, pointer : BOOLEAN, open : BOOLEAN, mappings : Nat]

\* The types TypeOK leaves to the initial state.
Types ==
  /\ segment \in {"absent", "empty", "sized"}
  /\ owner \in [Fds -> Slots \cup {None}]
  /\ proc \in [Processes -> ProcType]
  /\ pc \in [Threads -> {"idle", "lock", "act"} \cup Opening]
  /\ job \in [Threads -> [op : Operations \cup {"none"}, fd : Fds \cup {None}]]
  /\ \A t \in Threads : pc[t] # "idle" => job[t].op \in Operations /\ job[t].fd \in Fds
  /\ exits \in 0 .. MaxExits
  /\ faults \in 0 .. MaxFaults
  /\ bound \in [Processes -> [Fds -> Slots \cup {None}]]
  /\ used \in [Threads -> Slots \cup {None}]

Closed(p) == proc[p].mappings = 0 /\ ~proc[p].pointer /\ ~proc[p].open
Mapped(p) == proc[p].mappings = 1 /\ ~proc[p].pointer /\ ~proc[p].open
Pointed(p) == proc[p].mappings = 1 /\ proc[p].pointer /\ ~proc[p].open
Opened(p) == proc[p].mappings = 1 /\ proc[p].pointer /\ proc[p].open

\* SHM_INIT_LOCK excludes: one thread of a process opens the segment.
OneOpener ==
  \A t, u \in Threads :
    Home[t] = Home[u] /\ pc[t] \in Opening /\ pc[u] \in Opening => t = u

\* What the thread that opens the segment has done so far.
Progress ==
  \A t \in Threads :
    /\ pc[t] \in {"create", "size", "map"} => Closed(Home[t])
    /\ pc[t] \in {"wipe", "publish"} => Mapped(Home[t])
    /\ pc[t] = "wipe" => Home[t] \in Creators
    /\ pc[t] = "flag" => Pointed(Home[t])
    /\ pc[t] \in {"map", "wipe", "publish", "flag"} => segment = "sized"

\* A process is between two of those steps only while a thread of it is.
Between ==
  \A p \in Processes :
    \/ Closed(p)
    \/ Mapped(p) /\ \E t \in Threads : Home[t] = p /\ pc[t] \in {"wipe", "publish"}
    \/ Pointed(p) /\ \E t \in Threads : Home[t] = p /\ pc[t] = "flag"
    \/ Opened(p)

SizedInv == \A p \in Processes : proc[p].mappings > 0 => segment = "sized"

\* Without a pointer a process has bound nothing.
Unbound ==
  \A p \in Processes : ~proc[p].pointer => \A f \in Fds : bound[p][f] = None

\* No entry of the table is one of the zeros of a new segment.
Clean == \A f \in Fds : owner[f] = None \/ \E u \in Threads : SlotOf[u] = owner[f]

\* The table is clean from the wipe of the first creator on.
CleanInv ==
  /\ \A p \in Creators : proc[p].pointer => Clean
  /\ \A t \in Threads : Home[t] \in Creators /\ pc[t] = "publish" => Clean

OpenInv == OneOpener /\ Progress /\ Between /\ SizedInv

IndInv == Types /\ OpenInv /\ Unbound /\ BoundStays /\ CleanInv /\ NoPhantom

-----------------------------------------------------------------------------
\* The initial state satisfies the invariant.
LEMMA InitInd == Init => IndInv
<1> SUFFICES ASSUME Init PROVE IndInv
  OBVIOUS
<1> USE OpenAssumption DEF Init
<1>1. Types
  BY DEF Types, ProcType, Slots, None, Fresh, NoJob, Opening, Operations
<1>2. \A t \in Threads : pc[t] = "idle" /\ Home[t] \in Processes
  OBVIOUS
<1>3. \A p \in Processes : Closed(p)
  BY DEF Closed, Fresh
<1>4. OpenInv
  BY <1>2, <1>3 DEF OpenInv, OneOpener, Progress, Between, SizedInv, Opening, Closed
<1>5. Unbound /\ BoundStays
  BY DEF Unbound, BoundStays
<1>6. CleanInv /\ NoPhantom
  BY <1>2 DEF CleanInv, Clean, NoPhantom
<1> QED
  BY <1>1, <1>4, <1>5, <1>6 DEF IndInv

\* What a process can be: not mapped, or mapped by the thread that is opening the
\* segment, or open.
LEMMA ProcStates ==
  ASSUME OpenInv, NEW p \in Processes
  PROVE  /\ proc[p].mappings \in {0, 1}
         /\ proc[p].open => proc[p].pointer
         /\ proc[p].pointer => proc[p].mappings = 1
         /\ proc[p].mappings = 1 => segment = "sized"
<1>1. Closed(p) \/ Mapped(p) \/ Pointed(p) \/ Opened(p)
  BY DEF OpenInv, Between
<1>2. proc[p].mappings > 0 => segment = "sized"
  BY DEF OpenInv, SizedInv
<1> QED
  BY <1>1, <1>2 DEF Closed, Mapped, Pointed, Opened

\* Every action keeps the types.
LEMMA TypesStep ==
  ASSUME Types, OpenInv, [Next]_vars
  PROVE  Types'
<1> USE OpenAssumption DEF Types, ProcType, ProcType
<1>0. CASE UNCHANGED vars
  BY <1>0 DEF vars
<1>1. ASSUME NEW t \in Threads, Begin(t) PROVE Types'
  <2>1. PICK op \in Operations, f \in Fds :
          /\ job' = [job EXCEPT ![t] = [op |-> op, fd |-> f]]
          /\ Goto(t, IF MustOpen(Home[t], op) THEN "lock" ELSE "act")
    BY <1>1 DEF Begin
  <2>2. proc' \in [Processes -> ProcType]
    <3>1. Home[t] \in Processes /\ proc[Home[t]] \in ProcType
      OBVIOUS
    <3>2. [proc[Home[t]] EXCEPT !.initialized = TRUE] \in ProcType
      BY <3>1
    <3> QED
      BY <1>1, <3>1, <3>2 DEF Begin
  <2>3. /\ pc' \in [Threads -> {"idle", "lock", "act"} \cup Opening]
        /\ job' \in [Threads -> [op : Operations \cup {"none"}, fd : Fds \cup {None}]]
        /\ \A u \in Threads : pc'[u] # "idle" => job'[u].op \in Operations /\ job'[u].fd \in Fds
    BY <2>1 DEF Goto
  <2> QED
    BY <1>1, <2>2, <2>3 DEF Begin
<1>2. ASSUME NEW t \in Threads, Lock(t) PROVE Types'
  BY <1>2 DEF Lock, Goto, Opening, history
<1>3. ASSUME NEW t \in Threads, Create(t) PROVE Types'
  BY <1>3 DEF Create, Goto, Opening, history
<1>4. ASSUME NEW t \in Threads, Size(t) PROVE Types'
  <2>1. segment' \in {"absent", "empty", "sized"}
    BY <1>4 DEF Size
  <2>2. owner' \in [Fds -> Slots \cup {None}]
    <3>1. [f \in Fds |-> 0] \in [Fds -> Slots \cup {None}]
      BY DEF Slots
    <3> QED
      BY <1>4, <3>1 DEF Size
  <2>3. pc' \in [Threads -> {"idle", "lock", "act"} \cup Opening]
    BY <1>4 DEF Size, Goto, Opening
  <2>4. \A u \in Threads : pc'[u] # "idle" => job'[u].op \in Operations /\ job'[u].fd \in Fds
    BY <1>4 DEF Size, Goto
  <2> QED
    BY <1>4, <2>1, <2>2, <2>3, <2>4 DEF Size, history
<1>5. ASSUME NEW t \in Threads, Map(t) PROVE Types'
  <2>1. Following(Home[t], "map") \in Opening
    BY DEF Following, Opening
  <2>2. pc' \in [Threads -> {"idle", "lock", "act"} \cup Opening]
    BY <1>5, <2>1 DEF Map, Goto
  <2>3. proc' \in [Processes -> ProcType]
    <3>1. Home[t] \in Processes /\ proc[Home[t]] \in ProcType
      OBVIOUS
    <3>2. proc[Home[t]].mappings + 1 \in Nat
      BY <3>1
    <3>3. [proc[Home[t]] EXCEPT !.mappings = proc[Home[t]].mappings + 1] \in ProcType
      BY <3>1, <3>2
    <3> QED
      BY <1>5, <3>1, <3>3 DEF Map
  <2>4. \A u \in Threads : pc'[u] # "idle" => job'[u].op \in Operations /\ job'[u].fd \in Fds
    BY <1>5 DEF Map, Goto
  <2> QED
    BY <1>5, <2>2, <2>3, <2>4 DEF Map, history
<1>6. ASSUME NEW t \in Threads, Wipe(t) PROVE Types'
  BY <1>6 DEF Wipe, Goto, Opening, Following
<1>7. ASSUME NEW t \in Threads, Publish(t) PROVE Types'
  BY <1>7, ZenonT(40) DEF Publish, Goto, Opening, history, Following
<1>8. ASSUME NEW t \in Threads, Flag(t) PROVE Types'
  BY <1>8, ZenonT(40) DEF Flag, Goto, Opening, history
<1>9. ASSUME NEW t \in Threads, Assign(t) PROVE Types'
  <2>1. SlotOf[t] \in Slots /\ job[t].fd \in Fds /\ Home[t] \in Processes
    BY <1>9 DEF Assign, Slots
  <2>2. owner' \in [Fds -> Slots \cup {None}]
    BY <1>9, <2>1 DEF Assign
  <2>3. bound' \in [Processes -> [Fds -> Slots \cup {None}]]
    <3>1. \A slot \in Slots \cup {None} :
            [bound[Home[t]] EXCEPT ![job[t].fd] = slot] \in [Fds -> Slots \cup {None}]
      BY <2>1
    <3>2. \/ bound' = bound
          \/ \E slot \in Slots \cup {None} : bound' = [bound EXCEPT ![Home[t]][job[t].fd] = slot]
      BY <1>9, <2>1 DEF Assign
    <3>3. ASSUME NEW slot \in Slots \cup {None},
                 bound' = [bound EXCEPT ![Home[t]][job[t].fd] = slot]
          PROVE  bound' \in [Processes -> [Fds -> Slots \cup {None}]]
      <4> DEFINE row == [bound[Home[t]] EXCEPT ![job[t].fd] = slot]
      <4>1. row \in [Fds -> Slots \cup {None}]
        BY <3>1
      <4>2. bound' = [bound EXCEPT ![Home[t]] = row]
        BY <3>3
      <4> HIDE DEF row
      <4> QED
        BY <2>1, <4>1, <4>2
    <3> QED
      BY <3>2, <3>3
  <2> QED
    BY <1>9, <2>2, <2>3 DEF Assign, Return, Goto, NoJob
<1>10. ASSUME NEW t \in Threads, Resolve(t) PROVE Types'
  BY <1>10 DEF Resolve, Return, Goto, NoJob, Opening
<1>11. ASSUME NEW p \in Processes, Exit(p) PROVE Types'
  BY <1>11 DEF Exit, Fresh, NoJob, Opening, Operations
<1>12. ASSUME NEW t \in Threads, CallFails(t) PROVE Types'
  BY <1>12 DEF CallFails, Goto, Opening, history
<1> QED
  BY <1>0, <1>1, <1>2, <1>3, <1>4, <1>5, <1>6, <1>7, <1>8, <1>9, <1>10, <1>11, <1>12
     DEF Next, Step

\* Every action keeps the order in which a process opens the segment.
LEMMA OpenStep ==
  ASSUME Types, Types', OpenInv, [Next]_vars
  PROVE  OpenInv'
<1> USE OpenAssumption DEF Types, ProcType, OpenInv, OneOpener, Progress, Between, SizedInv,
                           Closed, Mapped, Pointed, Opened, Opening
<1>0. CASE UNCHANGED vars
  BY <1>0 DEF vars
<1>1. ASSUME NEW t \in Threads, Begin(t) PROVE OpenInv'
  BY <1>1 DEF Begin, Goto
<1>2. ASSUME NEW t \in Threads, Lock(t) PROVE OpenInv'
  BY <1>2 DEF Lock, Goto, Recheck
<1>3. ASSUME NEW t \in Threads, Create(t) PROVE OpenInv'
  <2>1. OneOpener'
    BY <1>3 DEF Create, Goto
  <2>2. Progress'
    BY <1>3 DEF Create, Goto
  <2>3. Between'
    <3>1. proc' = proc /\ \A u \in Threads : u # t => pc'[u] = pc[u]
      BY <1>3 DEF Create, Goto
    <3>2. pc[t] \notin {"wipe", "publish", "flag"}
      BY <1>3 DEF Create
    <3>3. \A p \in Processes :
           /\ (\E u \in Threads : Home[u] = p /\ pc[u] \in {"wipe", "publish"})
                => \E u \in Threads : Home[u] = p /\ pc'[u] \in {"wipe", "publish"}
           /\ (\E u \in Threads : Home[u] = p /\ pc[u] = "flag")
                => \E u \in Threads : Home[u] = p /\ pc'[u] = "flag"
      BY <3>1, <3>2
    <3>4. \A p \in Processes : /\ Closed(p)' <=> Closed(p)
                               /\ Mapped(p)' <=> Mapped(p)
                               /\ Pointed(p)' <=> Pointed(p)
                               /\ Opened(p)' <=> Opened(p)
      BY <3>1
    <3> HIDE DEF Types, Closed, Mapped, Pointed, Opened
    <3> QED
      BY <3>3, <3>4
  <2>4. SizedInv'
    BY <1>3 DEF Create
  <2> QED
    BY <2>1, <2>2, <2>3, <2>4
<1>4. ASSUME NEW t \in Threads, Size(t) PROVE OpenInv'
  <2>1. OneOpener'
    BY <1>4 DEF Size, Goto
  <2>2. Progress'
    BY <1>4 DEF Size, Goto
  <2>3. Between'
    <3>1. proc' = proc /\ \A u \in Threads : u # t => pc'[u] = pc[u]
      BY <1>4 DEF Size, Goto
    <3>2. pc[t] \notin {"wipe", "publish", "flag"}
      BY <1>4 DEF Size
    <3>3. \A p \in Processes :
           /\ (\E u \in Threads : Home[u] = p /\ pc[u] \in {"wipe", "publish"})
                => \E u \in Threads : Home[u] = p /\ pc'[u] \in {"wipe", "publish"}
           /\ (\E u \in Threads : Home[u] = p /\ pc[u] = "flag")
                => \E u \in Threads : Home[u] = p /\ pc'[u] = "flag"
      BY <3>1, <3>2
    <3>4. \A p \in Processes : /\ Closed(p)' <=> Closed(p)
                               /\ Mapped(p)' <=> Mapped(p)
                               /\ Pointed(p)' <=> Pointed(p)
                               /\ Opened(p)' <=> Opened(p)
      BY <3>1
    <3> HIDE DEF Types, Closed, Mapped, Pointed, Opened
    <3> QED
      BY <3>3, <3>4
  <2>4. SizedInv'
    BY <1>4 DEF Size
  <2> QED
    BY <2>1, <2>2, <2>3, <2>4
<1>5. ASSUME NEW t \in Threads, Map(t) PROVE OpenInv'
  BY <1>5 DEF Map, Goto, Following
<1>6. ASSUME NEW t \in Threads, Wipe(t) PROVE OpenInv'
  BY <1>6 DEF Wipe, Goto, Following
<1>7. ASSUME NEW t \in Threads, Publish(t) PROVE OpenInv'
  BY <1>7 DEF Publish, Goto, Following
<1>8. ASSUME NEW t \in Threads, Flag(t) PROVE OpenInv'
  BY <1>8 DEF Flag, Goto
<1>9. ASSUME NEW t \in Threads, Assign(t) PROVE OpenInv'
  BY <1>9 DEF Assign, Return, Goto, NoJob
<1>10. ASSUME NEW t \in Threads, Resolve(t) PROVE OpenInv'
  BY <1>10 DEF Resolve, Return, Goto, NoJob
<1>11. ASSUME NEW p \in Processes, Exit(p) PROVE OpenInv'
  BY <1>11 DEF Exit, Fresh
<1>12. ASSUME NEW t \in Threads, CallFails(t) PROVE OpenInv'
  BY <1>12 DEF CallFails, Goto
<1> QED
  BY <1>0, <1>1, <1>2, <1>3, <1>4, <1>5, <1>6, <1>7, <1>8, <1>9, <1>10, <1>11, <1>12
     DEF Next, Step

\* Every action keeps the entries a process has bound.
LEMMA BoundStep ==
  ASSUME Types, Types', OpenInv, Unbound, BoundStays, [Next]_vars
  PROVE  Unbound' /\ BoundStays'
<1> USE OpenAssumption DEF Types, ProcType, Unbound, BoundStays
<1>0. CASE UNCHANGED vars
  BY <1>0 DEF vars
<1>1. CASE \E t \in Threads : Begin(t)
  BY <1>1 DEF Begin
<1>2. ASSUME NEW t \in Threads, \/ Lock(t) \/ Create(t) \/ Map(t) \/ Publish(t) \/ Flag(t)
                              \/ CallFails(t)
      PROVE  Unbound' /\ BoundStays'
  <2>1. UNCHANGED history /\ owner' = owner
    BY <1>2 DEF Lock, Create, Map, Publish, Flag, CallFails
  <2>2. \A p \in Processes : proc[p].pointer => proc'[p].pointer
    <3>1. CASE Lock(t) \/ Create(t) \/ CallFails(t)
      BY <3>1 DEF Lock, Create, CallFails
    <3>2. CASE Map(t)
      BY <3>2 DEF Map
    <3>3. CASE Publish(t)
      BY <3>3 DEF Publish
    <3>4. CASE Flag(t)
      BY <3>4 DEF Flag
    <3> QED
      BY <1>2, <3>1, <3>2, <3>3, <3>4
  <2> QED
    BY <2>1, <2>2 DEF history
<1>3. ASSUME NEW t \in Threads, Size(t) PROVE Unbound' /\ BoundStays'
  <2>1. segment = "empty" => \A p \in Processes : ~proc[p].pointer
    BY ProcStates
  <2> QED
    BY <1>3, <2>1 DEF Size, history
<1>4. ASSUME NEW t \in Threads, Wipe(t) PROVE Unbound' /\ BoundStays'
  <2>1. ~proc[Home[t]].pointer
    BY <1>4 DEF Wipe, OpenInv, Progress, Mapped
  <2>2. \A q \in Processes, f \in Fds : q # Home[t] => <<q, f>> \in strange'
    BY <1>4 DEF Wipe, Foreign
  <2> QED
    BY <1>4, <2>1, <2>2 DEF Wipe
<1>5. ASSUME NEW t \in Threads, Assign(t) PROVE Unbound' /\ BoundStays'
  <2>1. CASE ~proc[Home[t]].pointer
    BY <1>5, <2>1 DEF Assign
  <2>2. CASE proc[Home[t]].pointer
    <3> DEFINE p == Home[t]
               f == job[t].fd
    <3>1. p \in Processes /\ f \in Fds /\ proc' = proc
      BY <1>5 DEF Assign
    <3>2. PICK slot : /\ owner' = [owner EXCEPT ![f] = slot]
                      /\ bound' = [bound EXCEPT ![p][f] = slot]
      BY <1>5, <2>2 DEF Assign
    <3>3. strange' = (strange \ {<<p, f>>}) \cup Foreign(p, {f})
      BY <1>5, <2>2 DEF Assign
    <3>4. \A q \in Processes : q # p => <<q, f>> \in strange'
      BY <3>3 DEF Foreign
    <3>5. \A q \in Processes, g \in Fds :
            <<q, g>> \notin strange' /\ g # f => <<q, g>> \notin strange
      BY <3>3
    <3>6. Unbound'
      BY <2>2, <3>1, <3>2
    <3>7. ASSUME NEW q \in Processes, NEW g \in Fds,
                 bound'[q][g] # None, <<q, g>> \notin strange'
          PROVE  owner'[g] = bound'[q][g]
      <4>1. CASE g = f
        BY <3>1, <3>2, <3>4, <3>7, <4>1
      <4>2. CASE g # f
        BY <3>1, <3>2, <3>5, <3>7, <4>2
      <4> QED
        BY <4>1, <4>2
    <3> QED
      BY <3>6, <3>7
  <2> QED
    BY <2>1, <2>2
<1>6. CASE \E t \in Threads : Resolve(t)
  BY <1>6 DEF Resolve
<1>7. ASSUME NEW p \in Processes, Exit(p) PROVE Unbound' /\ BoundStays'
  <2>1. \A q \in Processes, f \in Fds : <<q, f>> \notin strange' /\ q # p => <<q, f>> \notin strange
    BY <1>7 DEF Exit
  <2> QED
    BY <1>7, <2>1 DEF Exit
<1> QED
  BY <1>0, <1>1, <1>2, <1>3, <1>4, <1>5, <1>6, <1>7 DEF Next, Step

\* Every action keeps a creator's table clean, and what its look-ups find.
LEMMA CleanStep ==
  ASSUME Types, Types', OpenInv, CleanInv, NoPhantom, [Next]_vars
  PROVE  CleanInv' /\ NoPhantom'
<1> USE OpenAssumption DEF Types, ProcType, ProcType
<1>0. CASE UNCHANGED vars
  BY <1>0 DEF vars, CleanInv, Clean, NoPhantom
<1>1. ASSUME NEW t \in Threads, Begin(t) PROVE CleanInv' /\ NoPhantom'
  BY <1>1 DEF Begin, Goto, CleanInv, Clean, NoPhantom
<1>2. ASSUME NEW t \in Threads, Lock(t) \/ Create(t) \/ CallFails(t) PROVE CleanInv' /\ NoPhantom'
  <2>1. UNCHANGED <<owner, proc, used>>
    BY <1>2 DEF Lock, Create, CallFails, history
  <2>2. \A u \in Threads : pc'[u] = "publish" => pc[u] = "publish"
    BY <1>2 DEF Lock, Create, CallFails, Goto
  <2> QED
    BY <2>1, <2>2 DEF CleanInv, Clean, NoPhantom
<1>3. ASSUME NEW t \in Threads, Size(t) PROVE CleanInv' /\ NoPhantom'
  <2>1. NoPhantom'
    BY <1>3 DEF Size, history, NoPhantom
  <2>2. CASE segment = "empty"
    <3>1. \A p \in Processes : ~proc[p].pointer
      BY <2>2, ProcStates
    <3>2. \A u \in Threads : pc[u] # "publish"
      BY <2>2 DEF OpenInv, Progress
    <3>3. proc' = proc /\ \A u \in Threads : pc'[u] # "publish"
      BY <1>3, <3>2 DEF Size, Goto
    <3> QED
      BY <2>1, <3>1, <3>3 DEF CleanInv
  <2>3. CASE segment # "empty"
    <3>1. owner' = owner /\ proc' = proc
      BY <1>3, <2>3 DEF Size
    <3>2. \A u \in Threads : pc'[u] = "publish" => pc[u] = "publish"
      BY <1>3 DEF Size, Goto
    <3> QED
      BY <2>1, <3>1, <3>2 DEF CleanInv, Clean
  <2> QED
    BY <2>2, <2>3
<1>4. ASSUME NEW t \in Threads, Map(t) PROVE CleanInv' /\ NoPhantom'
  BY <1>4 DEF Map, Goto, Following, history, CleanInv, Clean, NoPhantom
<1>5. ASSUME NEW t \in Threads, Wipe(t) PROVE CleanInv' /\ NoPhantom'
  BY <1>5 DEF Wipe, CleanInv, Clean, NoPhantom
<1>6. ASSUME NEW t \in Threads, Publish(t) PROVE CleanInv' /\ NoPhantom'
  BY <1>6 DEF Publish, Goto, Following, history, CleanInv, Clean, NoPhantom
<1>7. ASSUME NEW t \in Threads, Flag(t) PROVE CleanInv' /\ NoPhantom'
  BY <1>7 DEF Flag, Goto, history, CleanInv, Clean, NoPhantom
<1>8. ASSUME NEW t \in Threads, Assign(t) PROVE CleanInv' /\ NoPhantom'
  <2>1. Clean => Clean'
    BY <1>8, SMTT(40) DEF Assign, Clean
  <2> QED
    BY <1>8, <2>1 DEF Assign, Return, Goto, NoJob, CleanInv, NoPhantom
<1>9. ASSUME NEW t \in Threads, Resolve(t) PROVE CleanInv' /\ NoPhantom'
  <2>1. CleanInv'
    BY <1>9 DEF Resolve, Return, Goto, NoJob, CleanInv, Clean
  <2>2. job[t].fd \in Fds
    BY <1>9 DEF Resolve
  <2>3. Home[t] \in Creators /\ used'[t] # None => \E u \in Threads : SlotOf[u] = used'[t]
    BY <1>9, <2>2 DEF Resolve, CleanInv, Clean
  <2>4. \A u \in Threads : u # t => used'[u] = used[u]
    BY <1>9 DEF Resolve
  <2> QED
    BY <2>1, <2>3, <2>4 DEF NoPhantom
<1>10. ASSUME NEW p \in Processes, Exit(p) PROVE CleanInv' /\ NoPhantom'
  BY <1>10 DEF Exit, Fresh, CleanInv, Clean, NoPhantom
<1> QED
  BY <1>0, <1>1, <1>2, <1>3, <1>4, <1>5, <1>6, <1>7, <1>8, <1>9, <1>10 DEF Next, Step

-----------------------------------------------------------------------------
\* The invariant holds for as long as the processes run, end and start again.
THEOREM OpenInvariant == Spec => []IndInv
<1>1. IndInv /\ [Next]_vars => IndInv'
  BY TypesStep, OpenStep, BoundStep, CleanStep DEF IndInv
<1> QED
  BY <1>1, InitInd, PTL DEF Spec

\* The variables keep their types, in particular an open process has its pointer and
\* a mapped segment has its size.
THEOREM TypeCorrect == Spec => []TypeOK
<1>1. ASSUME IndInv PROVE TypeOK
  <2>1. /\ Types
        /\ \A p \in Processes : /\ proc[p].open => proc[p].pointer
                                /\ proc[p].pointer => proc[p].mappings > 0
                                /\ proc[p].mappings > 0 => segment = "sized"
    BY <1>1, ProcStates DEF IndInv
  <2>2. \A p \in Processes : proc[p].initialized \in BOOLEAN /\ proc[p].mappings \in Nat
    BY <2>1 DEF Types, ProcType
  <2> QED
    BY <2>1, <2>2 DEF Types, TypeOK
<1> QED
  BY <1>1, OpenInvariant, PTL

\* A process maps the segment at most once: the second is_shm_open under
\* SHM_INIT_LOCK stops every thread that lost the race.
THEOREM MapsOnce == Spec => []MappedOnce
<1>1. IndInv => MappedOnce
  BY ProcStates DEF IndInv, MappedOnce
<1> QED
  BY <1>1, OpenInvariant, PTL

\* A descriptor a process has bound keeps that owner until another process writes
\* its entry: no opening thread of the process itself wipes it.
THEOREM BindingsStay == Spec => []BoundStays
<1>1. IndInv => BoundStays
  BY DEF IndInv
<1> QED
  BY <1>1, OpenInvariant, PTL

\* A creator never takes the zeros of a new segment for an owner: its table is wiped
\* before its pointer is set.
THEOREM CreatorSeesNoPhantom == Spec => []NoPhantom
<1>1. IndInv => NoPhantom
  BY DEF IndInv
<1> QED
  BY <1>1, OpenInvariant, PTL
============================================================================
