------------------------- MODULE PolicyScopeProofs -------------------------
(***************************************************************************)
(* Proofs about PolicyScope, for every set of flows, threads, policies and *)
(* context objects.                                                        *)
(***************************************************************************)
EXTENDS PolicyScope, SequenceTheorems, TLAPS

-----------------------------------------------------------------------------
(* The call stacks: how the actions change them, frame by frame.           *)

\* A frame is pushed: those below it stay, wrappers waiting.
Grown(f, frame) ==
  /\ calls' \in [Flows -> Seq(Frame)]
  /\ \A g \in Flows : g # f => calls'[g] = calls[g]
  /\ Len(calls[f]) \in Nat /\ Len(calls'[f]) = Len(calls[f]) + 1
  /\ calls'[f][Len(calls[f]) + 1] = frame
  /\ \A i \in 1 .. Len(calls[f]) :
       calls'[f][i] = IF calls[f][i].role = "wrapper"
                      THEN [calls[f][i] EXCEPT !.phase = "waiting"] ELSE calls[f][i]

\* The top frame is replaced.
Retopped(f, frame) ==
  /\ calls' \in [Flows -> Seq(Frame)]
  /\ \A g \in Flows : g # f => calls'[g] = calls[g]
  /\ Len(calls[f]) \in Nat /\ Len(calls'[f]) = Len(calls[f])
  /\ calls'[f][Len(calls[f])] = frame
  /\ \A i \in 1 .. Len(calls[f]) - 1 : calls'[f][i] = calls[f][i]

\* Only the lowest k frames are left.
Cut(f, k) ==
  /\ calls' \in [Flows -> Seq(Frame)]
  /\ \A g \in Flows : g # f => calls'[g] = calls[g]
  /\ Len(calls[f]) \in Nat /\ Len(calls'[f]) = k
  /\ \A i \in 1 .. k : calls'[f][i] = calls[f][i]

\* That is what Push does.
LEMMA Pushing ==
  ASSUME TypeOK, NEW f \in Flows, NEW frame \in Frame, Push(f, frame)
  PROVE  Grown(f, frame)
<1>1. PICK s \in Seq(Frame) : s = calls[f]
  BY DEF TypeOK
<1>2. Len(s) \in Nat /\ DOMAIN s = 1 .. Len(s)
  BY LenProperties
<1>3. PICK l \in Nat : l = Len(s) /\ DOMAIN s = 1 .. l
  BY <1>2
<1>4. \A i \in 1 .. l : s[i] \in Frame
  BY <1>3, ElementOfSeq
<1> DEFINE r == [i \in DOMAIN s |-> IF s[i].role = "wrapper"
                                   THEN [s[i] EXCEPT !.phase = "waiting"] ELSE s[i]]
<1>5. ASSUME NEW i \in 1 .. l PROVE r[i] \in Frame
  <2>1. s[i] \in Frame /\ [s[i] EXCEPT !.phase = "waiting"] \in Frame
    BY <1>4 DEF Frame
  <2> QED
    BY <1>3, <2>1
<1>6. r \in [1 .. l -> Frame]
  BY <1>3, <1>5
<1>7. \A i \in 1 .. l : r[i] = IF s[i].role = "wrapper"
                               THEN [s[i] EXCEPT !.phase = "waiting"] ELSE s[i]
  BY <1>3
<1>8. calls' = [calls EXCEPT ![f] = Append(r, frame)]
  BY <1>1 DEF Push
<1> HIDE DEF r
<1>9. r \in Seq(Frame)
  BY <1>6, SeqDef
<1>10. Len(r) = l
  BY <1>6, <1>9, LenProperties
<1>11. /\ Append(r, frame) \in Seq(Frame) /\ Len(Append(r, frame)) = l + 1
       /\ \A i \in 1 .. l : Append(r, frame)[i] = r[i]
       /\ Append(r, frame)[l + 1] = frame
  BY <1>9, <1>10, AppendProperties
<1>12. PICK z \in Seq(Frame) : z = Append(r, frame)
  BY <1>11
<1>13. calls' = [calls EXCEPT ![f] = z]
  BY <1>8, <1>12
<1>14. /\ calls' \in [Flows -> Seq(Frame)] /\ calls'[f] = z
       /\ \A g \in Flows : g # f => calls'[g] = calls[g]
  BY <1>13 DEF TypeOK
<1> QED
  BY <1>1, <1>3, <1>7, <1>11, <1>12, <1>14, ZenonT(40) DEF Grown

\* So does replacing the top.
LEMMA Retopping ==
  ASSUME TypeOK, NEW f \in Flows, Len(calls[f]) > 0, NEW frame \in Frame, SetTop(f, frame)
  PROVE  Retopped(f, frame)
<1>1. PICK s \in Seq(Frame) : s = calls[f]
  BY DEF TypeOK
<1>2. PICK l \in Nat : l = Len(s) /\ l \in 1 .. l
  BY <1>1, LenProperties
<1>3. [s EXCEPT ![l] = frame] \in Seq(Frame) /\ Len([s EXCEPT ![l] = frame]) = l
      /\ \A i \in 1 .. l : [s EXCEPT ![l] = frame][i] = IF i = l THEN frame ELSE s[i]
  BY <1>2, ExceptSeq
<1>4. PICK z \in Seq(Frame) : z = [s EXCEPT ![l] = frame]
  BY <1>3
<1>5. calls' = [calls EXCEPT ![f] = z]
  BY <1>1, <1>2, <1>4 DEF SetTop, Depth, TypeOK
<1>6. /\ calls' \in [Flows -> Seq(Frame)] /\ calls'[f] = z
      /\ \A g \in Flows : g # f => calls'[g] = calls[g]
  BY <1>5 DEF TypeOK
<1>7. z[l] = frame /\ Len(z) = l /\ \A i \in 1 .. l - 1 : z[i] = s[i]
  BY <1>2, <1>3, <1>4
<1> QED
  BY <1>1, <1>2, <1>6, <1>7, Zenon DEF Retopped

\* And popping.
LEMMA Cutting ==
  ASSUME TypeOK, NEW f \in Flows, NEW k \in 0 .. Len(calls[f]),
         calls' = [calls EXCEPT ![f] = SubSeq(calls[f], 1, k)]
  PROVE  Cut(f, k)
<1>1. PICK s \in Seq(Frame) : s = calls[f]
  BY DEF TypeOK
<1>2. Len(s) \in Nat /\ k \in Nat /\ k <= Len(s)
  BY <1>1, LenProperties
<1>3. \A i \in 1 .. k : s[i] \in Frame
  BY <1>2, ElementOfSeq
<1>4. /\ SubSeq(s, 1, k) \in Seq(Frame) /\ Len(SubSeq(s, 1, k)) = k
      /\ \A i \in 1 .. k : SubSeq(s, 1, k)[i] = s[i]
  BY <1>2, <1>3, SubSeqProperties
<1>5. PICK z \in Seq(Frame) : z = SubSeq(s, 1, k)
  BY <1>4
<1>6. /\ calls' \in [Flows -> Seq(Frame)] /\ calls'[f] = z
      /\ \A g \in Flows : g # f => calls'[g] = calls[g]
  BY <1>1, <1>5 DEF TypeOK
<1> QED
  BY <1>1, <1>2, <1>4, <1>5, <1>6, Zenon DEF Cut

-----------------------------------------------------------------------------
(* The kinds of steps, as far as calls and rows go.                        *)

\* A call begins.
Enters(f, frame) ==
  /\ f \in Callers /\ Depth(f) < MaxDepth /\ frame \in Frame
  /\ Phase(f) = "idle" \/ InWrapper(f) \/ (MayNest /\ InFunction(f))
  /\ frame.phase = "apply" /\ frame.todo = frame.profiles
  /\ frame.source = "none" => frame.profiles = {}
  /\ Grown(f, frame)
  /\ row' = row

\* It writes a profile.
Writes(f, x) ==
  /\ Depth(f) > 0 /\ Top(f).phase = "apply" /\ x \in Top(f).todo
  /\ Retopped(f, [Top(f) EXCEPT !.todo = @ \ {x}])
  /\ row' = [row EXCEPT ![ThreadOf[f]][x] = <<f, Depth(f)>>]

\* It goes on to its function, or fails to.
Turns(f, p) ==
  /\ Depth(f) > 0 /\ p \in {"run", "pending", "raised"}
  /\ \/ Top(f).phase = "apply" /\ (p = "raised" \/ Top(f).todo = {})
     \/ Top(f).phase = "pending" /\ p = "run"
  /\ Retopped(f, [Top(f) EXCEPT !.phase = p])
  /\ row' = row

\* It ends.
Ends(f) ==
  /\ Depth(f) > 0
  /\ Top(f).phase \in {"waiting", "raised"} \/ (Top(f).phase = "run" /\ Top(f).role = "function")
  /\ Cut(f, Depth(f) - 1)
  /\ row' = IF Top(f).source = "none" THEN row ELSE Cleared(ThreadOf[f])

\* It is dropped, with the wrappers around it.
Drops(f, first) ==
  /\ Depth(f) > 0 /\ Top(f).phase = "pending" /\ first \in 1 .. Depth(f)
  /\ first > 1 => calls[f][first - 1].role = "function"
  /\ Cut(f, first - 1)
  /\ row' = [row EXCEPT ![ThreadOf[f]] =
       [x \in Fields |-> IF @[x] \in {f} \X (first .. Depth(f)) THEN LeftBy(f) ELSE @[x]]]

\* Nothing happens to calls and rows.
Rests == UNCHANGED <<row, calls>>

Kinds(f) ==
  \/ Rests
  \/ \E frame \in Frame : Enters(f, frame)
  \/ \E x \in Fields : Writes(f, x)
  \/ \E p \in {"run", "pending", "raised"} : Turns(f, p)
  \/ Ends(f)
  \/ \E first \in 1 .. Depth(f) : Drops(f, first)

\* A flow has a call in progress when it is in one of its phases.
LEMMA InCall ==
  ASSUME TypeOK, NEW f \in Flows, Phase(f) # "idle"
  PROVE  Depth(f) \in Nat /\ Depth(f) > 0 /\ Phase(f) = Top(f).phase /\ Top(f) \in Frame
<1>1. calls[f] \in Seq(Frame)
  BY DEF TypeOK
<1>2. Depth(f) \in Nat /\ Depth(f) # 0
  BY <1>1, LenProperties DEF Depth, Phase
<1>3. Depth(f) \in 1 .. Len(calls[f])
  BY <1>2 DEF Depth
<1>4. Top(f) \in Frame
  BY <1>1, <1>3, ElementOfSeq DEF Top
<1> QED
  BY <1>2, <1>4 DEF Phase

\* There are no others.
LEMMA StepKinds ==
  ASSUME TypeOK, NEW f \in Flows, Step(f)
  PROVE  Kinds(f)
<1> USE ScopeAssumption
<1>0. \A b \in Bodies \cup {{}} : b \in SUBSET Fields
  BY DEF Fields
<1>1. ASSUME NEW profiles \in Bodies \cup {{}}, NEW role \in {"function", "wrapper"},
             NEW async \in BOOLEAN, NEW source \in {"decorator", "policy", "none"},
             source = "none" => profiles = {},
             MayCall(f), Push(f, NewFrame(profiles, role, async, source)), row' = row
      PROVE  Kinds(f)
  <2>1. PICK frame \in Frame : /\ frame = NewFrame(profiles, role, async, source)
                               /\ frame.phase = "apply" /\ frame.todo = frame.profiles
                               /\ frame.source = "none" => frame.profiles = {}
    BY <1>0, <1>1 DEF NewFrame, Frame
  <2>2. Grown(f, frame)
    BY <1>1, <2>1, Pushing
  <2>3. Enters(f, frame)
    BY <1>1, <2>1, <2>2 DEF Enters, MayCall
  <2> QED
    BY <2>3 DEF Kinds
<1>2. CASE CallDirect(f)
  <2>1. PICK body \in Bodies, role \in Roles(f), async \in Styles(f) :
          Push(f, NewFrame(body, role, async, "decorator"))
    BY <1>2 DEF CallDirect
  <2>2. role \in {"function", "wrapper"} /\ async \in BOOLEAN
    <3>1. InWrapper(f) => Top(f) \in Frame
      BY InCall DEF InWrapper
    <3> QED
      BY <3>1 DEF Roles, Styles, Frame
  <2> QED
    BY <1>1, <1>2, <2>1, <2>2 DEF CallDirect
<1>3. CASE CallNamed(f) \/ CallAuto(f)
  <2>1. PICK name \in AllNames \cup {None} : CallPolicy(f, name)
    BY <1>3 DEF CallNamed, CallAuto, AllNames, TypeOK
  <2>2. PICK profiles \in Bodies \cup {{}} :
          profiles = IF name \in DOMAIN registry THEN registry[name] ELSE {}
    BY DEF TypeOK
  <2>3. PICK role \in Roles(f), async \in Styles(f) :
          Push(f, NewFrame(profiles, role, async, IF profiles = {} THEN "none" ELSE "policy"))
    BY <2>1, <2>2 DEF CallPolicy
  <2>4. role \in {"function", "wrapper"} /\ async \in BOOLEAN
    <3>1. InWrapper(f) => Top(f) \in Frame
      BY InCall DEF InWrapper
    <3> QED
      BY <3>1 DEF Roles, Styles, Frame
  <2>5. PICK source \in {"decorator", "policy", "none"} :
          source = (IF profiles = {} THEN "none" ELSE "policy")
    OBVIOUS
  <2>6. (source = "none" => profiles = {}) /\ MayCall(f) /\ row' = row
    BY <2>1, <2>5 DEF CallPolicy
  <2> QED
    BY <1>1, <2>3, <2>4, <2>5, <2>6
<1>4. CASE ApplyOne(f)
  <2>1. Depth(f) \in Nat /\ Depth(f) > 0 /\ Top(f).phase = "apply" /\ Top(f) \in Frame
    BY <1>4, InCall DEF ApplyOne
  <2>2. PICK x \in Due(f) : /\ SetTop(f, [Top(f) EXCEPT !.todo = @ \ {x}])
                            /\ row' = [row EXCEPT ![ThreadOf[f]][x] = <<f, Depth(f)>>]
    BY <1>4 DEF ApplyOne
  <2>3. x \in Top(f).todo /\ x \in Fields
    BY <2>1 DEF Due, Frame
  <2>4. [Top(f) EXCEPT !.todo = @ \ {x}] \in Frame
    BY <2>1 DEF Frame
  <2>5. Retopped(f, [Top(f) EXCEPT !.todo = @ \ {x}])
    BY <2>1, <2>2, <2>4, Retopping DEF Depth
  <2>6. Writes(f, x)
    BY <2>1, <2>2, <2>3, <2>5 DEF Writes
  <2> QED
    BY <2>3, <2>6 DEF Kinds
<1>5. ASSUME NEW p \in {"run", "pending", "raised"}, Phase(f) # "idle",
             \/ Top(f).phase = "apply" /\ (p = "raised" \/ Top(f).todo = {})
             \/ Top(f).phase = "pending" /\ p = "run",
             SetTop(f, [Top(f) EXCEPT !.phase = p]), row' = row
      PROVE  Kinds(f)
  <2>1. Depth(f) \in Nat /\ Depth(f) > 0 /\ Top(f) \in Frame
    BY <1>5, InCall
  <2>2. [Top(f) EXCEPT !.phase = p] \in Frame
    BY <2>1 DEF Frame
  <2>3. Retopped(f, [Top(f) EXCEPT !.phase = p])
    BY <1>5, <2>1, <2>2, Retopping DEF Depth
  <2>4. Turns(f, p)
    BY <1>5, <2>1, <2>3 DEF Turns
  <2> QED
    BY <2>4 DEF Kinds
<1>6. CASE ApplyRaises(f)
  BY <1>5, <1>6, InCall DEF ApplyRaises
<1>7. CASE CallFunction(f)
  <2>1. PICK p \in {"run", "pending", "raised"} :
          p = IF Top(f).async /\ Top(f).role = "function" THEN "pending" ELSE "run"
    OBVIOUS
  <2> QED
    BY <1>5, <1>7, <2>1, InCall DEF CallFunction
<1>8. CASE Start(f)
  BY <1>5, <1>8, InCall DEF Start
<1>9. CASE Finish(f)
  <2>1. Phase(f) # "idle"
    BY <1>9 DEF Finish, InFunction
  <2>2. Depth(f) \in Nat /\ Depth(f) > 0 /\ Top(f) \in Frame /\ Phase(f) = Top(f).phase
    BY <2>1, InCall
  <2>7. PICK l \in Nat : l = Depth(f) /\ l = Len(calls[f]) /\ l > 0
    <3>1. Depth(f) = Len(calls[f])
      BY DEF Depth
    <3> QED
      BY <2>2, <3>1
  <2>8. l - 1 \in 0 .. l
    BY <2>7
  <2>3. PICK k \in 0 .. Len(calls[f]) : k = Depth(f) - 1
    <3>1. l - 1 \in 0 .. Len(calls[f]) /\ l - 1 = Depth(f) - 1
      BY <2>7, <2>8, Zenon
    <3> QED
      BY <3>1, Zenon
  <2>4. calls' = [calls EXCEPT ![f] = SubSeq(calls[f], 1, k)]
    BY <1>9, <2>3 DEF Finish, Depth
  <2>5. Cut(f, Depth(f) - 1)
    BY <2>3, <2>4, Cutting
  <2>6. Ends(f)
    BY <1>9, <2>2, <2>5 DEF Ends, Finish, InFunction
  <2> QED
    BY <2>6 DEF Kinds
<1>10. CASE Drop(f)
  <2>1. Depth(f) \in Nat /\ Depth(f) > 0 /\ Top(f).phase = "pending"
    BY <1>10, InCall DEF Drop
  <2>2. PICK first \in 1 .. Depth(f) :
          /\ first > 1 => calls[f][first - 1].role = "function"
          /\ calls' = [calls EXCEPT ![f] = SubSeq(@, 1, first - 1)]
          /\ row' = [row EXCEPT ![ThreadOf[f]] =
               [x \in Fields |-> IF @[x] \in {f} \X (first .. Depth(f)) THEN LeftBy(f) ELSE @[x]]]
    BY <1>10 DEF Drop
  <2>3. PICK k \in 0 .. Len(calls[f]) : k = first - 1
    BY <2>1 DEF Depth
  <2>4. calls' = [calls EXCEPT ![f] = SubSeq(calls[f], 1, k)]
    BY <2>2, <2>3
  <2>5. Cut(f, first - 1)
    BY <2>3, <2>4, Cutting
  <2>6. Drops(f, first)
    BY <2>1, <2>2, <2>5 DEF Drops
  <2> QED
    BY <2>6 DEF Kinds
<1>11. CASE \/ Resume(f) \/ Suspend(f) \/ Register(f) \/ Unregister(f) \/ SetThreadPolicy(f) \/ Exit(f)
            \/ \E o \in Objects : EnterNamed(f, o) \/ EnterInline(f, o) \/ EnterRefused(f, o)
  BY <1>11 DEF Resume, Suspend, Register, Unregister, SetThreadPolicy, Exit, EnterNamed, EnterInline,
               EnterRefused, Kinds, Rests
<1> QED
  BY <1>2, <1>3, <1>4, <1>6, <1>7, <1>8, <1>9, <1>10, <1>11 DEF Step

-----------------------------------------------------------------------------
(* What the marks in the rows stand for.                                   *)

\* A flow's stack: wrappers waiting and functions running under the frame on top.  Only
\* callers have calls; what a call has yet to write is among its profiles, and a call without
\* a wrapper has none.
StackOK(g) ==
  /\ Depth(g) \in Nat /\ Depth(g) <= MaxDepth
  /\ Depth(g) > 0 => g \in Callers
  /\ \A i \in 1 .. Depth(g) - 1 :
       calls[g][i].phase = IF calls[g][i].role = "wrapper" THEN "waiting" ELSE "run"
  /\ \A i \in 1 .. Depth(g) : /\ calls[g][i] \in Frame
                              /\ calls[g][i].todo \subseteq calls[g][i].profiles
                              /\ calls[g][i].source = "none" => calls[g][i].profiles = {}

StackInv == calls \in [Flows -> Seq(Frame)] /\ \A g \in Flows : StackOK(g)

\* A mark is of a call of the thread's that is still active and carries the profile, or of
\* one that was dropped.
Of(g, d, x) == d \in 1 .. Depth(g) /\ x \in calls[g][d].profiles

Stands(th, x) ==
  \/ row[th][x] = None
  \/ \E g \in Callers : /\ ThreadOf[g] = th
                        /\ \/ row[th][x] = LeftBy(g)
                           \/ \E d \in Nat : row[th][x] = <<g, d>> /\ Of(g, d, x)

MarkInv == \A th \in Threads, x \in Fields : Stands(th, x)

\* What a step leaves alone: the stack of a flow, and the marks of its calls.
LEMMA StackStays ==
  ASSUME NEW g, calls'[g] = calls[g], StackOK(g)
  PROVE  StackOK(g)'
<1>1. Depth(g)' = Depth(g)
  BY DEF Depth
<1> QED
  BY <1>1 DEF StackOK

\* A mark that stands for a call stands as long as that call keeps its place.
LEMMA MarkStays ==
  ASSUME NEW th, NEW x, row'[th][x] = row[th][x], Stands(th, x),
         \A g \in Callers : \A d \in Nat : ThreadOf[g] = th /\ Of(g, d, x) => Of(g, d, x)'
  PROVE  Stands(th, x)'
<1>1. CASE row[th][x] = None
  BY <1>1 DEF Stands
<1>2. ASSUME NEW g \in Callers, ThreadOf[g] = th, row[th][x] = LeftBy(g) PROVE Stands(th, x)'
  BY <1>2 DEF Stands, LeftBy
<1>3. ASSUME NEW g \in Callers, ThreadOf[g] = th, NEW d \in Nat, row[th][x] = <<g, d>>, Of(g, d, x)
      PROVE Stands(th, x)'
  <2>1. Of(g, d, x)'
    BY <1>3
  <2> QED
    BY <1>3, <2>1 DEF Stands
<1> QED
  BY <1>1, <1>2, <1>3 DEF Stands

\* The call of another flow keeps its place.
LEMMA PlaceStays ==
  ASSUME NEW g, calls'[g] = calls[g], NEW d, NEW x, Of(g, d, x)
  PROVE  Of(g, d, x)'
BY DEF Of, Depth

\* The types of the rows.
RowType == row \in [Threads -> [Fields -> {None} \cup (Flows \X (0..MaxDepth))]]

\* What the invariants below need of the constants.
LEMMA Placed ==
  /\ MaxDepth \in Nat /\ Callers \subseteq Flows /\ None \notin Flows
  /\ \A f \in Flows : ThreadOf[f] \in Threads
BY ScopeAssumption DEF AllNames

\* The step of a flow that begins a call.
LEMMA EntersKeep ==
  ASSUME StackInv, MarkInv, NEW f \in Flows, NEW frame \in Frame, Enters(f, frame)
  PROVE  StackInv' /\ MarkInv'
<1>1. PICK d \in Nat : d = Depth(f) /\ d = Len(calls[f]) /\ d <= MaxDepth
  BY DEF StackInv, StackOK, Depth
<1>2. /\ calls' \in [Flows -> Seq(Frame)]
      /\ \A g \in Flows : g # f => calls'[g] = calls[g]
      /\ Len(calls'[f]) = d + 1 /\ calls'[f][d + 1] = frame
      /\ \A i \in 1 .. d :
           calls'[f][i] = IF calls[f][i].role = "wrapper"
                          THEN [calls[f][i] EXCEPT !.phase = "waiting"] ELSE calls[f][i]
  BY <1>1, Zenon DEF Enters, Grown
<1>3. /\ d < MaxDepth /\ f \in Callers /\ row' = row
      /\ frame.todo = frame.profiles /\ (frame.source = "none" => frame.profiles = {})
      /\ Phase(f) = "idle" \/ Phase(f) = "run"
  BY <1>1 DEF Enters, InWrapper, InFunction
<1>4. d # 0 => calls[f][d].phase = "run"
  <2>1. d # 0 => Phase(f) = calls[f][d].phase
    BY <1>1, Zenon DEF Phase, Top
  <2>2. ASSUME d # 0, Phase(f) = "idle" PROVE FALSE
    <3>1. calls[f][d] \in Frame
      BY <1>1, <2>2 DEF StackInv, StackOK
    <3> QED
      BY <2>1, <2>2, <3>1 DEF Frame
  <2> QED
    BY <1>3, <2>1, <2>2
<1>5. ASSUME NEW i \in 1 .. d
      PROVE  /\ calls'[f][i] \in Frame
             /\ calls'[f][i].profiles = calls[f][i].profiles /\ calls'[f][i].todo = calls[f][i].todo
             /\ calls'[f][i].source = calls[f][i].source /\ calls'[f][i].role = calls[f][i].role
             /\ calls'[f][i].phase = IF calls'[f][i].role = "wrapper" THEN "waiting" ELSE "run"
  <2>1. calls[f][i] \in Frame
    BY <1>1 DEF StackInv, StackOK
  <2>2. calls[f][i].role # "wrapper" => calls[f][i].phase = "run"
    <3>1. CASE i = d
      BY <1>4, <3>1
    <3>2. CASE i # d
      <4>1. i \in 1 .. Depth(f) - 1
        BY <1>1, <3>2
      <4> QED
        BY <4>1 DEF StackInv, StackOK
    <3> QED
      BY <3>1, <3>2
  <2>3. CASE calls[f][i].role = "wrapper"
    <3>1. calls'[f][i] = [calls[f][i] EXCEPT !.phase = "waiting"]
      BY <1>2, <2>3
    <3> QED
      BY <2>1, <2>3, <3>1 DEF Frame
  <2>4. CASE calls[f][i].role # "wrapper"
    <3>1. calls'[f][i] = calls[f][i]
      BY <1>2, <2>4
    <3> QED
      BY <2>1, <2>2, <2>4, <3>1
  <2> QED
    BY <2>3, <2>4
<1>6. Depth(f)' = d + 1
  BY <1>2 DEF Depth
<1>7. StackOK(f)'
  <2>1. ASSUME NEW i \in 1 .. d + 1
        PROVE  /\ calls'[f][i] \in Frame
               /\ calls'[f][i].todo \subseteq calls'[f][i].profiles
               /\ calls'[f][i].source = "none" => calls'[f][i].profiles = {}
    <3>1. CASE i = d + 1
      BY <1>2, <1>3, <3>1
    <3>2. CASE i \in 1 .. d
      <4>1. calls[f][i].todo \subseteq calls[f][i].profiles /\ (calls[f][i].source = "none" => calls[f][i].profiles = {})
        BY <1>1, <3>2 DEF StackInv, StackOK
      <4> QED
        BY <1>5, <3>2, <4>1
    <3> QED
      BY <3>1, <3>2
  <2>2. d + 1 - 1 = d /\ d + 1 \in Nat /\ d + 1 <= MaxDepth
    BY <1>3, Placed
  <2>3. Depth(f)' \in Nat /\ Depth(f)' <= MaxDepth /\ Depth(f)' - 1 = d
    BY <1>6, <2>2
  <2>4. \A i \in 1 .. Depth(f)' - 1 :
          calls'[f][i].phase = IF calls'[f][i].role = "wrapper" THEN "waiting" ELSE "run"
    BY <1>5, <2>3
  <2>5. \A i \in 1 .. Depth(f)' : /\ calls'[f][i] \in Frame
                                  /\ calls'[f][i].todo \subseteq calls'[f][i].profiles
                                  /\ calls'[f][i].source = "none" => calls'[f][i].profiles = {}
    BY <1>6, <2>1
  <2> QED
    BY <1>3, <2>3, <2>4, <2>5, Zenon DEF StackOK
<1>8. StackInv'
  BY <1>2, <1>7, StackStays DEF StackInv
<1>9. ASSUME NEW x, NEW g \in Callers, NEW e \in Nat, Of(g, e, x) PROVE Of(g, e, x)'
  <2>1. CASE g # f
    BY <1>2, <1>9, <2>1, PlaceStays, Placed
  <2>2. CASE g = f
    <3>1. e \in 1 .. d /\ x \in calls[f][e].profiles
      BY <1>1, <1>9, <2>2 DEF Of
    <3>2. e \in 1 .. d + 1 /\ x \in calls'[f][e].profiles
      BY <1>5, <3>1
    <3> QED
      BY <1>6, <2>2, <3>2 DEF Of
  <2> QED
    BY <2>1, <2>2
<1>10. ASSUME NEW th \in Threads, NEW x \in Fields PROVE Stands(th, x)'
  <2>1. Stands(th, x) /\ row'[th][x] = row[th][x]
    BY <1>3 DEF MarkInv
  <2> QED
    BY <1>9, <2>1, MarkStays
<1> QED
  BY <1>8, <1>10 DEF MarkInv

\* The step of a flow that only changes its top frame, as it writes or goes on.
LEMMA TopKeeps ==
  ASSUME StackInv, NEW f \in Flows, Depth(f) > 0, NEW frame \in Frame, Retopped(f, frame),
         frame.profiles = Top(f).profiles, frame.todo \subseteq Top(f).todo,
         frame.source = Top(f).source
  PROVE  /\ StackInv' /\ Depth(f)' = Depth(f)
         /\ \A g \in Callers : \A e \in Nat : \A x : Of(g, e, x) => Of(g, e, x)'
<1>1. PICK d \in Nat : d = Depth(f) /\ d = Len(calls[f]) /\ d <= MaxDepth /\ d > 0
  BY DEF StackInv, StackOK, Depth
<1>2. /\ calls' \in [Flows -> Seq(Frame)]
      /\ \A g \in Flows : g # f => calls'[g] = calls[g]
      /\ Len(calls'[f]) = d /\ calls'[f][d] = frame
      /\ \A i \in 1 .. d - 1 : calls'[f][i] = calls[f][i]
  BY <1>1, Zenon DEF Retopped
<1>3. Depth(f)' = d
  BY <1>2 DEF Depth
<1>4. Top(f) = calls[f][d]
  BY <1>1 DEF Top
<1>5. StackOK(f)
  BY DEF StackInv
<1>6. ASSUME NEW i \in 1 .. d
      PROVE  /\ calls'[f][i] \in Frame /\ calls'[f][i].profiles = calls[f][i].profiles
             /\ calls'[f][i].todo \subseteq calls'[f][i].profiles
             /\ calls'[f][i].source = "none" => calls'[f][i].profiles = {}
  <2>1. /\ calls[f][i] \in Frame /\ calls[f][i].todo \subseteq calls[f][i].profiles
        /\ calls[f][i].source = "none" => calls[f][i].profiles = {}
    BY <1>1, <1>5 DEF StackOK
  <2>2. CASE i = d
    BY <1>2, <1>4, <2>1, <2>2
  <2>3. CASE i # d
    <3>1. i \in 1 .. d - 1
      BY <2>3
    <3> QED
      BY <1>2, <2>1, <3>1
  <2> QED
    BY <2>2, <2>3
<1>7. StackOK(f)'
  <2>1. \A i \in 1 .. d - 1 :
          calls'[f][i].phase = IF calls'[f][i].role = "wrapper" THEN "waiting" ELSE "run"
    <3>1. \A i \in 1 .. d - 1 :
            calls[f][i].phase = IF calls[f][i].role = "wrapper" THEN "waiting" ELSE "run"
      BY <1>1, <1>5 DEF StackOK
    <3> QED
      BY <1>2, <3>1
  <2>2. Depth(f)' > 0 => f \in Callers
    BY <1>1, <1>5 DEF StackOK
  <2> QED
    BY <1>1, <1>3, <1>6, <2>1, <2>2 DEF StackOK
<1>8. StackInv'
  BY <1>2, <1>7, StackStays DEF StackInv
<1>9. ASSUME NEW x, NEW g \in Callers, NEW e \in Nat, Of(g, e, x) PROVE Of(g, e, x)'
  <2>1. CASE g # f
    BY <1>2, <1>9, <2>1, PlaceStays, Placed
  <2>2. CASE g = f
    <3>1. e \in 1 .. d /\ x \in calls[f][e].profiles
      BY <1>1, <1>9, <2>2 DEF Of
    <3>2. x \in calls'[f][e].profiles
      BY <1>6, <3>1
    <3> QED
      BY <1>3, <2>2, <3>1, <3>2 DEF Of
  <2> QED
    BY <2>1, <2>2
<1> QED
  BY <1>1, <1>3, <1>8, <1>9

\* The step that writes a profile.
LEMMA WritesKeep ==
  ASSUME StackInv, MarkInv, RowType, NEW f \in Flows, NEW x \in Fields, Writes(f, x)
  PROVE  StackInv' /\ MarkInv' /\ RowType' /\ Depth(f)' = Depth(f)
<1>1. StackOK(f) /\ Depth(f) \in Nat /\ Depth(f) \in 1 .. Depth(f) /\ Depth(f) \in 0 .. MaxDepth
  BY DEF StackInv, StackOK, Writes
<1>2. PICK t \in Frame : t = Top(f) /\ t.todo \subseteq t.profiles
  BY <1>1 DEF StackOK, Top
<1>3. PICK frame \in Frame : frame = [Top(f) EXCEPT !.todo = @ \ {x}]
  BY <1>2 DEF Frame
<1>4. /\ frame.profiles = Top(f).profiles /\ frame.todo \subseteq Top(f).todo
      /\ frame.source = Top(f).source
  BY <1>2, <1>3 DEF Frame
<1>5. Retopped(f, frame) /\ x \in Top(f).todo /\ Depth(f) > 0
  BY <1>3, Zenon DEF Writes
<1>6. /\ StackInv' /\ Depth(f)' = Depth(f)
      /\ \A g \in Callers : \A e \in Nat : \A y : Of(g, e, y) => Of(g, e, y)'
  BY <1>4, <1>5, TopKeeps
<1>7. f \in Callers /\ ThreadOf[f] \in Threads
  BY <1>1, <1>5, Placed DEF StackOK
<1>8. PICK m \in Flows \X (0..MaxDepth) : m = <<f, Depth(f)>>
  <2>1. <<f, Depth(f)>> \in Flows \X (0..MaxDepth)
    BY <1>1
  <2> QED
    BY <2>1
<1>9. /\ RowType' /\ row'[ThreadOf[f]][x] = m
      /\ \A th \in Threads, y \in Fields : th # ThreadOf[f] \/ y # x => row'[th][y] = row[th][y]
  <2>1. row' = [row EXCEPT ![ThreadOf[f]][x] = m]
    BY <1>8 DEF Writes
  <2> QED
    BY <1>7, <1>8, <2>1 DEF RowType
<1>10. Of(f, Depth(f), x)
  BY <1>1, <1>2, <1>5 DEF Of, Top
<1>11. Stands(ThreadOf[f], x)'
  <2>1. PICK d \in Nat : d = Depth(f)
    BY <1>1
  <2>2. Of(f, d, x)'
    BY <1>6, <1>7, <1>10, <2>1
  <2> QED
    BY <1>7, <1>8, <1>9, <2>1, <2>2 DEF Stands
<1>12. ASSUME NEW th \in Threads, NEW y \in Fields PROVE Stands(th, y)'
  <2>1. CASE th = ThreadOf[f] /\ y = x
    BY <1>11, <2>1
  <2>2. CASE th # ThreadOf[f] \/ y # x
    BY <1>6, <1>9, <2>2, MarkStays DEF MarkInv
  <2> QED
    BY <2>1, <2>2
<1> QED
  BY <1>6, <1>9, <1>12 DEF MarkInv

\* The step that goes on to the function, or fails to.
LEMMA TurnsKeep ==
  ASSUME StackInv, MarkInv, NEW f \in Flows, NEW p \in {"run", "pending", "raised"}, Turns(f, p)
  PROVE  StackInv' /\ MarkInv'
<1>1. StackOK(f) /\ Depth(f) \in Nat /\ Depth(f) \in 1 .. Depth(f) /\ Depth(f) > 0
  BY DEF StackInv, StackOK, Turns
<1>2. PICK t \in Frame : t = Top(f)
  BY <1>1 DEF StackOK, Top
<1>3. PICK frame \in Frame : frame = [Top(f) EXCEPT !.phase = p]
  BY <1>2 DEF Frame
<1>4. /\ frame.profiles = Top(f).profiles /\ frame.todo \subseteq Top(f).todo
      /\ frame.source = Top(f).source
  BY <1>2, <1>3 DEF Frame
<1>5. Retopped(f, frame) /\ row' = row
  BY <1>3, Zenon DEF Turns
<1>6. /\ StackInv'
      /\ \A g \in Callers : \A e \in Nat : \A y : Of(g, e, y) => Of(g, e, y)'
  BY <1>1, <1>4, <1>5, TopKeeps
<1>7. ASSUME NEW th \in Threads, NEW y \in Fields PROVE Stands(th, y)'
  BY <1>5, <1>6, MarkStays DEF MarkInv
<1> QED
  BY <1>6, <1>7 DEF MarkInv

\* The step that takes calls off a stack.
LEMMA CutKeeps ==
  ASSUME StackInv, NEW f \in Flows, NEW k \in 0 .. Depth(f), Cut(f, k)
  PROVE  /\ StackInv' /\ Depth(f)' = k
         /\ \A g \in Callers : \A e \in Nat : \A x :
              Of(g, e, x) /\ (g # f \/ e <= k) => Of(g, e, x)'
<1>1. PICK d \in Nat : d = Depth(f) /\ d = Len(calls[f]) /\ d <= MaxDepth
  BY DEF StackInv, StackOK, Depth
<1>2. /\ calls' \in [Flows -> Seq(Frame)]
      /\ \A g \in Flows : g # f => calls'[g] = calls[g]
      /\ Len(calls'[f]) = k
      /\ \A i \in 1 .. k : calls'[f][i] = calls[f][i]
  BY DEF Cut
<1>3. Depth(f)' = k
  BY <1>2 DEF Depth
<1>4. k \in Nat /\ k <= d /\ k <= MaxDepth
  BY <1>1, Placed
<1>5. StackOK(f)
  BY DEF StackInv
<1>6. ASSUME NEW i \in 1 .. k
      PROVE  /\ calls'[f][i] \in Frame /\ calls'[f][i].profiles = calls[f][i].profiles
             /\ calls'[f][i].todo \subseteq calls'[f][i].profiles
             /\ calls'[f][i].source = "none" => calls'[f][i].profiles = {}
  <2>0. i \in 1 .. d
    BY <1>4
  <2>1. /\ calls[f][i] \in Frame /\ calls[f][i].todo \subseteq calls[f][i].profiles
        /\ calls[f][i].source = "none" => calls[f][i].profiles = {}
    BY <1>1, <1>5, <2>0 DEF StackOK
  <2> QED
    BY <1>2, <2>1
<1>7. StackOK(f)'
  <2>1. ASSUME NEW i \in 1 .. k - 1
        PROVE  calls'[f][i].phase = IF calls'[f][i].role = "wrapper" THEN "waiting" ELSE "run"
    <3>1. i \in 1 .. d - 1 /\ i \in 1 .. k
      BY <1>4
    <3>2. calls[f][i].phase = IF calls[f][i].role = "wrapper" THEN "waiting" ELSE "run"
      BY <1>1, <1>5, <3>1 DEF StackOK
    <3> QED
      BY <1>2, <3>1, <3>2
  <2>2. Depth(f)' > 0 => f \in Callers
    BY <1>1, <1>3, <1>4, <1>5 DEF StackOK
  <2> QED
    BY <1>3, <1>4, <1>6, <2>1, <2>2 DEF StackOK
<1>8. StackInv'
  BY <1>2, <1>7, StackStays DEF StackInv
<1>9. ASSUME NEW x, NEW g \in Callers, NEW e \in Nat, Of(g, e, x), g # f \/ e <= k PROVE Of(g, e, x)'
  <2>1. CASE g # f
    BY <1>2, <1>9, <2>1, PlaceStays, Placed
  <2>2. CASE g = f
    <3>1. e \in 1 .. k /\ x \in calls[f][e].profiles
      BY <1>4, <1>9, <2>2 DEF Of
    <3>2. x \in calls'[f][e].profiles
      BY <1>6, <3>1
    <3> QED
      BY <1>3, <2>2, <3>1, <3>2 DEF Of
  <2> QED
    BY <2>1, <2>2
<1> QED
  BY <1>3, <1>8, <1>9

\* The step that ends a call.
LEMMA EndsKeep ==
  ASSUME StackInv, MarkInv, RowType, NEW f \in Flows, Ends(f)
  PROVE  StackInv' /\ MarkInv' /\ RowType' /\ Depth(f)' = Depth(f) - 1
<1>1. StackOK(f) /\ Depth(f) \in Nat /\ Depth(f) \in 1 .. Depth(f)
  BY SMTT(40) DEF StackInv, StackOK, Ends
<1>2. PICK k \in 0 .. Depth(f) : k = Depth(f) - 1
  BY <1>1
<1>3. Cut(f, k)
  BY <1>2 DEF Ends
<1>4. /\ StackInv' /\ Depth(f)' = k
      /\ \A g \in Callers : \A e \in Nat : \A x : Of(g, e, x) /\ (g # f \/ e <= k) => Of(g, e, x)'
  BY <1>3, CutKeeps
<1>5. CASE Top(f).source = "none"
  <2>1. row' = row
    BY <1>5 DEF Ends
  <2>2. calls[f][Depth(f)].profiles = {}
    BY <1>1, <1>5 DEF StackOK, Top
  <2>3. ASSUME NEW g \in Callers, NEW e \in Nat, NEW x, Of(g, e, x) PROVE Of(g, e, x)'
    <3>1. ASSUME g = f PROVE e <= k
      <4>1. e \in 1 .. Depth(f) /\ e # Depth(f)
        BY <2>2, <2>3, <3>1 DEF Of
      <4> QED
        BY <1>1, <1>2, <4>1
    <3> QED
      BY <1>4, <2>3, <3>1
  <2>4. ASSUME NEW th \in Threads, NEW x \in Fields PROVE Stands(th, x)'
    BY <2>1, <2>3, MarkStays DEF MarkInv
  <2> QED
    BY <1>2, <1>4, <2>1, <2>4 DEF MarkInv, RowType
<1>6. CASE Top(f).source # "none"
  <2>1. row' = [row EXCEPT ![ThreadOf[f]] = Unwritten]
    BY <1>6 DEF Ends, Cleared
  <2>2. Unwritten \in [Fields -> {None} \cup (Flows \X (0..MaxDepth))] /\ \A x \in Fields : Unwritten[x] = None
    BY DEF Unwritten
  <2>3. /\ RowType' /\ row'[ThreadOf[f]] = Unwritten
        /\ \A th \in Threads : th # ThreadOf[f] => row'[th] = row[th]
    BY <2>1, <2>2, Placed DEF RowType
  <2>4. ASSUME NEW th \in Threads, NEW x \in Fields PROVE Stands(th, x)'
    <3>1. CASE th = ThreadOf[f]
      BY <2>2, <2>3, <3>1 DEF Stands
    <3>2. CASE th # ThreadOf[f]
      <4>1. \A g \in Callers : \A e \in Nat : ThreadOf[g] = th /\ Of(g, e, x) => Of(g, e, x)'
        BY <1>4, <3>2
      <4> QED
        BY <2>3, <3>2, <4>1, MarkStays DEF MarkInv
    <3> QED
      BY <3>1, <3>2
  <2> QED
    BY <1>2, <1>4, <2>3, <2>4 DEF MarkInv
<1> QED
  BY <1>5, <1>6

\* The step that drops calls.
LEMMA DropsKeep ==
  ASSUME StackInv, MarkInv, RowType, NEW f \in Flows, NEW first \in 1 .. Depth(f), Drops(f, first)
  PROVE  StackInv' /\ MarkInv' /\ RowType' /\ Depth(f)' = first - 1
<1>1. StackOK(f) /\ Depth(f) \in Nat /\ first \in Nat /\ f \in Callers
  <2>1. StackOK(f) /\ Depth(f) > 0
    BY DEF StackInv, Drops
  <2>2. Depth(f) \in Nat /\ f \in Callers
    BY <2>1 DEF StackOK
  <2> QED
    BY <2>1, <2>2
<1>2. PICK k \in 0 .. Depth(f) : k = first - 1
  BY <1>1
<1>3. Cut(f, k)
  BY <1>2 DEF Drops
<1>4. /\ StackInv' /\ Depth(f)' = k
      /\ \A g \in Callers : \A e \in Nat : \A x : Of(g, e, x) /\ (g # f \/ e <= k) => Of(g, e, x)'
  BY <1>3, CutKeeps
<1>5. ThreadOf[f] \in Threads /\ LeftBy(f) \in Flows \X (0 .. MaxDepth)
  <2>1. ThreadOf[f] \in Threads /\ 0 \in 0 .. MaxDepth
    BY Placed
  <2> QED
    BY <2>1 DEF LeftBy
<1>6. /\ RowType'
      /\ \A th \in Threads : th # ThreadOf[f] => row'[th] = row[th]
      /\ \A x \in Fields : row'[ThreadOf[f]][x] =
           IF row[ThreadOf[f]][x] \in {f} \X (first .. Depth(f)) THEN LeftBy(f) ELSE row[ThreadOf[f]][x]
  <2>1. PICK old \in [Fields -> {None} \cup (Flows \X (0..MaxDepth))] : old = row[ThreadOf[f]]
    BY <1>5 DEF RowType
  <2>2. PICK r : r = [x \in Fields |-> IF old[x] \in {f} \X (first .. Depth(f)) THEN LeftBy(f) ELSE old[x]]
    OBVIOUS
  <2>3. r \in [Fields -> {None} \cup (Flows \X (0..MaxDepth))]
    BY <1>5, <2>2, Zenon
  <2>4. row' = [row EXCEPT ![ThreadOf[f]] = r]
    BY <2>1, <2>2 DEF Drops
  <2>5. /\ RowType' /\ row'[ThreadOf[f]] = r
        /\ \A th \in Threads : th # ThreadOf[f] => row'[th] = row[th]
    BY <1>5, <2>3, <2>4 DEF RowType
  <2> QED
    BY <2>1, <2>2, <2>5, Zenon
<1>7. ASSUME NEW th \in Threads, NEW x \in Fields PROVE Stands(th, x)'
  <2>1. CASE th # ThreadOf[f]
    <3>1. \A g \in Callers : \A e \in Nat : ThreadOf[g] = th /\ Of(g, e, x) => Of(g, e, x)'
      BY <1>4, <2>1
    <3> QED
      BY <1>6, <2>1, <3>1, MarkStays DEF MarkInv
  <2>2. CASE th = ThreadOf[f] /\ row[th][x] \in {f} \X (first .. Depth(f))
    <3>1. row'[th][x] = LeftBy(f)
      BY <1>6, <2>2
    <3> QED
      BY <1>1, <2>2, <3>1 DEF Stands, LeftBy
  <2>3. CASE th = ThreadOf[f] /\ row[th][x] \notin {f} \X (first .. Depth(f))
    <3>1. row'[th][x] = row[th][x]
      BY <1>6, <2>3
    <3>2. Stands(th, x)
      BY DEF MarkInv
    <3>3. CASE row[th][x] = None
      BY <3>1, <3>3 DEF Stands
    <3>4. ASSUME NEW g \in Callers, ThreadOf[g] = th, row[th][x] = LeftBy(g) PROVE Stands(th, x)'
      BY <3>1, <3>4 DEF Stands, LeftBy
    <3>5. ASSUME NEW g \in Callers, ThreadOf[g] = th, NEW e \in Nat, row[th][x] = <<g, e>>, Of(g, e, x)
          PROVE Stands(th, x)'
      <4>1. ASSUME g = f PROVE e <= k
        <5>1. e \in 1 .. Depth(f)
          BY <3>5, <4>1 DEF Of
        <5>2. e \notin first .. Depth(f)
          BY <2>3, <3>5, <4>1
        <5> QED
          BY <1>1, <1>2, <5>1, <5>2
      <4>2. Of(g, e, x)'
        BY <1>4, <3>5, <4>1
      <4> QED
        BY <3>1, <3>5, <4>2 DEF Stands
    <3> QED
      BY <3>2, <3>3, <3>4, <3>5 DEF Stands
  <2> QED
    BY <2>1, <2>2, <2>3
<1> QED
  BY <1>2, <1>4, <1>6, <1>7 DEF MarkInv

\* So every step keeps the stacks in shape and leaves no mark that stands for nothing.
LEMMA KindsKeep ==
  ASSUME StackInv, MarkInv, RowType, NEW f \in Flows, Kinds(f)
  PROVE  StackInv' /\ MarkInv' /\ RowType'
<1>1. CASE Rests
  <2>1. ASSUME NEW g \in Flows PROVE StackOK(g)'
    BY <1>1, StackStays DEF Rests, StackInv
  <2>2. ASSUME NEW th \in Threads, NEW x \in Fields PROVE Stands(th, x)'
    BY <1>1, MarkStays, PlaceStays DEF MarkInv, Rests
  <2> QED
    BY <1>1, <2>1, <2>2 DEF Rests, StackInv, MarkInv, RowType
<1>2. ASSUME NEW frame \in Frame, Enters(f, frame) PROVE StackInv' /\ MarkInv' /\ RowType'
  BY <1>2, EntersKeep DEF RowType, Enters
<1>3. ASSUME NEW x \in Fields, Writes(f, x) PROVE StackInv' /\ MarkInv' /\ RowType'
  BY <1>3, WritesKeep
<1>4. ASSUME NEW p \in {"run", "pending", "raised"}, Turns(f, p) PROVE StackInv' /\ MarkInv' /\ RowType'
  BY <1>4, TurnsKeep DEF RowType, Turns
<1>5. CASE Ends(f)
  BY <1>5, EndsKeep
<1>6. ASSUME NEW first \in 1 .. Depth(f), Drops(f, first) PROVE StackInv' /\ MarkInv' /\ RowType'
  BY <1>6, DropsKeep
<1> QED
  BY <1>1, <1>2, <1>3, <1>4, <1>5, <1>6 DEF Kinds

-----------------------------------------------------------------------------
(* The registry, the contexts and their objects.                           *)

PolicyTypes ==
  /\ policyName \in AllNames \cup {None}
  /\ DOMAIN registry \subseteq AllNames
  /\ \A n \in DOMAIN registry : registry[n] \in Bodies \cup {{}}
  /\ running \in [Threads -> Flows \cup {None}]
  /\ ctx \in [Flows -> AllNames \cup {None}]
  /\ blocks \in [Flows -> Seq(Block)]
  /\ objs \in [Objects -> [previous : AllNames \cup {None}, temp : TempNames \cup {None}]]

\* An open block and its object agree on what is to be restored and removed.
HoldInv ==
  \A f \in Flows : \A i \in 1 .. Len(blocks[f]) :
    objs[blocks[f][i].obj] = [previous |-> blocks[f][i].entered, temp |-> blocks[f][i].temp]

\* No object serves two open blocks.
OnceInv ==
  \A f, g \in Flows : \A i \in 1 .. Len(blocks[f]), j \in 1 .. Len(blocks[g]) :
    blocks[f][i].obj = blocks[g][j].obj => f = g /\ i = j

\* An object without a block has no temporary policy to remove.
Used(o) == \E f \in Flows : \E i \in 1 .. Len(blocks[f]) : blocks[f][i].obj = o
FreeInv == \A o \in Objects : Used(o) \/ objs[o].temp = None

\* A temporary policy belongs to an open block.
Kept(n) == \E f \in Flows : \E i \in 1 .. Len(blocks[f]) : blocks[f][i].temp = n
KeptInv == \A n \in DOMAIN registry \cap TempNames : Kept(n)

PolicyInv == PolicyTypes /\ HoldInv /\ OnceInv /\ FreeInv /\ KeptInv

\* The blocks of a flow, position by position.
LEMMA BlockTypes ==
  ASSUME blocks \in [Flows -> Seq(Block)], NEW f \in Flows
  PROVE  /\ Len(blocks[f]) \in Nat /\ DOMAIN blocks[f] = 1 .. Len(blocks[f])
         /\ \A i \in 1 .. Len(blocks[f]) : blocks[f][i] \in Block
<1>1. blocks[f] \in Seq(Block)
  OBVIOUS
<1> QED
  BY <1>1, LenProperties, ElementOfSeq

\* An object in use serves a block.
LEMMA UseKnown ==
  ASSUME blocks \in [Flows -> Seq(Block)], NEW o
  PROVE  InUse(o) <=> Used(o)
BY BlockTypes DEF InUse, Used

\* A policy that is kept is not leaked.
LEMMA KeptKnown ==
  ASSUME blocks \in [Flows -> Seq(Block)], KeptInv
  PROVE  NoLeakedPolicy
<1>1. ASSUME NEW n \in DOMAIN registry \cap TempNames
      PROVE  \E f \in Flows : \E b \in Range(blocks[f]) : b.temp = n
  <2>1. PICK f \in Flows : \E i \in 1 .. Len(blocks[f]) : blocks[f][i].temp = n
    BY DEF KeptInv, Kept
  <2>3. PICK i \in 1 .. Len(blocks[f]) : blocks[f][i].temp = n
    BY <2>1
  <2>2. blocks[f][i] \in Range(blocks[f])
    BY BlockTypes DEF Range
  <2> QED
    BY <2>2, <2>3
<1> QED
  BY <1>1 DEF NoLeakedPolicy

\* What opening a block does.
Opened(f, b) ==
  /\ blocks' \in [Flows -> Seq(Block)]
  /\ \A g \in Flows : g # f => blocks'[g] = blocks[g]
  /\ Len(blocks[f]) \in Nat /\ Len(blocks'[f]) = Len(blocks[f]) + 1
  /\ blocks'[f][Len(blocks[f]) + 1] = b
  /\ \A i \in 1 .. Len(blocks[f]) : blocks'[f][i] = blocks[f][i]

\* What closing the innermost does.
Closed(f) ==
  /\ blocks' \in [Flows -> Seq(Block)]
  /\ \A g \in Flows : g # f => blocks'[g] = blocks[g]
  /\ Len(blocks[f]) \in Nat /\ Len(blocks'[f]) = Len(blocks[f]) - 1
  /\ \A i \in 1 .. Len(blocks[f]) - 1 : blocks'[f][i] = blocks[f][i]

\* Appending opens.
LEMMA Opening ==
  ASSUME blocks \in [Flows -> Seq(Block)], NEW f \in Flows, NEW b \in Block,
         blocks' = [blocks EXCEPT ![f] = Append(@, b)]
  PROVE  Opened(f, b)
<1>1. PICK s \in Seq(Block) : s = blocks[f]
  OBVIOUS
<1>2. /\ Append(s, b) \in Seq(Block) /\ Len(s) \in Nat /\ Len(Append(s, b)) = Len(s) + 1
      /\ \A i \in 1 .. Len(s) : Append(s, b)[i] = s[i]
      /\ Append(s, b)[Len(s) + 1] = b
  BY LenProperties, AppendProperties
<1>3. PICK z \in Seq(Block) : z = Append(s, b)
  BY <1>2
<1>4. /\ blocks' \in [Flows -> Seq(Block)] /\ blocks'[f] = z
      /\ \A g \in Flows : g # f => blocks'[g] = blocks[g]
  BY <1>1, <1>3
<1> QED
  BY <1>1, <1>2, <1>3, <1>4, Zenon DEF Opened

\* Dropping the last closes.
LEMMA Closing ==
  ASSUME blocks \in [Flows -> Seq(Block)], NEW f \in Flows, blocks[f] # << >>,
         blocks' = [blocks EXCEPT ![f] = SubSeq(@, 1, Len(@) - 1)]
  PROVE  Closed(f) /\ Len(blocks[f]) > 0
<1>1. PICK s \in Seq(Block) : s = blocks[f] /\ s # << >>
  OBVIOUS
<1>2. Len(s) \in Nat /\ Len(s) # 0
  BY <1>1, LenProperties, EmptySeq
<1>3. PICK k \in Nat : k = Len(s) - 1 /\ k <= Len(s) /\ Len(s) > 0
  <2>1. Len(s) - 1 \in Nat /\ Len(s) - 1 <= Len(s) /\ Len(s) > 0
    BY <1>2
  <2> QED
    BY <2>1
<1>4. \A i \in 1 .. k : s[i] \in Block
  BY <1>2, <1>3, ElementOfSeq
<1>5. /\ SubSeq(s, 1, k) \in Seq(Block) /\ Len(SubSeq(s, 1, k)) = k
      /\ \A i \in 1 .. k : SubSeq(s, 1, k)[i] = s[i]
  BY <1>2, <1>3, <1>4, SubSeqProperties
<1>6. PICK z \in Seq(Block) : z = SubSeq(s, 1, k)
  BY <1>5
<1>7. /\ blocks' \in [Flows -> Seq(Block)] /\ blocks'[f] = z
      /\ \A g \in Flows : g # f => blocks'[g] = blocks[g]
  BY <1>1, <1>3, <1>6
<1>8. Closed(f)
  BY <1>1, <1>2, <1>3, <1>5, <1>6, <1>7, Zenon DEF Closed
<1> QED
  BY <1>1, <1>3, <1>8

\* A block that opens takes an object of its own.
LEMMA OpensKeep ==
  ASSUME PolicyInv, NEW f \in Flows, NEW b \in Block, ~ Used(b.obj), Opened(f, b),
         objs' = [objs EXCEPT ![b.obj] = [previous |-> b.entered, temp |-> b.temp]],
         \A n \in DOMAIN registry' \cap TempNames : n \in DOMAIN registry \/ n = b.temp
  PROVE  HoldInv' /\ OnceInv' /\ FreeInv' /\ KeptInv'
<1>1. PICK l \in Nat : l = Len(blocks[f])
  BY DEF Opened
<1>2. /\ blocks' \in [Flows -> Seq(Block)]
      /\ \A g \in Flows : g # f => blocks'[g] = blocks[g]
      /\ Len(blocks'[f]) = l + 1 /\ blocks'[f][l + 1] = b
      /\ \A i \in 1 .. l : blocks'[f][i] = blocks[f][i]
  BY <1>1, Zenon DEF Opened
<1>3. b.obj \in Objects
  BY DEF Block
<1>4. /\ objs'[b.obj] = [previous |-> b.entered, temp |-> b.temp]
      /\ \A o \in Objects : o # b.obj => objs'[o] = objs[o]
  BY <1>3 DEF PolicyInv, PolicyTypes
<1>5. ASSUME NEW g \in Flows, NEW i \in 1 .. Len(blocks'[g])
      PROVE  \/ g = f /\ i = l + 1 /\ blocks'[g][i] = b
             \/ i \in 1 .. Len(blocks[g]) /\ blocks'[g][i] = blocks[g][i] /\ ~ (g = f /\ i = l + 1)
  <2>1. CASE g # f
    BY <1>2, <2>1
  <2>2. CASE g = f /\ i = l + 1
    BY <1>2, <2>2
  <2>3. CASE g = f /\ i # l + 1
    <3>1. i \in 1 .. l + 1
      BY <1>2, <2>3
    <3>2. i \in 1 .. l
      BY <2>3, <3>1
    <3> QED
      BY <1>1, <1>2, <2>3, <3>2
  <2> QED
    BY <2>1, <2>2, <2>3
<1>6. ASSUME NEW g \in Flows, NEW i \in 1 .. Len(blocks[g])
      PROVE  i \in 1 .. Len(blocks'[g]) /\ blocks'[g][i] = blocks[g][i]
  <2>1. CASE g # f
    BY <1>2, <2>1
  <2>2. CASE g = f
    <3>1. i \in 1 .. l /\ i \in 1 .. l + 1
      BY <1>1, <2>2
    <3> QED
      BY <1>1, <1>2, <2>2, <3>1
  <2> QED
    BY <2>1, <2>2
<1>7. f \in Flows /\ l + 1 \in 1 .. Len(blocks'[f]) /\ blocks'[f][l + 1] = b
  BY <1>2
<1>8. ASSUME NEW g \in Flows, NEW i \in 1 .. Len(blocks[g])
      PROVE  blocks[g][i].obj \in Objects /\ blocks[g][i].obj # b.obj
  <2>1. blocks[g][i] \in Block
    BY BlockTypes DEF PolicyInv, PolicyTypes
  <2> QED
    BY <2>1 DEF Used, Block
<1>9. HoldInv'
  <2>1. ASSUME NEW g \in Flows, NEW i \in 1 .. Len(blocks'[g])
        PROVE  objs'[blocks'[g][i].obj] = [previous |-> blocks'[g][i].entered, temp |-> blocks'[g][i].temp]
    <3>1. CASE blocks'[g][i] = b
      BY <1>4, <3>1
    <3>2. CASE i \in 1 .. Len(blocks[g]) /\ blocks'[g][i] = blocks[g][i]
      BY <1>4, <1>8, <3>2 DEF PolicyInv, HoldInv
    <3> QED
      BY <1>5, <3>1, <3>2
  <2> QED
    BY <2>1 DEF HoldInv
<1>10. OnceInv'
  <2>1. ASSUME NEW g \in Flows, NEW h \in Flows, NEW i \in 1 .. Len(blocks'[g]), NEW j \in 1 .. Len(blocks'[h]),
               blocks'[g][i].obj = blocks'[h][j].obj
        PROVE  g = h /\ i = j
    <3>1. CASE i \in 1 .. Len(blocks[g]) /\ blocks'[g][i] = blocks[g][i]
      <4>1. blocks'[h][j] # b
        BY <1>8, <2>1, <3>1
      <4>2. j \in 1 .. Len(blocks[h]) /\ blocks'[h][j] = blocks[h][j]
        BY <1>5, <4>1
      <4> QED
        BY <2>1, <3>1, <4>2 DEF PolicyInv, OnceInv
    <3>2. CASE g = f /\ i = l + 1 /\ blocks'[g][i] = b
      <4>1. ~ (j \in 1 .. Len(blocks[h]) /\ blocks'[h][j] = blocks[h][j])
        BY <1>8, <2>1, <3>2
      <4> QED
        BY <1>5, <3>2, <4>1
    <3> QED
      BY <1>5, <3>1, <3>2
  <2> QED
    BY <2>1 DEF OnceInv
<1>11. FreeInv'
  <2>1. ASSUME NEW o \in Objects PROVE Used(o)' \/ objs'[o].temp = None
    <3>1. CASE o = b.obj
      BY <1>7, <3>1 DEF Used
    <3>2. CASE o # b.obj /\ Used(o)
      BY <1>6, <3>2 DEF Used
    <3>3. CASE o # b.obj /\ ~ Used(o)
      BY <1>4, <3>3 DEF PolicyInv, FreeInv
    <3> QED
      BY <3>1, <3>2, <3>3
  <2> QED
    BY <2>1 DEF FreeInv
<1>12. KeptInv'
  <2>1. ASSUME NEW n \in DOMAIN registry' \cap TempNames PROVE Kept(n)'
    <3>1. CASE n \in DOMAIN registry
      <4>1. Kept(n)
        BY <3>1 DEF PolicyInv, KeptInv
      <4> QED
        BY <1>6, <4>1 DEF Kept
    <3>2. CASE n = b.temp
      BY <1>7, <3>2 DEF Kept
    <3> QED
      BY <3>1, <3>2
  <2> QED
    BY <2>1 DEF KeptInv
<1> QED
  BY <1>9, <1>10, <1>11, <1>12

\* A block that closes takes its own policy along and no other.
LEMMA ClosesKeep ==
  ASSUME PolicyInv, NEW f \in Flows, Len(blocks[f]) > 0, Closed(f),
         objs' = [objs EXCEPT ![blocks[f][Len(blocks[f])].obj].temp = None],
         \A n \in DOMAIN registry' : n \in DOMAIN registry /\ n # objs[blocks[f][Len(blocks[f])].obj].temp
  PROVE  HoldInv' /\ OnceInv' /\ FreeInv' /\ KeptInv'
<1>1. PICK l \in Nat : l = Len(blocks[f]) /\ l > 0
  BY DEF Closed
<1>2. /\ blocks' \in [Flows -> Seq(Block)]
      /\ \A g \in Flows : g # f => blocks'[g] = blocks[g]
      /\ Len(blocks'[f]) = l - 1
      /\ \A i \in 1 .. l - 1 : blocks'[f][i] = blocks[f][i]
  BY <1>1, Zenon DEF Closed
<1>3. PICK b \in Block : b = blocks[f][l]
  BY <1>1, BlockTypes DEF PolicyInv, PolicyTypes
<1>4. /\ objs'[b.obj].temp = None
      /\ \A o \in Objects : o # b.obj => objs'[o] = objs[o]
  <2>1. objs' = [objs EXCEPT ![b.obj].temp = None] /\ b.obj \in Objects
    BY <1>1, <1>3 DEF Block
  <2> QED
    BY <2>1 DEF PolicyInv, PolicyTypes
<1>5. ASSUME NEW g \in Flows, NEW i \in 1 .. Len(blocks'[g])
      PROVE  i \in 1 .. Len(blocks[g]) /\ blocks'[g][i] = blocks[g][i] /\ ~ (g = f /\ i = l)
  <2>1. CASE g # f
    BY <1>2, <2>1
  <2>2. CASE g = f
    <3>1. i \in 1 .. l - 1
      BY <1>2, <2>2
    <3> QED
      BY <1>1, <1>2, <2>2, <3>1
  <2> QED
    BY <2>1, <2>2
<1>6. ASSUME NEW g \in Flows, NEW i \in 1 .. Len(blocks[g]), ~ (g = f /\ i = l)
      PROVE  i \in 1 .. Len(blocks'[g]) /\ blocks'[g][i] = blocks[g][i]
  <2>1. CASE g # f
    BY <1>2, <2>1
  <2>2. CASE g = f
    <3>1. i \in 1 .. l - 1
      BY <1>1, <1>6, <2>2
    <3> QED
      BY <1>1, <1>2, <2>2, <3>1
  <2> QED
    BY <2>1, <2>2
<1>7. l \in 1 .. Len(blocks[f])
  BY <1>1
<1>8. ASSUME NEW g \in Flows, NEW i \in 1 .. Len(blocks[g]), ~ (g = f /\ i = l)
      PROVE  blocks[g][i].obj \in Objects /\ blocks[g][i].obj # b.obj
  <2>1. blocks[g][i] \in Block
    BY BlockTypes DEF PolicyInv, PolicyTypes
  <2>2. blocks[g][i].obj # blocks[f][l].obj
    BY <1>7, <1>8 DEF PolicyInv, OnceInv
  <2> QED
    BY <1>3, <2>1, <2>2 DEF Block
<1>9. HoldInv'
  <2>1. ASSUME NEW g \in Flows, NEW i \in 1 .. Len(blocks'[g])
        PROVE  objs'[blocks'[g][i].obj] = [previous |-> blocks'[g][i].entered, temp |-> blocks'[g][i].temp]
    <3>1. i \in 1 .. Len(blocks[g]) /\ blocks'[g][i] = blocks[g][i] /\ ~ (g = f /\ i = l)
      BY <1>5
    <3>2. objs'[blocks[g][i].obj] = objs[blocks[g][i].obj]
      BY <1>4, <1>8, <3>1
    <3> QED
      BY <3>1, <3>2 DEF PolicyInv, HoldInv
  <2> QED
    BY <2>1 DEF HoldInv
<1>10. OnceInv'
  <2>1. ASSUME NEW g \in Flows, NEW h \in Flows, NEW i \in 1 .. Len(blocks'[g]), NEW j \in 1 .. Len(blocks'[h]),
               blocks'[g][i].obj = blocks'[h][j].obj
        PROVE  g = h /\ i = j
    <3>1. /\ i \in 1 .. Len(blocks[g]) /\ blocks'[g][i] = blocks[g][i]
          /\ j \in 1 .. Len(blocks[h]) /\ blocks'[h][j] = blocks[h][j]
      BY <1>5
    <3> QED
      BY <2>1, <3>1 DEF PolicyInv, OnceInv
  <2> QED
    BY <2>1 DEF OnceInv
<1>11. FreeInv'
  <2>1. ASSUME NEW o \in Objects PROVE Used(o)' \/ objs'[o].temp = None
    <3>1. CASE o = b.obj
      BY <1>4, <3>1
    <3>2. CASE o # b.obj /\ Used(o)
      <4>1. PICK g \in Flows : \E i \in 1 .. Len(blocks[g]) : blocks[g][i].obj = o
        BY <3>2 DEF Used
      <4>2. PICK i \in 1 .. Len(blocks[g]) : blocks[g][i].obj = o
        BY <4>1
      <4>3. ~ (g = f /\ i = l)
        BY <1>3, <3>2, <4>2
      <4> QED
        BY <1>6, <4>2, <4>3 DEF Used
    <3>3. CASE o # b.obj /\ ~ Used(o)
      BY <1>4, <3>3 DEF PolicyInv, FreeInv
    <3> QED
      BY <3>1, <3>2, <3>3
  <2> QED
    BY <2>1 DEF FreeInv
<1>12. KeptInv'
  <2>1. ASSUME NEW n \in DOMAIN registry' \cap TempNames PROVE Kept(n)'
    <3>1. n \in DOMAIN registry /\ n # objs[b.obj].temp
      BY <1>1, <1>3
    <3>2. objs[b.obj].temp = b.temp
      <4>1. objs[blocks[f][l].obj] = [previous |-> blocks[f][l].entered, temp |-> blocks[f][l].temp]
        BY <1>7 DEF PolicyInv, HoldInv
      <4>2. objs[b.obj] = [previous |-> b.entered, temp |-> b.temp]
        BY <1>3, <4>1
      <4> QED
        BY <4>2
    <3>3. PICK g \in Flows : \E i \in 1 .. Len(blocks[g]) : blocks[g][i].temp = n
      BY <3>1 DEF PolicyInv, KeptInv, Kept
    <3>4. PICK i \in 1 .. Len(blocks[g]) : blocks[g][i].temp = n
      BY <3>3
    <3>5. ~ (g = f /\ i = l)
      BY <1>3, <3>1, <3>2, <3>4
    <3> QED
      BY <1>6, <3>4, <3>5 DEF Kept
  <2> QED
    BY <2>1 DEF KeptInv
<1> QED
  BY <1>9, <1>10, <1>11, <1>12

\* A step that leaves blocks and objects alone and adds no temporary policy.
LEMMA ApartKeep ==
  ASSUME PolicyInv, UNCHANGED <<blocks, objs>>,
         \A n \in DOMAIN registry' \cap TempNames : n \in DOMAIN registry
  PROVE  HoldInv' /\ OnceInv' /\ FreeInv' /\ KeptInv'
<1>1. HoldInv'
  BY DEF PolicyInv, HoldInv
<1>2. OnceInv'
  BY DEF PolicyInv, OnceInv
<1>3. FreeInv'
  BY DEF PolicyInv, FreeInv, Used
<1>4. KeptInv'
  BY DEF PolicyInv, KeptInv, Kept
<1> QED
  BY <1>1, <1>2, <1>3, <1>4

\* The names and the objects as the constants give them.
LEMMA Named ==
  /\ Names \subseteq AllNames /\ TempNames \subseteq AllNames /\ Names \cap TempNames = {}
  /\ None \notin AllNames
  /\ \A o \in Objects : Argument[o] \in Names \cup {Inline}
BY ScopeAssumption DEF AllNames

\* __exit__ closes the innermost block of the flow.
LEMMA ExitKeeps ==
  ASSUME PolicyInv, NEW f \in Flows, Exit(f)
  PROVE  /\ PolicyInv' /\ Closed(f)
         /\ ctx'[f] = blocks[f][Len(blocks[f])].entered
<1>1. Closed(f) /\ Len(blocks[f]) > 0
  BY Closing DEF Exit, PolicyInv, PolicyTypes
<1>2. PICK l \in Nat : l = Len(blocks[f]) /\ l \in 1 .. Len(blocks[f])
  BY <1>1 DEF Closed
<1>3. PICK b \in Block : b = blocks[f][l] /\ b.obj \in Objects
  BY <1>2, BlockTypes DEF PolicyInv, PolicyTypes, Block
<1>4. /\ ctx' = [ctx EXCEPT ![f] = objs[b.obj].previous]
      /\ objs' = [objs EXCEPT ![b.obj].temp = None]
      /\ registry' = [n \in DOMAIN registry \ {objs[b.obj].temp} |-> registry[n]]
      /\ UNCHANGED <<policyName, running>>
  BY <1>2, <1>3 DEF Exit, LeaveObject, Without, Restrict
<1>5. objs[b.obj] \in [previous : AllNames \cup {None}, temp : TempNames \cup {None}]
  BY <1>3 DEF PolicyInv, PolicyTypes
<1>6. PICK prev \in AllNames \cup {None} : prev = objs[b.obj].previous
  BY <1>5
<1>7. ctx' \in [Flows -> AllNames \cup {None}] /\ ctx'[f] = prev
  BY <1>4, <1>6 DEF PolicyInv, PolicyTypes
<1>8. objs' \in [Objects -> [previous : AllNames \cup {None}, temp : TempNames \cup {None}]]
  BY <1>3, <1>4 DEF PolicyInv, PolicyTypes
<1>9. /\ DOMAIN registry' \subseteq AllNames
      /\ \A n \in DOMAIN registry' : registry'[n] \in Bodies \cup {{}}
      /\ \A n \in DOMAIN registry' : n \in DOMAIN registry /\ n # objs[b.obj].temp
  BY <1>4 DEF PolicyInv, PolicyTypes
<1>10. PolicyTypes'
  BY <1>1, <1>4, <1>7, <1>8, <1>9 DEF PolicyInv, PolicyTypes, Closed
<1>11. HoldInv' /\ OnceInv' /\ FreeInv' /\ KeptInv'
  BY <1>1, <1>2, <1>3, <1>4, <1>9, ClosesKeep
<1>12. prev = b.entered
  <2>1. objs[blocks[f][l].obj] = [previous |-> blocks[f][l].entered, temp |-> blocks[f][l].temp]
    BY <1>2 DEF PolicyInv, HoldInv
  <2>2. objs[b.obj] = [previous |-> b.entered, temp |-> b.temp]
    BY <1>3, <2>1
  <2> QED
    BY <1>6, <2>2
<1> QED
  BY <1>1, <1>2, <1>3, <1>7, <1>10, <1>11, <1>12 DEF PolicyInv

\* __enter__ opens one, with or without a policy of its own.
LEMMA EnterKeeps ==
  ASSUME PolicyInv, NEW f \in Flows, NEW o \in Objects, EnterNamed(f, o) \/ EnterInline(f, o)
  PROVE  PolicyInv' /\ \E b \in Block : Opened(f, b)
<1> DEFINE ObjType == [previous : AllNames \cup {None}, temp : TempNames \cup {None}]
<1>1. ~ Used(o)
  BY UseKnown DEF EnterNamed, EnterInline, CanEnter, PolicyInv, PolicyTypes
<1>2. PICK prev \in AllNames \cup {None} : prev = ctx[f]
  BY DEF PolicyInv, PolicyTypes
<1> DEFINE Goes(temp, name) ==
      /\ blocks' = [blocks EXCEPT ![f] = Append(@, [obj |-> o, entered |-> prev, temp |-> temp])]
      /\ objs' = [objs EXCEPT ![o] = [previous |-> prev, temp |-> temp]]
      /\ ctx' = [ctx EXCEPT ![f] = name]
      /\ \A n \in DOMAIN registry' : /\ n \in DOMAIN registry \/ (n = temp /\ n \in TempNames)
                                     /\ registry'[n] \in Bodies \cup {{}}
      /\ UNCHANGED <<policyName, running>>
<1>3. PICK temp \in TempNames \cup {None}, name \in AllNames : Goes(temp, name)
  <2>1. CASE EnterNamed(f, o)
    <3>1. objs[o] \in ObjType /\ objs[o].temp = None
      BY <1>1 DEF PolicyInv, PolicyTypes, FreeInv
    <3>2. [objs[o] EXCEPT !.previous = prev] = [previous |-> prev, temp |-> None]
      BY <3>1
    <3>3. objs' = [objs EXCEPT ![o] = [previous |-> prev, temp |-> None]]
      <4>1. objs' = [objs EXCEPT ![o].previous = prev]
        BY <1>2, <2>1 DEF EnterNamed
      <4>2. objs' = [objs EXCEPT ![o] = [objs[o] EXCEPT !.previous = prev]]
        BY <4>1
      <4> QED
        BY <3>2, <4>2
    <3>4. blocks' = [blocks EXCEPT ![f] = Append(@, [obj |-> o, entered |-> prev, temp |-> None])]
      BY <1>2, <2>1 DEF EnterNamed, Open
    <3>5. PICK name \in AllNames : ctx' = [ctx EXCEPT ![f] = name]
      BY <2>1, Named DEF EnterNamed
    <3>6. registry' = registry /\ UNCHANGED <<policyName, running>>
      BY <2>1 DEF EnterNamed
    <3>7. Goes(None, name)
      BY <3>3, <3>4, <3>5, <3>6 DEF PolicyInv, PolicyTypes
    <3> HIDE DEF Goes
    <3> QED
      BY <3>7
  <2>2. CASE EnterInline(f, o)
    <3>1. PICK temp \in FreshNames, body \in Bodies :
            /\ objs' = [objs EXCEPT ![o] = [previous |-> ctx[f], temp |-> temp]]
            /\ registry' = [n \in DOMAIN registry \cup {temp} |-> IF n = temp THEN body ELSE registry[n]]
            /\ ctx' = [ctx EXCEPT ![f] = temp]
            /\ Open(f, o, temp)
      BY <2>2 DEF EnterInline
    <3>2. temp \in TempNames /\ temp \in AllNames
      BY Named DEF FreshNames
    <3>3. /\ DOMAIN registry' = DOMAIN registry \cup {temp}
          /\ \A n \in DOMAIN registry' : registry'[n] \in Bodies \cup {{}}
      BY <3>1 DEF PolicyInv, PolicyTypes
    <3>4. blocks' = [blocks EXCEPT ![f] = Append(@, [obj |-> o, entered |-> prev, temp |-> temp])]
      BY <1>2, <3>1 DEF Open
    <3>5. UNCHANGED <<policyName, running>>
      BY <2>2 DEF EnterInline
    <3>6. Goes(temp, temp)
      BY <1>2, <3>1, <3>2, <3>3, <3>4, <3>5
    <3> HIDE DEF Goes
    <3> QED
      BY <3>2, <3>6
  <2> QED
    BY <2>1, <2>2
<1>4. PICK b \in Block : b = [obj |-> o, entered |-> prev, temp |-> temp]
  BY DEF Block
<1>5. b.obj = o /\ b.entered = prev /\ b.temp = temp
  BY <1>4
<1>6. Opened(f, b)
  BY <1>3, <1>4, Opening DEF PolicyInv, PolicyTypes
<1>7. [previous |-> prev, temp |-> temp] \in ObjType
  OBVIOUS
<1>8. PolicyTypes'
  <2>1. objs' \in [Objects -> ObjType]
    BY <1>3, <1>7 DEF PolicyInv, PolicyTypes
  <2>2. ctx' \in [Flows -> AllNames \cup {None}]
    BY <1>3 DEF PolicyInv, PolicyTypes
  <2>3. DOMAIN registry' \subseteq AllNames
    BY <1>3, Named DEF PolicyInv, PolicyTypes
  <2> QED
    BY <1>3, <1>6, <2>1, <2>2, <2>3 DEF PolicyInv, PolicyTypes, Opened
<1>9. HoldInv' /\ OnceInv' /\ FreeInv' /\ KeptInv'
  BY <1>1, <1>3, <1>5, <1>6, OpensKeep
<1> QED
  BY <1>6, <1>8, <1>9 DEF PolicyInv

\* An __enter__ that raises leaves its object as it found it.
LEMMA RefusedKeeps ==
  ASSUME PolicyInv, NEW f \in Flows, NEW o \in Objects, EnterRefused(f, o)
  PROVE  PolicyInv'
<1> DEFINE ObjType == [previous : AllNames \cup {None}, temp : TempNames \cup {None}]
<1>1. ~ Used(o)
  BY UseKnown DEF EnterRefused, CanEnter, PolicyInv, PolicyTypes
<1>2. PICK rec \in ObjType : rec = [previous |-> ctx[f], temp |-> None]
  BY DEF PolicyInv, PolicyTypes
<1>3. objs' = [objs EXCEPT ![o] = rec] /\ UNCHANGED <<policyName, registry, running, ctx, blocks>>
  BY <1>2 DEF EnterRefused
<1>4. objs' \in [Objects -> ObjType] /\ objs'[o].temp = None /\ \A p \in Objects : p # o => objs'[p] = objs[p]
  BY <1>2, <1>3 DEF PolicyInv, PolicyTypes
<1>5. PolicyTypes'
  BY <1>3, <1>4 DEF PolicyInv, PolicyTypes
<1>6. HoldInv'
  <2>1. ASSUME NEW g \in Flows, NEW i \in 1 .. Len(blocks[g])
        PROVE  objs'[blocks[g][i].obj] = [previous |-> blocks[g][i].entered, temp |-> blocks[g][i].temp]
    <3>1. blocks[g][i] \in Block
      BY BlockTypes DEF PolicyInv, PolicyTypes
    <3>2. blocks[g][i].obj # o /\ blocks[g][i].obj \in Objects
      BY <1>1, <3>1 DEF Used, Block
    <3> QED
      BY <1>4, <3>2 DEF PolicyInv, HoldInv
  <2> QED
    BY <1>3, <2>1 DEF HoldInv
<1>7. OnceInv'
  BY <1>3 DEF PolicyInv, OnceInv
<1>8. FreeInv'
  BY <1>3, <1>4 DEF PolicyInv, FreeInv, Used
<1>9. KeptInv'
  BY <1>3 DEF PolicyInv, KeptInv, Kept
<1> QED
  BY <1>5, <1>6, <1>7, <1>8, <1>9 DEF PolicyInv

\* What the other steps do to the registry and the contexts.
LEMMA OthersKeep ==
  ASSUME PolicyInv, NEW f \in Flows,
         \/ CallDirect(f) \/ CallNamed(f) \/ CallAuto(f)
         \/ ApplyOne(f) \/ ApplyRaises(f) \/ CallFunction(f) \/ Start(f) \/ Finish(f) \/ Drop(f)
         \/ Resume(f) \/ Suspend(f) \/ Register(f) \/ Unregister(f) \/ SetThreadPolicy(f)
  PROVE  PolicyInv' /\ blocks' = blocks
<1>1. ASSUME UNCHANGED <<registry, ctx, blocks, objs>>, policyName' \in AllNames \cup {None},
             running' \in [Threads -> Flows \cup {None}]
      PROVE  PolicyInv' /\ blocks' = blocks
  <2>1. PolicyTypes'
    BY <1>1 DEF PolicyInv, PolicyTypes
  <2> QED
    BY <1>1, <2>1, ApartKeep DEF PolicyInv
<1>2. ASSUME UNCHANGED <<policyName, running, blocks, objs>>,
             ctx' \in [Flows -> AllNames \cup {None}],
             DOMAIN registry' \subseteq DOMAIN registry \cup Names,
             \A n \in DOMAIN registry' : registry'[n] \in Bodies \cup {{}}
      PROVE  PolicyInv' /\ blocks' = blocks
  <2>1. PolicyTypes'
    BY <1>2, Named DEF PolicyInv, PolicyTypes
  <2>2. \A n \in DOMAIN registry' \cap TempNames : n \in DOMAIN registry
    BY <1>2, Named
  <2> QED
    BY <1>2, <2>1, <2>2, ApartKeep DEF PolicyInv
<1>3. /\ policyName \in AllNames \cup {None} /\ running \in [Threads -> Flows \cup {None}]
      /\ ctx \in [Flows -> AllNames \cup {None}]
      /\ \A n \in DOMAIN registry : n \in AllNames /\ registry[n] \in Bodies \cup {{}}
  BY DEF PolicyInv, PolicyTypes
<1>4. CASE CallDirect(f) \/ ApplyOne(f) \/ ApplyRaises(f) \/ CallFunction(f) \/ Start(f) \/ Finish(f) \/ Drop(f)
  BY <1>1, <1>3, <1>4 DEF CallDirect, ApplyOne, ApplyRaises, CallFunction, Start, Finish, Drop
<1>5. CASE CallNamed(f) \/ CallAuto(f)
  <2>1. PICK name \in AllNames \cup {None} : CallPolicy(f, name)
    BY <1>3, <1>5, Named DEF CallNamed, CallAuto
  <2>2. policyName' \in AllNames \cup {None}
    BY <1>3, <2>1 DEF CallPolicy
  <2> QED
    BY <1>1, <1>3, <2>1, <2>2 DEF CallPolicy
<1>6. CASE Resume(f) \/ Suspend(f)
  <2>1. running' \in [Threads -> Flows \cup {None}]
    BY <1>3, <1>6 DEF Resume, Suspend
  <2> QED
    BY <1>1, <1>3, <1>6, <2>1 DEF Resume, Suspend
<1>7. CASE Register(f)
  <2>1. PICK name \in Names, body \in Bodies \cup {{}} :
          registry' = [n \in DOMAIN registry \cup {name} |-> IF n = name THEN body ELSE registry[n]]
    BY <1>7 DEF Register
  <2>2. /\ DOMAIN registry' \subseteq DOMAIN registry \cup Names
        /\ \A n \in DOMAIN registry' : registry'[n] \in Bodies \cup {{}}
    BY <1>3, <2>1
  <2> QED
    BY <1>2, <1>3, <1>7, <2>2 DEF Register
<1>8. CASE Unregister(f)
  <2>1. PICK names : registry' = [n \in DOMAIN registry \ names |-> registry[n]]
    BY <1>8 DEF Unregister, Without, Restrict
  <2>2. /\ DOMAIN registry' \subseteq DOMAIN registry \cup Names
        /\ \A n \in DOMAIN registry' : registry'[n] \in Bodies \cup {{}}
    BY <1>3, <2>1
  <2> QED
    BY <1>2, <1>3, <1>8, <2>2 DEF Unregister
<1>9. CASE SetThreadPolicy(f)
  <2>1. ctx' \in [Flows -> AllNames \cup {None}]
    BY <1>3, <1>9, Named DEF SetThreadPolicy
  <2> QED
    BY <1>2, <1>3, <1>9, <2>1 DEF SetThreadPolicy
<1> QED
  BY <1>4, <1>5, <1>6, <1>7, <1>8, <1>9

-----------------------------------------------------------------------------
(* The invariant of the whole.                                             *)

ScopeInv == StackInv /\ RowType /\ MarkInv /\ PolicyInv

\* The parts of the type invariant.
LEMMA TypesJoin ==
  ASSUME StackInv, RowType, PolicyTypes
  PROVE  TypeOK
<1>1. calls \in [Flows -> Seq(Frame)] /\ \A f \in Flows : Depth(f) <= MaxDepth
  BY DEF StackInv, StackOK
<1>2. \A f \in Flows : \A i \in 1..(Depth(f) - 1) :
        calls[f][i].phase \in (IF calls[f][i].role = "wrapper" THEN {"waiting"} ELSE {"run"})
  BY DEF StackInv, StackOK
<1> QED
  BY <1>1, <1>2 DEF TypeOK, RowType, PolicyTypes

\* The invariant holds at the start.
LEMMA ScopeStarts ==
  ASSUME Init
  PROVE  ScopeInv
<1>1. \A f \in Flows : calls[f] = << >> /\ blocks[f] = << >>
  BY DEF Init
<1>2. \A f \in Flows : Depth(f) = 0 /\ Len(blocks[f]) = 0
  BY <1>1 DEF Depth
<1>3. StackInv
  <2>1. calls \in [Flows -> Seq(Frame)]
    BY DEF Init
  <2>2. ASSUME NEW f \in Flows PROVE StackOK(f)
    BY <1>2, Placed DEF StackOK
  <2> QED
    BY <2>1, <2>2 DEF StackInv
<1>4. RowType /\ \A th \in Threads, x \in Fields : row[th][x] = None
  BY DEF Init, RowType, Unwritten
<1>5. MarkInv
  BY <1>4 DEF MarkInv, Stands
<1>6. PolicyTypes
  <2>1. blocks \in [Flows -> Seq(Block)]
    BY DEF Init
  <2>2. DOMAIN registry = {}
    BY DEF Init
  <2>3. objs \in [Objects -> [previous : AllNames \cup {None}, temp : TempNames \cup {None}]]
    BY DEF Init
  <2> QED
    BY <2>1, <2>2, <2>3 DEF Init, PolicyTypes
<1>7. HoldInv /\ OnceInv
  BY <1>2 DEF HoldInv, OnceInv
<1>8. FreeInv
  BY DEF FreeInv, Init
<1>9. KeptInv
  BY DEF KeptInv, Init
<1> QED
  BY <1>3, <1>4, <1>5, <1>6, <1>7, <1>8, <1>9 DEF ScopeInv, PolicyInv

\* A step of a flow keeps what concerns policies.
LEMMA PolicyKeeps ==
  ASSUME PolicyInv, NEW f \in Flows, Step(f)
  PROVE  PolicyInv'
<1>1. CASE Exit(f)
  BY <1>1, ExitKeeps
<1>2. ASSUME NEW o \in Objects, EnterNamed(f, o) \/ EnterInline(f, o) PROVE PolicyInv'
  BY <1>2, EnterKeeps
<1>3. ASSUME NEW o \in Objects, EnterRefused(f, o) PROVE PolicyInv'
  BY <1>3, RefusedKeeps
<1> QED
  BY <1>1, <1>2, <1>3, OthersKeep DEF Step

\* Every step keeps the invariant.
LEMMA ScopeStep ==
  ASSUME ScopeInv, [Next]_vars
  PROVE  ScopeInv'
<1>1. ASSUME NEW f \in Flows, Step(f) PROVE ScopeInv'
  <2>1. TypeOK
    BY TypesJoin DEF ScopeInv, PolicyInv
  <2>2. Kinds(f)
    BY <1>1, <2>1, StepKinds
  <2>3. StackInv' /\ MarkInv' /\ RowType'
    BY <2>2, KindsKeep DEF ScopeInv
  <2>4. PolicyInv'
    BY <1>1, PolicyKeeps DEF ScopeInv
  <2> QED
    BY <2>3, <2>4 DEF ScopeInv
<1>2. CASE UNCHANGED vars
  <2>1. RowType' /\ StackInv'
    <3>1. UNCHANGED <<row, policyName, registry, running, calls, ctx, blocks, objs>>
      BY <1>2 DEF vars
    <3>2. ASSUME NEW g \in Flows PROVE StackOK(g)'
      BY <3>1, StackStays DEF ScopeInv, StackInv
    <3>3. StackInv'
      BY <3>1, <3>2 DEF ScopeInv, StackInv
    <3>4. RowType'
      BY <3>1 DEF ScopeInv, RowType
    <3> QED
      BY <3>3, <3>4
  <2>2. MarkInv'
    <3>1. ASSUME NEW th \in Threads, NEW x \in Fields PROVE Stands(th, x)'
      BY <1>2, MarkStays, PlaceStays DEF MarkInv, ScopeInv, vars
    <3> QED
      BY <3>1 DEF MarkInv
  <2>3. PolicyInv'
    <3>1. PolicyTypes'
      BY <1>2 DEF ScopeInv, PolicyInv, PolicyTypes, vars
    <3> QED
      BY <1>2, <3>1, ApartKeep DEF ScopeInv, PolicyInv, vars
  <2> QED
    BY <2>1, <2>2, <2>3 DEF ScopeInv
<1> QED
  BY <1>1, <1>2 DEF Next

\* The stacks keep their shape, the marks in the rows stand for calls, and the registry, the
\* blocks and their objects agree, throughout.
THEOREM ScopeInvariant == Spec => []ScopeInv
<1>1. Init => ScopeInv
  BY ScopeStarts
<1>2. ScopeInv /\ [Next]_vars => ScopeInv'
  BY ScopeStep
<1> QED
  BY <1>1, <1>2, PTL DEF Spec

\* Every variable keeps its shape, the call stacks included (TypeOK).
THEOREM TypeCorrect == Spec => []TypeOK
<1>1. ScopeInv => TypeOK
  BY TypesJoin DEF ScopeInv, PolicyInv
<1> QED
  BY <1>1, ScopeInvariant, PTL

\* Nothing is left in a thread's row once its calls have ended, in whatever way, but for what
\* coroutines left that were never awaited: the finally blocks of __call__ and _run_async.
THEOREM RowsCleared == Spec => []ClearedAfterwards
<1>1. ScopeInv => ClearedAfterwards
  <2> SUFFICES ASSUME ScopeInv, NEW th \in Threads,
                      \A f \in Flows : ThreadOf[f] = th => calls[f] = << >>,
                      NEW m \in Range(row[th])
               PROVE  m \in {None} \cup {LeftBy(f) : f \in Flows}
    BY DEF ClearedAfterwards
  <2>1. PICK x \in Fields : row[th][x] = m
    BY DEF ScopeInv, RowType, Range
  <2>2. Stands(th, x)
    BY DEF ScopeInv, MarkInv
  <2>3. ASSUME NEW g \in Callers, ThreadOf[g] = th, NEW d, Of(g, d, x) PROVE FALSE
    <3>1. Depth(g) = 0
      BY <2>3, Placed DEF Depth
    <3> QED
      BY <2>3, <3>1 DEF Of
  <2> QED
    BY <2>1, <2>2, <2>3, Placed DEF Stands
<1> QED
  BY <1>1, ScopeInvariant, PTL

\* No temporary policy outlives the with-block that registered it: __exit__ removes it, and
\* only it.
THEOREM NoPolicyLeaks == Spec => []NoLeakedPolicy
<1>1. ScopeInv => NoLeakedPolicy
  BY KeptKnown DEF ScopeInv, PolicyInv, PolicyTypes
<1> QED
  BY <1>1, ScopeInvariant, PTL

\* Leaving a context restores the policy that was set when its block was entered.
THEOREM PoliciesRestored == Spec => RestoredOnExit
<1> DEFINE Restores == \A f \in Flows : Len(blocks'[f]) < Len(blocks[f])
                                          => ctx'[f] = blocks[f][Len(blocks[f])].entered
<1>1. ScopeInv /\ [Next]_vars => [Restores]_vars
  <2> SUFFICES ASSUME ScopeInv, NEW g \in Flows, Step(g), NEW f \in Flows, Len(blocks'[f]) < Len(blocks[f])
               PROVE  ctx'[f] = blocks[f][Len(blocks[f])].entered
    BY DEF Next
  <2>0. PolicyInv /\ Len(blocks[f]) \in Nat
    BY BlockTypes DEF ScopeInv, PolicyInv, PolicyTypes
  <2>1. CASE Exit(g)
    <3>1. Closed(g) /\ ctx'[g] = blocks[g][Len(blocks[g])].entered
      BY <2>0, <2>1, ExitKeeps
    <3>2. f = g
      BY <2>0, <3>1 DEF Closed
    <3> QED
      BY <3>1, <3>2
  <2>2. ASSUME NEW o \in Objects, EnterNamed(g, o) \/ EnterInline(g, o) PROVE FALSE
    <3>1. PICK b \in Block : Opened(g, b)
      BY <2>0, <2>2, EnterKeeps
    <3> QED
      BY <2>0, <3>1 DEF Opened
  <2>3. ASSUME NEW o \in Objects, EnterRefused(g, o) PROVE FALSE
    BY <2>0, <2>3 DEF EnterRefused
  <2>4. blocks' # blocks
    BY <2>0
  <2> QED
    BY <2>0, <2>1, <2>2, <2>3, <2>4, OthersKeep DEF Step
<1> QED
  BY <1>1, ScopeInvariant, PTL DEF Spec, RestoredOnExit

-----------------------------------------------------------------------------
(* The row while a function runs, when every thread has one line of        *)
(* execution that makes decorated calls and no decorated function calls    *)
(* another one.  Without these two conditions the row is shared: one       *)
(* call's end empties it under the other.                                  *)

SoleCaller == \A f, g \in Callers : ThreadOf[f] = ThreadOf[g] => f = g

\* All frames but the top one are those of decorators around one function.
WrapInv == \A f \in Flows : \A i \in 1 .. Depth(f) - 1 : calls[f][i].role = "wrapper"

\* The profile as the lowest k frames leave it: written by the last of them that carries it.
Holds(f, k, x) ==
  \/ \E m \in 1 .. k : /\ row[ThreadOf[f]][x] = <<f, m>> /\ x \in calls[f][m].profiles
                       /\ \A j \in m + 1 .. k : x \notin calls[f][j].profiles
  \/ /\ \A j \in 1 .. k : x \notin calls[f][j].profiles
     /\ row[ThreadOf[f]][x] \in {None, LeftBy(f)}

\* A profile the top frame has yet to write is still as the frames below left it; all others
\* are as the whole stack has them.  Nothing is said of a stack that unwinds.
Active(f) == Depth(f) > 0 /\ Top(f).phase \in {"apply", "run", "pending"}
Waits(f, x) == Top(f).phase = "apply" /\ x \in Top(f).todo
InsideInv ==
  \A f \in Callers, x \in Fields :
    Active(f) => /\ Waits(f, x) => Holds(f, Depth(f) - 1, x)
                 /\ ~ Waits(f, x) => Holds(f, Depth(f), x)

\* The frames and the profile unchanged, so is that.
LEMMA HoldsStays ==
  ASSUME NEW f, NEW k \in Nat, NEW x, Holds(f, k, x), row'[ThreadOf[f]][x] = row[ThreadOf[f]][x],
         \A j \in 1 .. k : calls'[f][j].profiles = calls[f][j].profiles
  PROVE  Holds(f, k, x)'
<1>1. CASE /\ \A j \in 1 .. k : x \notin calls[f][j].profiles
           /\ row[ThreadOf[f]][x] \in {None, LeftBy(f)}
  BY <1>1 DEF Holds, LeftBy
<1>2. ASSUME NEW m \in 1 .. k, row[ThreadOf[f]][x] = <<f, m>>, x \in calls[f][m].profiles,
             \A j \in m + 1 .. k : x \notin calls[f][j].profiles
      PROVE  Holds(f, k, x)'
  <2>1. \A j \in m + 1 .. k : x \notin calls'[f][j].profiles
    BY <1>2
  <2> QED
    BY <1>2, <2>1 DEF Holds
<1> QED
  BY <1>1, <1>2 DEF Holds

\* A thread with no call in progress holds nothing of any call.
LEMMA HoldsNone ==
  ASSUME SoleCaller, MarkInv, NEW f \in Callers, Depth(f) = 0, NEW x \in Fields
  PROVE  Holds(f, 0, x)
<1>1. Stands(ThreadOf[f], x)
  BY Placed DEF MarkInv
<1>2. ASSUME NEW g \in Callers, ThreadOf[g] = ThreadOf[f], NEW d, Of(g, d, x) PROVE FALSE
  <2>1. g = f
    BY <1>2 DEF SoleCaller
  <2> QED
    BY <1>2, <2>1 DEF Of
<1>3. row[ThreadOf[f]][x] \in {None, LeftBy(f)}
  BY <1>1, <1>2 DEF Stands, SoleCaller
<1> QED
  BY <1>3 DEF Holds

\* The stack and the row of a flow unchanged, so is what is said of them.
LEMMA InsideStays ==
  ASSUME StackInv, InsideInv, NEW g \in Callers, calls'[g] = calls[g],
         row'[ThreadOf[g]] = row[ThreadOf[g]], NEW x \in Fields, Active(g)'
  PROVE  /\ Waits(g, x)' => Holds(g, Depth(g) - 1, x)'
         /\ ~ Waits(g, x)' => Holds(g, Depth(g), x)'
<1>1. PICK d \in Nat : d = Depth(g)
  BY Placed DEF StackInv, StackOK
<1>2. Depth(g)' = d /\ Top(g)' = Top(g)
  BY <1>1 DEF Depth, Top
<1>3. Active(g) /\ (Waits(g, x)' <=> Waits(g, x)) /\ d > 0
  BY <1>1, <1>2 DEF Active, Waits
<1>4. PICK k \in Nat : k = d - 1
  <2>1. d - 1 \in Nat
    BY <1>3
  <2> QED
    BY <2>1
<1>5. /\ Waits(g, x) => Holds(g, k, x)
      /\ ~ Waits(g, x) => Holds(g, d, x)
  BY <1>1, <1>3, <1>4 DEF InsideInv
<1>6. /\ Holds(g, k, x) => Holds(g, k, x)'
      /\ Holds(g, d, x) => Holds(g, d, x)'
  BY HoldsStays
<1>7. Depth(g)' - 1 = k
  BY <1>2, <1>4
<1> QED
  BY <1>2, <1>3, <1>5, <1>6, <1>7, Zenon DEF Holds

\* What a step of f says of its own calls and row; of the others', see InsideStays.
InsideNext(f) ==
  \A x \in Fields :
    Active(f)' => /\ Waits(f, x)' => Holds(f, Depth(f) - 1, x)'
                  /\ ~ Waits(f, x)' => Holds(f, Depth(f), x)'

\* A call begins outside every call, or inside the decorators around the same function.
LEMMA EntersInside ==
  ASSUME ~ MayNest, SoleCaller, StackInv, MarkInv, WrapInv, InsideInv,
         NEW f \in Flows, NEW frame \in Frame, Enters(f, frame)
  PROVE  InsideNext(f) /\ \A i \in 1 .. Depth(f)' - 1 : calls'[f][i].role = "wrapper"
<1>1. PICK d \in Nat : d = Depth(f) /\ d = Len(calls[f])
  BY DEF StackInv, StackOK, Depth
<1>2. /\ Len(calls'[f]) = d + 1 /\ calls'[f][d + 1] = frame
      /\ \A i \in 1 .. d :
           calls'[f][i] = IF calls[f][i].role = "wrapper"
                          THEN [calls[f][i] EXCEPT !.phase = "waiting"] ELSE calls[f][i]
  BY <1>1, Zenon DEF Enters, Grown
<1>3. /\ f \in Callers /\ row' = row /\ frame.phase = "apply" /\ frame.todo = frame.profiles
      /\ Phase(f) = "idle" \/ InWrapper(f)
  BY DEF Enters
<1>4. ASSUME NEW i \in 1 .. d PROVE calls'[f][i].profiles = calls[f][i].profiles /\ calls'[f][i].role = calls[f][i].role
  <2>1. calls[f][i] \in Frame
    BY <1>1 DEF StackInv, StackOK
  <2>2. CASE calls[f][i].role = "wrapper"
    <3>1. calls'[f][i] = [calls[f][i] EXCEPT !.phase = "waiting"]
      BY <1>2, <2>2
    <3> QED
      BY <2>1, <3>1 DEF Frame
  <2>3. CASE calls[f][i].role # "wrapper"
    BY <1>2, <2>3
  <2> QED
    BY <2>2, <2>3
<1>5. Depth(f)' = d + 1
  BY <1>2 DEF Depth
<1>6. Top(f)' = frame
  BY <1>2, <1>5 DEF Top
<1>7. d = 0 \/ (d > 0 /\ Top(f).phase = "run" /\ Top(f).role = "wrapper" /\ Top(f) = calls[f][d])
  <2>1. CASE d = 0
    BY <2>1
  <2>2. CASE d # 0
    <3>1. Phase(f) = Top(f).phase /\ Top(f) = calls[f][d]
      BY <1>1, <2>2, Zenon DEF Phase, Top
    <3>2. Top(f) \in Frame
      BY <1>1, <2>2, <3>1 DEF StackInv, StackOK
    <3>3. Phase(f) # "idle"
      BY <3>1, <3>2 DEF Frame
    <3> QED
      BY <1>3, <2>2, <3>1, <3>3 DEF InWrapper
  <2> QED
    BY <2>1, <2>2
<1>8. ASSUME NEW x \in Fields PROVE Holds(f, d, x)
  <2>1. CASE d = 0
    BY <1>1, <1>3, <2>1, HoldsNone
  <2>2. CASE d > 0 /\ Top(f).phase = "run"
    BY <1>1, <1>3, <2>2 DEF InsideInv, Active, Waits
  <2> QED
    BY <1>7, <2>1, <2>2
<1>9. ASSUME NEW x \in Fields PROVE Holds(f, d, x)'
  BY <1>3, <1>4, <1>8, HoldsStays
<1>10. ASSUME NEW x \in Fields, x \notin frame.profiles PROVE Holds(f, d + 1, x)'
  <2>1. CASE /\ \A j \in 1 .. d : x \notin calls'[f][j].profiles
             /\ row'[ThreadOf[f]][x] \in {None, LeftBy(f)}
    <3>1. \A j \in 1 .. d + 1 : x \notin calls'[f][j].profiles
      BY <1>2, <1>10, <2>1
    <3> QED
      BY <2>1, <3>1 DEF Holds, LeftBy
  <2>2. ASSUME NEW m \in 1 .. d, row'[ThreadOf[f]][x] = <<f, m>>, x \in calls'[f][m].profiles,
               \A j \in m + 1 .. d : x \notin calls'[f][j].profiles
        PROVE  Holds(f, d + 1, x)'
    <3>1. m \in 1 .. d + 1 /\ \A j \in m + 1 .. d + 1 : x \notin calls'[f][j].profiles
      BY <1>2, <1>10, <2>2
    <3> QED
      BY <2>2, <3>1 DEF Holds
  <2> QED
    BY <1>9, <2>1, <2>2 DEF Holds, LeftBy
<1>11. InsideNext(f)
  <2>1. ASSUME NEW x \in Fields
        PROVE  /\ Waits(f, x)' => Holds(f, Depth(f) - 1, x)'
               /\ ~ Waits(f, x)' => Holds(f, Depth(f), x)'
    <3>1. Waits(f, x)' <=> x \in frame.profiles
      BY <1>3, <1>6 DEF Waits
    <3>2. Depth(f)' - 1 = d
      BY <1>5
    <3> QED
      BY <1>5, <1>9, <1>10, <3>1, <3>2, Zenon DEF Holds
  <2> QED
    BY <2>1 DEF InsideNext
<1>12. ASSUME NEW i \in 1 .. d PROVE calls'[f][i].role = "wrapper"
  <2>1. CASE i = d
    BY <1>4, <1>7, <2>1
  <2>2. CASE i # d
    <3>1. i \in 1 .. Depth(f) - 1
      BY <1>1, <2>2
    <3> QED
      BY <1>4, <3>1 DEF WrapInv
  <2> QED
    BY <2>1, <2>2
<1> QED
  BY <1>5, <1>11, <1>12

\* A written profile is the top frame's; the others are as they were.
LEMMA WritesInside ==
  ASSUME StackInv, RowType, WrapInv, InsideInv, NEW f \in Flows, NEW x \in Fields, Writes(f, x)
  PROVE  InsideNext(f) /\ \A i \in 1 .. Depth(f)' - 1 : calls'[f][i].role = "wrapper"
<1>1. PICK d \in Nat : d = Depth(f) /\ d = Len(calls[f]) /\ d > 0
  BY DEF StackInv, StackOK, Depth, Writes
<1>2. PICK t \in Frame : t = Top(f) /\ t = calls[f][d] /\ t.todo \subseteq t.profiles
  <2>1. d \in 1 .. Depth(f) /\ Top(f) = calls[f][d]
    BY <1>1 DEF Top
  <2>2. calls[f][d] \in Frame /\ calls[f][d].todo \subseteq calls[f][d].profiles
    BY <2>1 DEF StackInv, StackOK
  <2> QED
    BY <2>1, <2>2
<1>3. PICK frame \in Frame : frame = [Top(f) EXCEPT !.todo = @ \ {x}]
  BY <1>2 DEF Frame
<1>4. frame.profiles = t.profiles /\ frame.todo = t.todo \ {x} /\ frame.phase = t.phase
  BY <1>2, <1>3 DEF Frame
<1>5. t.phase = "apply" /\ x \in t.todo /\ f \in Callers
  BY <1>1, <1>2 DEF Writes, StackInv, StackOK
<1>6. /\ Len(calls'[f]) = d /\ calls'[f][d] = frame
      /\ \A i \in 1 .. d - 1 : calls'[f][i] = calls[f][i]
  <2>1. Retopped(f, frame)
    BY <1>3, Zenon DEF Writes
  <2> QED
    BY <1>1, <2>1, Zenon DEF Retopped
<1>7. Depth(f)' = d /\ Top(f)' = frame
  BY <1>6 DEF Depth, Top
<1>8. ASSUME NEW i \in 1 .. d PROVE calls'[f][i].profiles = calls[f][i].profiles
  <2>1. CASE i = d
    BY <1>2, <1>4, <1>6, <2>1
  <2>2. CASE i # d
    <3>1. i \in 1 .. d - 1
      BY <2>2
    <3> QED
      BY <1>6, <3>1
  <2> QED
    BY <2>1, <2>2
<1>9. /\ row'[ThreadOf[f]][x] = <<f, d>>
      /\ \A y \in Fields : y # x => row'[ThreadOf[f]][y] = row[ThreadOf[f]][y]
  <2>1. PICK m : m = <<f, d>>
    OBVIOUS
  <2>2. row' = [row EXCEPT ![ThreadOf[f]][x] = m] /\ ThreadOf[f] \in Threads
    BY <1>1, <2>1, Placed DEF Writes
  <2>3. row'[ThreadOf[f]][x] = m /\ \A y \in Fields : y # x => row'[ThreadOf[f]][y] = row[ThreadOf[f]][y]
    BY <2>2 DEF RowType
  <2> QED
    BY <2>1, <2>3
<1>10. PICK k \in Nat : k = d - 1
  <2>1. d - 1 \in Nat
    BY <1>1
  <2> QED
    BY <2>1
<1>11. Holds(f, d, x)'
  <2>1. d \in 1 .. d /\ x \in calls'[f][d].profiles /\ \A j \in d + 1 .. d : x \notin calls'[f][j].profiles
    BY <1>1, <1>2, <1>4, <1>5, <1>6
  <2> QED
    BY <1>9, <2>1 DEF Holds
<1>12. ASSUME NEW y \in Fields, y # x
       PROVE  /\ y \in t.todo => Holds(f, k, y)'
              /\ y \notin t.todo => Holds(f, d, y)'
  <2>1. /\ y \in t.todo => Holds(f, k, y)
        /\ y \notin t.todo => Holds(f, d, y)
    <3>1. Active(f) /\ (Waits(f, y) <=> y \in t.todo) /\ Depth(f) - 1 = k
      BY <1>1, <1>2, <1>5, <1>10 DEF Active, Waits
    <3> QED
      BY <1>1, <1>5, <3>1 DEF InsideInv
  <2>2. \A j \in 1 .. k : calls'[f][j].profiles = calls[f][j].profiles
    BY <1>8, <1>10
  <2> QED
    BY <1>8, <1>9, <1>12, <2>1, <2>2, HoldsStays
<1>13. InsideNext(f)
  <2>1. ASSUME NEW y \in Fields
        PROVE  /\ Waits(f, y)' => Holds(f, Depth(f) - 1, y)'
               /\ ~ Waits(f, y)' => Holds(f, Depth(f), y)'
    <3>1. Waits(f, y)' <=> y \in t.todo /\ y # x
      BY <1>4, <1>5, <1>7 DEF Waits
    <3>2. Depth(f)' - 1 = k
      BY <1>7, <1>10
    <3>3. /\ Waits(f, y)' => Holds(f, k, y)'
          /\ ~ Waits(f, y)' => Holds(f, d, y)'
      BY <1>11, <1>12, <3>1
    <3> QED
      BY <1>7, <3>2, <3>3, Zenon DEF Holds
  <2> QED
    BY <2>1 DEF InsideNext
<1> QED
  BY <1>1, <1>6, <1>7, <1>13 DEF WrapInv

\* The function runs once every profile is written.
LEMMA TurnsInside ==
  ASSUME StackInv, WrapInv, InsideInv, NEW f \in Flows, NEW p \in {"run", "pending", "raised"}, Turns(f, p)
  PROVE  InsideNext(f) /\ \A i \in 1 .. Depth(f)' - 1 : calls'[f][i].role = "wrapper"
<1>1. PICK d \in Nat : d = Depth(f) /\ d = Len(calls[f]) /\ d > 0
  BY DEF StackInv, StackOK, Depth, Turns
<1>2. PICK t \in Frame : t = Top(f) /\ t = calls[f][d]
  BY <1>1 DEF StackInv, StackOK, Top
<1>3. PICK frame \in Frame : frame = [Top(f) EXCEPT !.phase = p]
  BY <1>2 DEF Frame
<1>4. frame.profiles = t.profiles /\ frame.phase = p
  BY <1>2, <1>3 DEF Frame
<1>5. /\ f \in Callers /\ row' = row
      /\ \/ t.phase = "apply" /\ (p = "raised" \/ t.todo = {})
         \/ t.phase = "pending"
  BY <1>1, <1>2 DEF Turns, StackInv, StackOK
<1>6. /\ Len(calls'[f]) = d /\ calls'[f][d] = frame
      /\ \A i \in 1 .. d - 1 : calls'[f][i] = calls[f][i]
  <2>1. Retopped(f, frame)
    BY <1>3, Zenon DEF Turns
  <2> QED
    BY <1>1, <2>1, Zenon DEF Retopped
<1>7. Depth(f)' = d /\ Top(f)' = frame
  BY <1>6 DEF Depth, Top
<1>8. ASSUME NEW i \in 1 .. d PROVE calls'[f][i].profiles = calls[f][i].profiles
  <2>1. CASE i = d
    BY <1>2, <1>4, <1>6, <2>1
  <2>2. CASE i # d
    <3>1. i \in 1 .. d - 1
      BY <2>2
    <3> QED
      BY <1>6, <3>1
  <2> QED
    BY <2>1, <2>2
<1>9. InsideNext(f)
  <2>1. ASSUME NEW y \in Fields, Active(f)'
        PROVE  ~ Waits(f, y)' /\ Holds(f, d, y)'
    <3>1. p # "raised" /\ ~ Waits(f, y)'
      BY <1>4, <1>7, <2>1 DEF Active, Waits
    <3>2. Active(f) /\ ~ Waits(f, y)
      BY <1>1, <1>2, <1>5, <3>1 DEF Active, Waits
    <3>3. Holds(f, d, y)
      BY <1>1, <1>5, <3>2 DEF InsideInv
    <3> QED
      BY <1>5, <1>8, <3>1, <3>3, HoldsStays
  <2>2. ASSUME NEW y \in Fields, Active(f)'
        PROVE  /\ Waits(f, y)' => Holds(f, Depth(f) - 1, y)'
               /\ ~ Waits(f, y)' => Holds(f, Depth(f), y)'
    BY <1>7, <2>1, <2>2, Zenon DEF Holds
  <2> QED
    BY <2>2 DEF InsideNext
<1> QED
  BY <1>1, <1>6, <1>7, <1>9 DEF WrapInv

\* A call that ends or is dropped leaves only wrappers that wait, or nothing.
LEMMA LeavesInside ==
  ASSUME StackInv, WrapInv, NEW f \in Flows, NEW k \in 0 .. Depth(f), k # Depth(f), Cut(f, k)
  PROVE  InsideNext(f) /\ \A i \in 1 .. Depth(f)' - 1 : calls'[f][i].role = "wrapper"
<1>1. PICK d \in Nat : d = Depth(f)
  BY DEF StackInv, StackOK
<1>2. Depth(f)' = k /\ \A i \in 1 .. k : calls'[f][i] = calls[f][i]
  BY DEF Cut, Depth
<1>3. ASSUME NEW i \in 1 .. k PROVE calls'[f][i].role = "wrapper" /\ calls'[f][i].phase = "waiting"
  <2>1. i \in 1 .. Depth(f) - 1
    BY <1>1
  <2> QED
    BY <1>2, <2>1 DEF WrapInv, StackInv, StackOK
<1>4. ~ Active(f)'
  <2>1. CASE k = 0
    BY <1>2, <2>1 DEF Active
  <2>2. CASE k # 0
    <3>1. k \in 1 .. k
      BY <2>2
    <3> QED
      BY <1>2, <1>3, <3>1 DEF Active, Top
  <2> QED
    BY <2>1, <2>2
<1> QED
  BY <1>2, <1>3, <1>4 DEF InsideNext

\* What concerns the flows that do not step: their stacks stay, and so do the rows of their
\* threads.
LEMMA StepApart ==
  ASSUME SoleCaller, StackInv, RowType, NEW f \in Flows, Kinds(f), NEW g \in Callers, g # f
  PROVE  calls'[g] = calls[g] /\ row'[ThreadOf[g]] = row[ThreadOf[g]]
<1>1. g \in Flows /\ ThreadOf[g] \in Threads /\ ThreadOf[f] \in Threads
  BY Placed
<1>2. f \in Callers => ThreadOf[g] # ThreadOf[f]
  BY DEF SoleCaller
<1>3. Depth(f) > 0 => f \in Callers
  BY DEF StackInv, StackOK
<1>4. CASE Rests
  BY <1>4 DEF Rests
<1>5. ASSUME NEW frame \in Frame, Enters(f, frame) PROVE calls'[g] = calls[g] /\ row' = row
  BY <1>1, <1>5 DEF Enters, Grown
<1>6. ASSUME NEW x \in Fields, Writes(f, x) PROVE calls'[g] = calls[g] /\ row'[ThreadOf[g]] = row[ThreadOf[g]]
  <2>1. calls'[g] = calls[g]
    BY <1>1, <1>6, Zenon DEF Writes, Retopped
  <2>2. PICK m : row' = [row EXCEPT ![ThreadOf[f]][x] = m]
    BY <1>6 DEF Writes
  <2>3. ThreadOf[g] # ThreadOf[f]
    BY <1>2, <1>3, <1>6 DEF Writes
  <2> QED
    BY <1>1, <2>1, <2>2, <2>3 DEF RowType
<1>7. ASSUME NEW p \in {"run", "pending", "raised"}, Turns(f, p) PROVE calls'[g] = calls[g] /\ row' = row
  BY <1>1, <1>7, Zenon DEF Turns, Retopped
<1>8. CASE Ends(f)
  <2>1. calls'[g] = calls[g]
    BY <1>1, <1>8, Zenon DEF Ends, Cut
  <2>2. ThreadOf[g] # ThreadOf[f]
    BY <1>2, <1>3, <1>8 DEF Ends
  <2> QED
    BY <1>1, <1>8, <2>1, <2>2 DEF Ends, Cleared, RowType
<1>9. ASSUME NEW first \in 1 .. Depth(f), Drops(f, first)
      PROVE  calls'[g] = calls[g] /\ row'[ThreadOf[g]] = row[ThreadOf[g]]
  <2>1. calls'[g] = calls[g]
    BY <1>1, <1>9, Zenon DEF Drops, Cut
  <2>2. PICK r : row' = [row EXCEPT ![ThreadOf[f]] = r]
    BY <1>9 DEF Drops
  <2>3. ThreadOf[g] # ThreadOf[f]
    BY <1>2, <1>3, <1>9 DEF Drops
  <2> QED
    BY <1>1, <2>1, <2>2, <2>3 DEF RowType
<1> QED
  BY <1>4, <1>5, <1>6, <1>7, <1>8, <1>9 DEF Kinds

\* A step of a flow keeps its own part.
LEMMA StepInside ==
  ASSUME ~ MayNest, SoleCaller, StackInv, RowType, MarkInv, WrapInv, InsideInv,
         NEW f \in Flows, Kinds(f), ~ Rests
  PROVE  InsideNext(f) /\ \A i \in 1 .. Depth(f)' - 1 : calls'[f][i].role = "wrapper"
<1>1. PICK d \in Nat : d = Depth(f)
  BY DEF StackInv, StackOK
<1>2. CASE Ends(f)
  <2>1. d > 0
    BY <1>1, <1>2 DEF Ends
  <2>2. d - 1 \in 0 .. Depth(f) /\ d - 1 # Depth(f) /\ d - 1 = Depth(f) - 1
    BY <1>1, <2>1
  <2>3. PICK k \in 0 .. Depth(f) : k # Depth(f) /\ k = Depth(f) - 1
    BY <2>2
  <2>4. Cut(f, k)
    BY <1>2, <2>3 DEF Ends
  <2> QED
    BY <2>3, <2>4, LeavesInside
<1>3. ASSUME NEW first \in 1 .. Depth(f), Drops(f, first)
      PROVE  InsideNext(f) /\ \A i \in 1 .. Depth(f)' - 1 : calls'[f][i].role = "wrapper"
  <2>1. PICK k \in 0 .. Depth(f) : k # Depth(f) /\ k = first - 1
    <3>1. first - 1 \in 0 .. Depth(f) /\ first - 1 # Depth(f)
      BY <1>1
    <3> QED
      BY <3>1
  <2>2. Cut(f, k)
    BY <1>3, <2>1 DEF Drops
  <2> QED
    BY <2>1, <2>2, LeavesInside
<1> QED
  BY <1>2, <1>3, EntersInside, WritesInside, TurnsInside DEF Kinds

\* And of the others'.
LEMMA InsideStep ==
  ASSUME ~ MayNest, SoleCaller, ScopeInv, WrapInv, InsideInv, [Next]_vars, StackInv'
  PROVE  WrapInv' /\ InsideInv'
<1>1. ASSUME UNCHANGED <<row, calls>> PROVE WrapInv' /\ InsideInv'
  <2>1. WrapInv'
    <3>1. ASSUME NEW g \in Flows, NEW i \in 1 .. Depth(g)' - 1 PROVE calls'[g][i].role = "wrapper"
      <4>1. Depth(g)' = Depth(g)
        BY <1>1 DEF Depth
      <4> QED
        BY <1>1, <4>1 DEF WrapInv
    <3> QED
      BY <3>1 DEF WrapInv
  <2>2. ASSUME NEW g \in Callers, NEW x \in Fields, Active(g)'
        PROVE  /\ Waits(g, x)' => Holds(g, Depth(g) - 1, x)'
               /\ ~ Waits(g, x)' => Holds(g, Depth(g), x)'
    BY <1>1, <2>2, InsideStays DEF ScopeInv
  <2> QED
    BY <2>1, <2>2 DEF InsideInv
<1>2. ASSUME NEW f \in Flows, Step(f), ~ UNCHANGED <<row, calls>> PROVE WrapInv' /\ InsideInv'
  <2>1. TypeOK
    BY TypesJoin DEF ScopeInv, PolicyInv
  <2>2. Kinds(f) /\ ~ Rests
    BY <1>2, <2>1, StepKinds DEF Rests
  <2>3. InsideNext(f) /\ \A i \in 1 .. Depth(f)' - 1 : calls'[f][i].role = "wrapper"
    BY <2>2, StepInside DEF ScopeInv
  <2>4. ASSUME NEW g \in Callers, g # f PROVE calls'[g] = calls[g] /\ row'[ThreadOf[g]] = row[ThreadOf[g]]
    BY <2>2, <2>4, StepApart DEF ScopeInv
  <2>5. WrapInv'
    <3>1. ASSUME NEW g \in Flows, NEW i \in 1 .. Depth(g)' - 1 PROVE calls'[g][i].role = "wrapper"
      <4>1. CASE g = f
        BY <2>3, <4>1
      <4>2. CASE g # f /\ g \in Callers
        <5>1. Depth(g)' = Depth(g) /\ calls'[g] = calls[g]
          BY <2>4, <4>2 DEF Depth
        <5> QED
          BY <5>1 DEF WrapInv
      <4>3. CASE g \notin Callers
        <5>1. Depth(g)' = 0
          BY <4>3 DEF StackInv, StackOK
        <5> QED
          BY <5>1
      <4> QED
        BY <4>1, <4>2, <4>3
    <3> QED
      BY <3>1 DEF WrapInv
  <2>6. ASSUME NEW g \in Callers, NEW x \in Fields, Active(g)'
        PROVE  /\ Waits(g, x)' => Holds(g, Depth(g) - 1, x)'
               /\ ~ Waits(g, x)' => Holds(g, Depth(g), x)'
    <3>1. CASE g = f
      BY <2>3, <2>6, <3>1 DEF InsideNext
    <3>2. CASE g # f
      BY <2>4, <2>6, <3>2, InsideStays DEF ScopeInv
    <3> QED
      BY <3>1, <3>2
  <2> QED
    BY <2>5, <2>6 DEF InsideInv
<1> QED
  BY <1>1, <1>2 DEF Next, vars

\* What the row must hold is what the stack leaves in it.
LEMMA InsideKnown ==
  ASSUME StackInv, InsideInv
  PROVE  FaultsInside
<1> SUFFICES ASSUME NEW f \in Flows, InFunction(f), NEW x \in Fields
             PROVE  \/ row[ThreadOf[f]][x] = Expected(f)[x]
                    \/ Expected(f)[x] = None /\ row[ThreadOf[f]][x] = LeftBy(f)
  BY DEF FaultsInside
<1>1. PICK d \in Nat : d = Depth(f)
  BY DEF StackInv, StackOK
<1>2. d # 0 /\ Top(f).phase = "run"
  BY <1>1 DEF InFunction, Phase
<1>3. f \in Callers
  BY <1>1, <1>2 DEF StackInv, StackOK
<1>4. Holds(f, d, x)
  BY <1>1, <1>2, <1>3 DEF InsideInv, Active, Waits
<1> DEFINE carriers == {e \in 1 .. Depth(f) : x \in calls[f][e].profiles}
<1>5. Expected(f)[x] = IF carriers = {} THEN None ELSE <<f, Max(carriers)>>
  BY DEF Expected
<1>6. CASE /\ \A j \in 1 .. d : x \notin calls[f][j].profiles
           /\ row[ThreadOf[f]][x] \in {None, LeftBy(f)}
  <2>1. carriers = {}
    BY <1>1, <1>6
  <2> QED
    BY <1>5, <1>6, <2>1
<1>7. ASSUME NEW m \in 1 .. d, row[ThreadOf[f]][x] = <<f, m>>, x \in calls[f][m].profiles,
             \A j \in m + 1 .. d : x \notin calls[f][j].profiles
      PROVE  row[ThreadOf[f]][x] = Expected(f)[x]
  <2>1. m \in carriers /\ \A e \in carriers : e \in Nat /\ m >= e
    BY <1>1, <1>7
  <2>2. m \in Nat
    OBVIOUS
  <2> HIDE DEF carriers
  <2>3. Max(carriers) \in carriers /\ \A e \in carriers : Max(carriers) >= e
    BY <2>1 DEF Max
  <2>4. PICK top \in Nat : top = Max(carriers) /\ top >= m /\ m >= top
    BY <2>1, <2>3
  <2>5. top = m
    BY <2>2, <2>4
  <2> QED
    BY <1>5, <1>7, <2>1, <2>4, <2>5
<1> QED
  BY <1>4, <1>6, <1>7 DEF Holds

\* While a decorated function runs, its thread's row holds the profiles of the decorators
\* around it and nothing of any other call, provided that decorated functions do not call one
\* another and that a thread has one line of execution that calls them: FaultWrapper.__call__
\* and _run_async, which empty the whole row and not just their own profiles, promise no more.
THEOREM FaultsHold ==
  ASSUME ~ MayNest, SoleCaller
  PROVE  Spec => []FaultsInside
<1> DEFINE Inv == ScopeInv /\ WrapInv /\ InsideInv
<1>1. Init => Inv
  <2>1. ASSUME Init PROVE Inv
    <3>1. \A f \in Flows : Depth(f) = 0
      BY <2>1 DEF Init, Depth
    <3>2. WrapInv
      BY <3>1 DEF WrapInv
    <3>3. InsideInv
      BY <3>1, Placed DEF InsideInv, Active
    <3> QED
      BY <2>1, <3>2, <3>3, ScopeStarts
  <2> QED
    BY <2>1
<1>2. Inv /\ [Next]_vars => Inv'
  <2>1. ASSUME Inv, [Next]_vars PROVE Inv'
    <3>1. ScopeInv'
      BY <2>1, ScopeStep
    <3>2. StackInv'
      BY <3>1 DEF ScopeInv
    <3>3. WrapInv' /\ InsideInv'
      BY <2>1, <3>2, InsideStep
    <3> QED
      BY <3>1, <3>3
  <2> QED
    BY <2>1
<1>3. Inv => FaultsInside
  BY InsideKnown DEF ScopeInv
<1> HIDE DEF Inv
<1> QED
  BY <1>1, <1>2, <1>3, PTL DEF Spec
=============================================================================
