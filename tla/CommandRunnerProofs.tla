------------------------ MODULE CommandRunnerProofs ------------------------
(***************************************************************************)
(* Proofs about CommandRunner, for any number of rounds of the loops: of   *)
(* lines in a script, of entries in a list, of tries.  They rest on the    *)
(* tables of CommandFlow, and not on what the functions are.               *)
(***************************************************************************)
EXTENDS CommandFlow, TLAPS, SequenceTheorems

-----------------------------------------------------------------------------
(* The inductive invariant, in parts. *)

AllPlaces == UNION {Places(p) : p \in DOMAIN Code}
Counts    == UNION {[S -> Nat] : S \in SUBSET AllPlaces}
Frames    == [proc : DOMAIN Code, at : AllPlaces, rounds : Counts, entry : {"bmc", "other"}]

(* The function of the frame f has called that of g. *)
HasCalled(f, g) ==
    /\ f.at \in DOMAIN Code[f.proc]
    /\ Code[f.proc][f.at].op = "call" /\ Code[f.proc][f.at].proc = g.proc

StackInv ==
    /\ stack \in Seq(Frames) /\ Len(stack) >= 1 /\ stack[1].proc = "ipmi_main"
    /\ \A i \in 1 .. Len(stack) : stack[i].at \in Reached(stack[i].proc)
    /\ \A i \in 1 .. Len(stack) - 1 : HasCalled(stack[i], stack[i + 1])

(* A flag a function resets is one its callers are said to reset, and the  *)
(* callers of one that may exit are said to.                               *)
NestedInv ==
    \A i, j \in 1 .. Len(stack) : i <= j =>
       /\ Forgets(stack[j].proc) \subseteq Forgets(stack[i].proc)
       /\ Quits(stack[j].proc) => Quits(stack[i].proc)

ExitInv ==
    /\ exit \in {"running", "success", "failure", "crash"}
    /\ exit # "running" =>
          /\ Top.at \in Ends
          /\ Depth = 1 \/ Top.at \in {"exit", "crash"}
          /\ exit = IF Top.at = "crash" THEN "crash" ELSE ExitStatus(Top.at)

(* The facts that are true, each of which has an entry in some frame's     *)
(* table whose flags are noted, and no frame above has tried its request.  *)
Covered  == {r[1] : r \in refused}
Standing == refused \cup {<<g, "locked">> : g \in locked \ Covered}

FlagsNoted(flags, i) ==
    IF i = Len(stack) THEN flags \subseteq noted ELSE flags \ Forgets(stack[i + 1].proc) \subseteq noted

Known(f, i) ==
    /\ \E e \in May(stack[i].proc, stack[i].at) : e[1] = f /\ FlagsNoted(e[2], i)
    /\ \A j \in i + 1 .. Len(stack) : f[1] \notin Cleared(stack[j].proc, stack[j].at)

KnownInv ==
    /\ locked \subseteq Groups
    /\ \A r \in refused : r[2] \in {"none", "bad"}
    /\ \A f \in Standing : \E i \in 1 .. Len(stack) : Known(f, i)

(* The target a frame has, or had when it called the one above. *)
TargetAt(i) == IF i = Len(stack) THEN target ELSE stack[i + 1].entry

TargetInv ==
    /\ target \in {"bmc", "other"}
    /\ \A i \in 1 .. Len(stack) :
          TargetAt(i) # stack[i].entry => stack[i].at \in Shifted(stack[i].proc)

RunInv == StackInv /\ NestedInv /\ ExitInv /\ KnownInv /\ TargetInv

-----------------------------------------------------------------------------
(* The tables, and how the stack changes. *)

LEMMA Closed ==
    ASSUME NEW p \in DOMAIN Code
    PROVE  FunctionClosed(p)
BY TablesAssumption

LEMMA PlacesOf ==
    ASSUME NEW p \in DOMAIN Code, NEW at \in Reached(p)
    PROVE  at \in Places(p) /\ at \in AllPlaces /\ (at \notin Ends => at \in DOMAIN Code[p])
BY Closed DEF FunctionClosed, Places, AllPlaces

LEMMA TopFacts ==
    ASSUME StackInv
    PROVE  /\ Depth \in 1 .. Len(stack) /\ Depth = Len(stack) /\ Len(stack) \in Nat
           /\ Top \in Frames /\ Top.proc \in DOMAIN Code /\ Top.at \in Reached(Top.proc)
           /\ Top.entry \in {"bmc", "other"} /\ Top = stack[Len(stack)]
<1>1. stack \in Seq(Frames) /\ Len(stack) >= 1 /\ Depth = Len(stack)
  BY DEF StackInv, Depth
<1>2. Len(stack) \in Nat /\ Len(stack) \in 1 .. Len(stack)
  BY <1>1
<1>3. Top = stack[Len(stack)] /\ Top \in Frames
  BY <1>1, <1>2 DEF Top
<1> QED
  BY <1>1, <1>2, <1>3 DEF StackInv, Frames

(* The function on top goes to another place. *)
Moved(to) ==
    /\ stack' \in Seq(Frames) /\ Len(stack') = Len(stack)
    /\ \A i \in 1 .. Len(stack) - 1 : stack'[i] = stack[i]
    /\ stack'[Len(stack)].proc = Top.proc /\ stack'[Len(stack)].entry = Top.entry
    /\ stack'[Len(stack)].at = to

LEMMA Replaced ==
    ASSUME StackInv, NEW f \in Frames, f.proc = Top.proc, f.entry = Top.entry,
           stack' = [stack EXCEPT ![Depth] = f]
    PROVE  Moved(f.at)
<1>1. /\ stack \in Seq(Frames) /\ Depth \in 1 .. Len(stack) /\ Depth = Len(stack)
      /\ Len(stack) \in Nat
  BY TopFacts DEF StackInv
<1>2. stack' \in Seq(Frames) /\ Len(stack') = Len(stack)
  BY <1>1
<1>3. stack'[Len(stack)] = f
  BY <1>1
<1>4. \A i \in 1 .. Len(stack) - 1 : stack'[i] = stack[i]
  BY <1>1
<1> QED
  BY <1>2, <1>3, <1>4 DEF Moved

LEMMA GoesTo ==
    ASSUME StackInv, NEW to \in AllPlaces, Goto(to)
    PROVE  Moved(to)
<1> DEFINE f == [Top EXCEPT !.at = to]
<1>1. Top \in Frames /\ Depth \in 1 .. Len(stack) /\ stack \in Seq(Frames)
  BY TopFacts DEF StackInv
<1>2. f \in Frames /\ f.proc = Top.proc /\ f.entry = Top.entry /\ f.at = to
  BY <1>1 DEF Frames
<1>3. stack' = [stack EXCEPT ![Depth] = f]
  BY DEF Goto, Top
<1> HIDE DEF f
<1> QED
  BY <1>2, <1>3, Replaced

LEMMA Counted ==
    ASSUME StackInv, Top.at \in AllPlaces, NEW n \in Nat
    PROVE  Counting(n) \in Counts
<1>1. PICK S \in SUBSET AllPlaces : Top.rounds \in [S -> Nat]
  BY TopFacts DEF Counts, Frames
<1>2. Counting(n) \in [S \cup {Top.at} -> Nat]
  BY <1>1 DEF Counting
<1>3. S \cup {Top.at} \in SUBSET AllPlaces
  BY <1>1
<1> QED
  BY <1>2, <1>3 DEF Counts

LEMMA FirstFrame ==
    ASSUME NEW p \in DOMAIN Code, NEW t \in {"bmc", "other"}
    PROVE  Frame(p, t) \in Frames
<1>1. "start" \in AllPlaces
  BY Closed, PlacesOf DEF FunctionClosed
<1>2. <<>> \in [{} -> Nat]
  OBVIOUS
<1>3. <<>> \in Counts
  BY <1>2 DEF Counts
<1> QED
  BY <1>1, <1>3 DEF Frame, Frames

-----------------------------------------------------------------------------
(* A step that is not a call or a return. *)

Going(to) ==
    /\ Top.at \notin Ends /\ Step.op # "call" /\ to \in Targets(Step)
    /\ Moved(to)

LEMMA ClosedStep ==
    ASSUME StackInv, NEW to, Going(to)
    PROVE  /\ to \in Reached(Top.proc) /\ to \in AllPlaces
           /\ StepEntries(May(Top.proc, Top.at), Step, to) \subseteq May(Top.proc, to)
           /\ Cleared(Top.proc, to) \subseteq StepCleared(Cleared(Top.proc, Top.at), Step, to)
           /\ StepShifts(Step, Top.at \in Shifted(Top.proc)) => to \in Shifted(Top.proc)
           /\ Step.op = "forget" => Step.flag \in Forgets(Top.proc)
<1>1. FunctionClosed(Top.proc) /\ Top.at \in Reached(Top.proc) \ Ends
  BY TopFacts, Closed DEF Going
<1>2. StepClosed(Top.proc, Top.at)
  BY <1>1 DEF FunctionClosed, Going, Step
<1>3. to \in Reached(Top.proc)
  BY <1>2 DEF StepClosed, Going, Step
<1>4. to \in AllPlaces
  BY <1>3, TopFacts, PlacesOf
<1> QED
  BY <1>2, <1>3, <1>4 DEF StepClosed, Going, Step

LEMMA FramesKept ==
    ASSUME StackInv, NEW to, Moved(to)
    PROVE  /\ Len(stack') = Len(stack) /\ Len(stack) \in Nat /\ Len(stack) \in 1 .. Len(stack)
           /\ \A i \in 1 .. Len(stack) : stack'[i].proc = stack[i].proc /\ stack'[i].entry = stack[i].entry
           /\ \A i \in 1 .. Len(stack) : i # Len(stack) => stack'[i] = stack[i]
           /\ stack'[Len(stack)].at = to
           /\ Top = stack[Len(stack)] /\ stack[Len(stack)].at = Top.at
<1>1. /\ Len(stack) \in Nat /\ Len(stack) \in 1 .. Len(stack)
      /\ Top = stack[Len(stack)]
  BY TopFacts
<1>2. \A i \in 1 .. Len(stack) : i # Len(stack) => i \in 1 .. Len(stack) - 1
  BY <1>1
<1>3. \A i \in 1 .. Len(stack) : i # Len(stack) => stack'[i] = stack[i]
  BY <1>2 DEF Moved
<1>4. \A i \in 1 .. Len(stack) : stack'[i].proc = stack[i].proc /\ stack'[i].entry = stack[i].entry
  BY <1>1, <1>3 DEF Moved
<1> QED
  BY <1>1, <1>3, <1>4 DEF Moved

LEMMA GoingStack ==
    ASSUME StackInv, NestedInv, NEW to, Going(to)
    PROVE  StackInv' /\ NestedInv'
<1>1. to \in Reached(Top.proc)
  BY ClosedStep
<1>2. /\ Len(stack') = Len(stack) /\ Len(stack) \in Nat /\ Len(stack) \in 1 .. Len(stack)
      /\ \A i \in 1 .. Len(stack) : stack'[i].proc = stack[i].proc
      /\ \A i \in 1 .. Len(stack) : i # Len(stack) => stack'[i] = stack[i]
      /\ stack'[Len(stack)].at = to /\ Top = stack[Len(stack)]
  BY FramesKept DEF Going
<1>3. stack' \in Seq(Frames) /\ Len(stack') >= 1 /\ stack'[1].proc = "ipmi_main"
  BY <1>2 DEF Going, Moved, StackInv
<1>4. ASSUME NEW i \in 1 .. Len(stack')
      PROVE  stack'[i].at \in Reached(stack'[i].proc)
  BY <1>1, <1>2 DEF StackInv
<1>5. ASSUME NEW i \in 1 .. Len(stack') - 1
      PROVE  HasCalled(stack'[i], stack'[i + 1])
  <2>1. i \in 1 .. Len(stack) /\ i # Len(stack) /\ i + 1 \in 1 .. Len(stack) /\ i \in 1 .. Len(stack) - 1
    BY <1>2
  <2>2. stack'[i] = stack[i] /\ stack'[i + 1].proc = stack[i + 1].proc
    BY <1>2, <2>1
  <2>3. HasCalled(stack[i], stack[i + 1])
    BY <2>1 DEF StackInv
  <2> QED
    BY <2>2, <2>3 DEF HasCalled
<1>6. NestedInv'
  BY <1>2 DEF NestedInv
<1> QED
  BY <1>3, <1>4, <1>5, <1>6 DEF StackInv

(* The flags are kept but for the one the step sets, resets or finds reset. *)
FlagsKept(to) ==
    /\ noted' = CASE Step.op = "note"   -> noted \cup {Step.flag}
                  [] Step.op = "forget" -> noted \ {Step.flag}
                  [] OTHER              -> noted
    /\ Step.op = "noted" /\ to # Step.yes => Step.flag \notin noted

(* The facts are those the step creates and those it does not settle. *)
FactsKept(to) ==
    /\ locked' \subseteq Groups
    /\ \A r \in refused' : r[2] \in {"none", "bad"}
    /\ \A f \in Standing' : \/ f \in Creates(Step, to)
                            \/ f \in Standing /\ (Settles(Step, to) => f[1] # Step.req)

LEMMA GoingKnown ==
    ASSUME StackInv, NestedInv, KnownInv, NEW to, Going(to), FlagsKept(to), FactsKept(to)
    PROVE  KnownInv'
<1>0. PICK n : n = Len(stack)
  OBVIOUS
<1>1. /\ StepEntries(May(Top.proc, Top.at), Step, to) \subseteq May(Top.proc, to)
      /\ Cleared(Top.proc, to) \subseteq StepCleared(Cleared(Top.proc, Top.at), Step, to)
      /\ Step.op = "forget" => Step.flag \in Forgets(Top.proc)
  BY ClosedStep
<1>2. /\ Len(stack') = n /\ n \in Nat /\ n \in 1 .. n
      /\ \A i \in 1 .. n : stack'[i].proc = stack[i].proc
      /\ \A i \in 1 .. n : i # n => stack'[i] = stack[i]
      /\ stack'[n].at = to /\ Top = stack[n] /\ stack'[n].proc = Top.proc
  BY <1>0, FramesKept DEF Going
<1>3. ASSUME NEW f \in Standing'
      PROVE  \E i \in 1 .. Len(stack') : Known(f, i)'
  <2>1. CASE f \in Creates(Step, to)
    <3>1. <<f, {}>> \in StepEntries(May(Top.proc, Top.at), Step, to)
      BY <2>1 DEF StepEntries
    <3>2. <<f, {}>> \in May(stack'[n].proc, stack'[n].at)
      BY <3>1, <1>1, <1>2
    <3>3. FlagsNoted({}, n)'
      BY <1>2 DEF FlagsNoted
    <3>4. \A j \in n + 1 .. Len(stack') : FALSE
      BY <1>2
    <3>5. Known(f, n)'
      BY <3>2, <3>3, <3>4 DEF Known
    <3> QED
      BY <3>5, <1>2
  <2>2. CASE f \in Standing /\ (Settles(Step, to) => f[1] # Step.req)
    <3>1. PICK i \in 1 .. n : Known(f, i)
      BY <1>0, <2>2 DEF KnownInv
    <3>2. PICK e \in May(stack[i].proc, stack[i].at) : e[1] = f /\ FlagsNoted(e[2], i)
      BY <3>1 DEF Known
    <3>3. ASSUME NEW j \in i + 1 .. Len(stack')
          PROVE  f[1] \notin Cleared(stack'[j].proc, stack'[j].at)
      <4>1. j \in 1 .. n /\ j \in i + 1 .. Len(stack)
        BY <1>0, <1>2
      <4>2. f[1] \notin Cleared(stack[j].proc, stack[j].at)
        BY <3>1, <4>1 DEF Known
      <4>3. CASE j # n
        BY <4>1, <4>2, <4>3, <1>2
      <4>4. CASE j = n
        <5>1. f[1] \notin StepCleared(Cleared(Top.proc, Top.at), Step, to)
          BY <4>2, <4>4, <1>2, <2>2 DEF StepCleared
        <5> QED
          BY <5>1, <4>4, <1>1, <1>2
      <4> QED
        BY <4>3, <4>4
    <3>4. CASE i = n
      <4>1. e \in May(Top.proc, Top.at) /\ e[2] \subseteq noted
        BY <1>0, <3>2, <3>4, <1>2 DEF FlagsNoted
      <4>2. Survives(e, Step, to)
        BY <4>1, <3>2, <2>2 DEF Survives, FlagsKept
      <4>3. Flagged(e, Step) \in May(Top.proc, to)
        BY <4>1, <4>2, <1>1 DEF StepEntries
      <4>4. Flagged(e, Step)[1] = f
        BY <3>2 DEF Flagged
      <4>5. Flagged(e, Step)[2] \subseteq noted'
        BY <4>1 DEF Flagged, FlagsKept
      <4>6. PICK d \in May(stack'[n].proc, stack'[n].at) : d[1] = f /\ d[2] \subseteq noted'
        BY <4>3, <4>4, <4>5, <1>2
      <4>7. FlagsNoted(d[2], n)'
        BY <4>6, <1>2 DEF FlagsNoted
      <4>8. Known(f, n)'
        BY <4>6, <4>7, <3>3, <3>4 DEF Known
      <4> QED
        BY <4>8, <1>2
    <3>5. CASE i # n
      <4>1. i + 1 \in 1 .. n /\ i + 1 <= n
        BY <3>5, <1>2
      <4>2. e[2] \ Forgets(stack[i + 1].proc) \subseteq noted
        BY <1>0, <3>2, <3>5 DEF FlagsNoted
      <4>3. Forgets(Top.proc) \subseteq Forgets(stack[i + 1].proc)
        BY <1>0, <4>1, <1>2 DEF NestedInv
      <4>4. e[2] \ Forgets(stack[i + 1].proc) \subseteq noted'
        BY <4>2, <4>3, <1>1 DEF FlagsKept
      <4>5. FlagsNoted(e[2], i)'
        BY <4>4, <4>1, <3>5, <1>2 DEF FlagsNoted
      <4>6. e \in May(stack'[i].proc, stack'[i].at)
        BY <3>2, <3>5, <1>2
      <4>7. Known(f, i)'
        BY <4>5, <4>6, <3>2, <3>3 DEF Known
      <4> QED
        BY <4>7, <1>2
    <3> QED
      BY <3>4, <3>5
  <2> QED
    BY <2>1, <2>2 DEF FactsKept
<1> QED
  BY <1>3 DEF KnownInv, FactsKept

LEMMA GoingTarget ==
    ASSUME StackInv, TargetInv, NEW to, Going(to), target' \in {"bmc", "other"},
           \/ Step.op \in {"aim", "backFrom"}
           \/ Step.op = "back" /\ target' = Top.entry
           \/ Step.op # "back" /\ target' = target
    PROVE  TargetInv'
<1>0. PICK n : n = Len(stack)
  OBVIOUS
<1>1. StepShifts(Step, Top.at \in Shifted(Top.proc)) => to \in Shifted(Top.proc)
  BY ClosedStep
<1>2. /\ Len(stack') = n /\ n \in Nat /\ n \in 1 .. n
      /\ \A i \in 1 .. n : stack'[i].proc = stack[i].proc /\ stack'[i].entry = stack[i].entry
      /\ \A i \in 1 .. n : i # n => stack'[i] = stack[i]
      /\ stack'[n].at = to /\ Top = stack[n]
  BY <1>0, FramesKept DEF Going
<1>3. ASSUME NEW i \in 1 .. Len(stack'), TargetAt(i)' # stack'[i].entry
      PROVE  stack'[i].at \in Shifted(stack'[i].proc)
  <2>1. CASE i # n
    <3>1. i + 1 \in 1 .. n
      BY <1>2, <2>1
    <3>2. TargetAt(i)' = TargetAt(i)
      BY <1>0, <3>1, <2>1, <1>2 DEF TargetAt
    <3> QED
      BY <1>0, <3>2, <1>2, <1>3, <2>1 DEF TargetInv
  <2>2. CASE i = n
    <3>1. target' # Top.entry
      BY <1>2, <1>3, <2>2 DEF TargetAt
    <3>2. TargetAt(n) = target
      BY <1>0 DEF TargetAt
    <3>3. target # Top.entry => Top.at \in Shifted(Top.proc)
      BY <1>0, <3>2, <1>2 DEF TargetInv
    <3>4. StepShifts(Step, Top.at \in Shifted(Top.proc))
      BY <3>1, <3>3 DEF StepShifts
    <3> QED
      BY <3>4, <1>1, <1>2, <2>2
  <2> QED
    BY <2>1, <2>2
<1> QED
  BY <1>3 DEF TargetInv

-----------------------------------------------------------------------------
(* The steps of that kind, one by one. *)

LEMMA StepOf ==
    ASSUME StackInv, Top.at \notin Ends
    PROVE  Step \in StepsOf(Top.proc) /\ Top.proc \in DOMAIN Code /\ Top.at \in AllPlaces
<1>1. Top.proc \in DOMAIN Code /\ Top.at \in Reached(Top.proc)
  BY TopFacts
<1>2. Top.at \in DOMAIN Code[Top.proc] /\ Top.at \in AllPlaces
  BY <1>1, PlacesOf
<1> QED
  BY <1>1, <1>2 DEF Step, StepsOf

LEMMA TargetPlaces ==
    ASSUME StackInv, Top.at \notin Ends, Step.op # "call", NEW to \in Targets(Step)
    PROVE  to \in AllPlaces
<1>1. FunctionClosed(Top.proc) /\ Top.at \in Reached(Top.proc) \ Ends /\ Top.proc \in DOMAIN Code
  BY TopFacts, Closed
<1>2. StepClosed(Top.proc, Top.at)
  BY <1>1 DEF FunctionClosed, Step
<1>3. to \in Reached(Top.proc)
  BY <1>2 DEF StepClosed, Step
<1> QED
  BY <1>1, <1>3, PlacesOf

LEMMA GoingTo ==
    ASSUME StackInv, Top.at \notin Ends, Step.op # "call", NEW to \in Targets(Step), Goto(to)
    PROVE  Going(to)
BY TargetPlaces, GoesTo DEF Going

LEMMA FactsSame ==
    ASSUME KnownInv, NEW to, ~ Settles(Step, to), refused' = refused, locked' = locked
    PROVE  FactsKept(to)
<1>1. Standing' = Standing
  BY DEF Standing, Covered
<1> QED
  BY <1>1 DEF FactsKept, KnownInv

LEMMA PlainStep ==
    ASSUME RunInv, exit = "running", exit' = exit,
           NEW to, Going(to), FlagsKept(to), FactsKept(to), target' \in {"bmc", "other"},
           \/ Step.op \in {"aim", "backFrom"}
           \/ Step.op = "back" /\ target' = Top.entry
           \/ Step.op # "back" /\ target' = target
    PROVE  RunInv'
<1>1. StackInv' /\ NestedInv'
  BY GoingStack DEF RunInv
<1>2. KnownInv'
  BY GoingKnown DEF RunInv
<1>3. TargetInv'
  BY GoingTarget DEF RunInv
<1>4. ExitInv'
  BY DEF ExitInv
<1> QED
  BY <1>1, <1>2, <1>3, <1>4 DEF RunInv

(* One that leaves the facts, the flags and the target alone. *)
LEMMA QuietStep ==
    ASSUME RunInv, exit = "running", NEW to, Going(to),
           Step.op \in {"get", "branch", "loop"},
           UNCHANGED <<exit, refused, locked, target, noted>>
    PROVE  RunInv'
<1>1. FlagsKept(to)
  BY DEF FlagsKept
<1>2. ~ Settles(Step, to)
  BY DEF Settles
<1>3. FactsKept(to)
  BY <1>2, FactsSame DEF RunInv
<1>4. target' \in {"bmc", "other"} /\ target' = target
  BY DEF RunInv, TargetInv
<1> QED
  BY <1>1, <1>3, <1>4, PlainStep

LEMMA GetKeeps ==
    ASSUME RunInv, SendGet
    PROVE  RunInv'
<1>1. exit = "running" /\ Top.at \notin Ends /\ Step.op = "get" /\ StackInv
  BY DEF SendGet, AtStep, RunInv
<1>2. PICK to \in {Step.none, Step.bad, Step.ok} : Goto(to)
  BY DEF SendGet
<1>3. to \in Targets(Step)
  BY <1>1 DEF Targets
<1>4. Going(to)
  BY <1>1, <1>2, <1>3, GoingTo
<1> QED
  BY <1>1, <1>4, QuietStep DEF SendGet

LEMMA BranchKeeps ==
    ASSUME RunInv, TakeBranch
    PROVE  RunInv'
<1>1. exit = "running" /\ Top.at \notin Ends /\ Step.op = "branch" /\ StackInv
  BY DEF TakeBranch, AtStep, RunInv
<1>2. PICK to \in Step.to : Goto(to)
  BY DEF TakeBranch
<1>3. to \in Targets(Step)
  BY <1>1 DEF Targets
<1>4. Going(to)
  BY <1>1, <1>2, <1>3, GoingTo
<1> QED
  BY <1>1, <1>4, QuietStep DEF TakeBranch

LEMMA RoundGoes ==
    ASSUME RunInv, NEW to \in AllPlaces, NEW n \in Nat, Top.at \in AllPlaces,
           stack' = [stack EXCEPT ![Depth].at = to, ![Depth].rounds = Counting(n)]
    PROVE  Moved(to)
<1> DEFINE g == [Top EXCEPT !.at = to]
           f == [g EXCEPT !.rounds = Counting(n)]
<1>1. StackInv /\ Top \in Frames /\ Depth \in 1 .. Len(stack) /\ stack \in Seq(Frames)
  BY TopFacts DEF RunInv, StackInv
<1>2. Counting(n) \in Counts
  BY <1>1, Counted
<1>3. g \in Frames /\ g.proc = Top.proc /\ g.entry = Top.entry /\ g.at = to
  BY <1>1 DEF Frames
<1>4. stack' = [stack EXCEPT ![Depth] = f]
  BY <1>1 DEF Top
<1> HIDE DEF g
<1>5. f \in Frames /\ f.proc = Top.proc /\ f.entry = Top.entry /\ f.at = to
  BY <1>2, <1>3 DEF Frames
<1> HIDE DEF f
<1> QED
  BY <1>1, <1>4, <1>5, Replaced

LEMMA LoopKeeps ==
    ASSUME RunInv, GoRound
    PROVE  RunInv'
<1>1. exit = "running" /\ Top.at \notin Ends /\ Step.op = "loop" /\ StackInv
  BY DEF GoRound, AtStep, RunInv
<1>2. Top.at \in AllPlaces
  BY <1>1, StepOf
<1>3. Step.body \in Targets(Step) /\ Step.done \in Targets(Step)
  BY <1>1 DEF Targets
<1>4. Step.body \in AllPlaces /\ Step.done \in AllPlaces
  BY <1>1, <1>3, TargetPlaces
<1>5. Round + 1 \in Nat
  <2>1. PICK S \in SUBSET AllPlaces : Top.rounds \in [S -> Nat]
    BY <1>1, TopFacts DEF Counts, Frames
  <2> QED
    BY <2>1 DEF Round
<1>6. PICK to \in {Step.body, Step.done}, n \in Nat :
         stack' = [stack EXCEPT ![Depth].at = to, ![Depth].rounds = Counting(n)]
  BY <1>5 DEF GoRound
<1>7. to \in AllPlaces /\ to \in Targets(Step)
  BY <1>3, <1>4
<1>8. Moved(to)
  BY <1>2, <1>6, <1>7, RoundGoes
<1>9. Going(to)
  BY <1>1, <1>7, <1>8 DEF Going
<1> QED
  BY <1>1, <1>9, QuietStep DEF GoRound

(* A request that is tried again, and is not of a group. *)
LEMMA RetriedFacts ==
    ASSUME KnownInv, Step.req \notin Groups, NEW new, NEW to,
           new \subseteq Creates(Step, to), Step.op \in {"put", "check"},
           \A f \in new : f[1] = Step.req /\ f[2] \in {"none", "bad"},
           refused' = Settled \cup new, locked' = locked
    PROVE  FactsKept(to)
<1>1. Step.req \notin locked
  BY DEF KnownInv
<1>2. ASSUME NEW f \in Standing'
      PROVE  f \in new \/ (f \in Standing /\ f[1] # Step.req)
  <2>1. CASE f \in refused'
    BY <2>1 DEF Standing, Settled
  <2>2. ASSUME NEW g \in locked', g \notin Covered', f = <<g, "locked">>
        PROVE  f \in Standing /\ f[1] # Step.req
    <3>1. g # Step.req
      BY <1>1, <2>2
    <3>2. g \notin Covered
      BY <2>2, <3>1 DEF Covered, Settled
    <3> QED
      BY <2>2, <3>1, <3>2 DEF Standing
  <2> QED
    BY <2>1, <2>2 DEF Standing
<1>3. \A r \in refused' : r[2] \in {"none", "bad"}
  BY DEF Settled, KnownInv
<1>4. locked' \subseteq Groups
  BY DEF KnownInv
<1> QED
  BY <1>2, <1>3, <1>4 DEF FactsKept

LEMMA PutKeeps ==
    ASSUME RunInv, SendPut
    PROVE  RunInv'
<1>1. exit = "running" /\ Top.at \notin Ends /\ Step.op = "put" /\ StackInv /\ KnownInv
  BY DEF SendPut, AtStep, RunInv
<1>2. Step.req \notin Groups
  BY <1>1, StepOf, GroupsAssumption
<1>3. exit' = exit /\ locked' = locked /\ target' = target /\ noted' = noted
  BY DEF SendPut
<1>4. ASSUME NEW to \in {Step.none, Step.bad, Step.ok}, Goto(to), NEW new,
             new \subseteq Creates(Step, to), refused' = Settled \cup new,
             \A f \in new : f[1] = Step.req /\ f[2] \in {"none", "bad"}
      PROVE  RunInv'
  <2>1. to \in Targets(Step)
    BY <1>1 DEF Targets
  <2>2. Going(to)
    BY <1>1, <1>4, <2>1, GoingTo
  <2>3. FlagsKept(to)
    BY <1>1, <1>3 DEF FlagsKept
  <2>4. FactsKept(to)
    BY <1>1, <1>2, <1>3, <1>4, RetriedFacts
  <2>5. target' \in {"bmc", "other"} /\ Step.op # "back"
    BY <1>1, <1>3 DEF RunInv, TargetInv
  <2> QED
    BY <1>1, <1>3, <2>2, <2>3, <2>4, <2>5, PlainStep
<1>5. CASE Goto(Step.ok) /\ refused' = Settled
  <2> DEFINE new == {}
  <2>1. new \subseteq Creates(Step, Step.ok) /\ refused' = Settled \cup new /\ \A f \in new : FALSE
    BY <1>5
  <2> HIDE DEF new
  <2> QED
    BY <1>4, <1>5, <2>1
<1>6. CASE Goto(Step.none) /\ refused' = Settled \cup {<<Step.req, "none">>}
  <2> DEFINE new == {<<Step.req, "none">>}
  <2>1. new \subseteq Creates(Step, Step.none)
    BY <1>1 DEF Creates
  <2>2. refused' = Settled \cup new /\ \A f \in new : f[1] = Step.req /\ f[2] \in {"none", "bad"}
    BY <1>6
  <2> HIDE DEF new
  <2> QED
    BY <1>4, <1>6, <2>1, <2>2
<1>7. CASE Goto(Step.bad) /\ refused' = Settled \cup {<<Step.req, "bad">>}
  <2> DEFINE new == {<<Step.req, "bad">>}
  <2>1. new \subseteq Creates(Step, Step.bad)
    BY <1>1 DEF Creates
  <2>2. refused' = Settled \cup new /\ \A f \in new : f[1] = Step.req /\ f[2] \in {"none", "bad"}
    BY <1>7
  <2> HIDE DEF new
  <2> QED
    BY <1>4, <1>7, <2>1, <2>2
<1> QED
  BY <1>5, <1>6, <1>7 DEF SendPut

LEMMA CheckKeeps ==
    ASSUME RunInv, ReadBack
    PROVE  RunInv'
<1>1. exit = "running" /\ Top.at \notin Ends /\ Step.op = "check" /\ StackInv /\ KnownInv
  BY DEF ReadBack, AtStep, RunInv
<1>2. Step.req \notin Groups
  BY <1>1, StepOf, GroupsAssumption
<1>3. exit' = exit /\ locked' = locked /\ target' = target /\ noted' = noted
  BY DEF ReadBack
<1>4. ASSUME NEW to \in {Step.other, Step.same}, Goto(to), FactsKept(to)
      PROVE  RunInv'
  <2>1. to \in Targets(Step)
    BY <1>1 DEF Targets
  <2>2. Going(to)
    BY <1>1, <1>4, <2>1, GoingTo
  <2>3. FlagsKept(to)
    BY <1>1, <1>3 DEF FlagsKept
  <2>4. target' \in {"bmc", "other"} /\ Step.op # "back"
    BY <1>1, <1>3 DEF RunInv, TargetInv
  <2> QED
    BY <1>1, <1>3, <1>4, <2>2, <2>3, <2>4, PlainStep
<1>5. CASE Goto(Step.same) /\ refused' = Settled
  <2> DEFINE new == {}
  <2>1. new \subseteq Creates(Step, Step.same) /\ refused' = Settled \cup new /\ \A f \in new : FALSE
    BY <1>5
  <2> HIDE DEF new
  <2>2. FactsKept(Step.same)
    BY <1>1, <1>2, <1>3, <2>1, RetriedFacts
  <2> QED
    BY <1>4, <1>5, <2>2
<1>6. CASE Goto(Step.other) /\ refused' = refused
  <2>1. ~ Settles(Step, Step.other)
    BY <1>1 DEF Settles
  <2>2. FactsKept(Step.other)
    BY <1>1, <1>3, <1>6, <2>1, FactsSame
  <2> QED
    BY <1>4, <1>6, <2>2
<1> QED
  BY <1>5, <1>6 DEF ReadBack

LEMMA LockKeeps ==
    ASSUME RunInv, SendLock
    PROVE  RunInv'
<1>1. exit = "running" /\ Top.at \notin Ends /\ Step.op = "lock" /\ StackInv /\ KnownInv
  BY DEF SendLock, AtStep, RunInv
<1>2. Step.req \in Groups
  BY <1>1, StepOf DEF Groups
<1>3. exit' = exit /\ refused' = refused /\ target' = target /\ noted' = noted
  BY DEF SendLock
<1>4. PICK to \in {Step.none, Step.bad, Step.ok} :
         /\ Goto(to)
         /\ locked' = locked \/ (to \in {Step.none, Step.ok} /\ locked' = locked \cup {Step.req})
  BY DEF SendLock
<1>5. to \in Targets(Step)
  BY <1>1 DEF Targets
<1>6. Going(to)
  BY <1>1, <1>4, <1>5, GoingTo
<1>7. FlagsKept(to)
  BY <1>1, <1>3 DEF FlagsKept
<1>8. FactsKept(to)
  <2>1. ~ Settles(Step, to)
    BY <1>1 DEF Settles
  <2>2. CASE locked' = locked
    BY <1>1, <1>3, <2>1, <2>2, FactsSame
  <2>3. CASE to \in {Step.none, Step.ok} /\ locked' = locked \cup {Step.req}
    <3>1. Creates(Step, to) = {<<Step.req, "locked">>}
      BY <1>1, <2>3 DEF Creates
    <3>2. Standing' \subseteq Standing \cup {<<Step.req, "locked">>}
      BY <1>3, <2>3 DEF Standing, Covered
    <3>3. locked' \subseteq Groups /\ \A r \in refused' : r[2] \in {"none", "bad"}
      BY <1>1, <1>2, <1>3, <2>3 DEF KnownInv
    <3> QED
      BY <2>1, <3>1, <3>2, <3>3 DEF FactsKept
  <2> QED
    BY <1>4, <2>2, <2>3
<1>9. target' \in {"bmc", "other"} /\ Step.op # "back"
  BY <1>1, <1>3 DEF RunInv, TargetInv
<1> QED
  BY <1>1, <1>3, <1>6, <1>7, <1>8, <1>9, PlainStep

LEMMA UnlockKeeps ==
    ASSUME RunInv, SendUnlock
    PROVE  RunInv'
<1>1. exit = "running" /\ Top.at \notin Ends /\ Step.op = "unlock" /\ StackInv /\ KnownInv
  BY DEF SendUnlock, AtStep, RunInv
<1>2. exit' = exit /\ target' = target /\ noted' = noted
  BY DEF SendUnlock
<1>3. PICK to \in {Step.none, Step.bad, Step.ok}, new \in SUBSET {<<Step.req, "none">>, <<Step.req, "bad">>} :
         /\ Goto(to) /\ refused' = Settled \cup new /\ locked' \subseteq locked
         /\ \A f \in new : Step[f[2]] = to
         /\ new # {} \/ Step.req \notin locked'
         /\ locked \ {Step.req} \subseteq locked'
  <2> DEFINE Tried(to, new) ==
                /\ Goto(to) /\ refused' = Settled \cup new /\ locked' \subseteq locked
                /\ \A f \in new : Step[f[2]] = to
                /\ new # {} \/ Step.req \notin locked'
                /\ locked \ {Step.req} \subseteq locked'
  <2> SUFFICES \E to \in {Step.none, Step.bad, Step.ok} :
                  \E new \in SUBSET {<<Step.req, "none">>, <<Step.req, "bad">>} : Tried(to, new)
    OBVIOUS
  <2> HIDE DEF Tried
  <2>1. CASE Goto(Step.ok) /\ locked' = locked \ {Step.req} /\ refused' = Settled
    <3> DEFINE new == {}
    <3>1. new \in SUBSET {<<Step.req, "none">>, <<Step.req, "bad">>} /\ Tried(Step.ok, new)
      BY <2>1 DEF Tried
    <3> HIDE DEF new
    <3> QED
      BY <3>1
  <2>2. CASE /\ Goto(Step.bad) /\ UNCHANGED locked
             /\ refused' = Settled \cup {<<Step.req, "bad">>}
    <3> DEFINE new == {<<Step.req, "bad">>}
    <3>1. new \in SUBSET {<<Step.req, "none">>, <<Step.req, "bad">>} /\ Tried(Step.bad, new)
      BY <2>2 DEF Tried
    <3> HIDE DEF new
    <3> QED
      BY <3>1
  <2>3. CASE /\ Goto(Step.none) /\ locked' \in {locked, locked \ {Step.req}}
             /\ refused' = Settled \cup {<<Step.req, "none">>}
    <3> DEFINE new == {<<Step.req, "none">>}
    <3>1. new \in SUBSET {<<Step.req, "none">>, <<Step.req, "bad">>} /\ Tried(Step.none, new)
      BY <2>3 DEF Tried
    <3> HIDE DEF new
    <3> QED
      BY <3>1
  <2> QED
    BY <2>1, <2>2, <2>3 DEF SendUnlock
<1>4. Going(to)
  <2>1. to \in Targets(Step)
    BY <1>1 DEF Targets
  <2> QED
    BY <1>1, <1>3, <2>1, GoingTo
<1>5. FlagsKept(to)
  BY <1>1, <1>2 DEF FlagsKept
<1>6. new \subseteq Creates(Step, to)
  BY <1>1, <1>3 DEF Creates
<1>7. ASSUME NEW f \in Standing'
      PROVE  f \in new \/ (f \in Standing /\ f[1] # Step.req)
  <2>1. CASE f \in refused'
    BY <1>3, <2>1 DEF Standing, Settled
  <2>2. ASSUME NEW g \in locked', g \notin Covered', f = <<g, "locked">>
        PROVE  f \in Standing /\ f[1] # Step.req
    <3>1. g # Step.req
      <4>1. \A r \in new : r[1] = Step.req /\ r \in refused'
        BY <1>3
      <4>2. new # {} => Step.req \in Covered'
        BY <4>1 DEF Covered
      <4> QED
        BY <1>3, <2>2, <4>2
    <3>2. g \notin Covered
      BY <1>3, <2>2, <3>1 DEF Covered, Settled
    <3> QED
      BY <1>3, <2>2, <3>1, <3>2 DEF Standing
  <2> QED
    BY <2>1, <2>2 DEF Standing
<1>8. locked' \subseteq Groups /\ \A r \in refused' : r[2] \in {"none", "bad"}
  BY <1>1, <1>3 DEF KnownInv, Settled
<1>9. FactsKept(to)
  BY <1>6, <1>7, <1>8 DEF FactsKept
<1>10. target' \in {"bmc", "other"} /\ Step.op # "back"
  BY <1>1, <1>2 DEF RunInv, TargetInv
<1> QED
  BY <1>1, <1>2, <1>4, <1>5, <1>9, <1>10, PlainStep

LEMMA TargetKeeps ==
    ASSUME RunInv, SetTarget
    PROVE  RunInv'
<1>1. /\ exit = "running" /\ Top.at \notin Ends /\ Step.op \in {"aim", "back", "backFrom"}
      /\ StackInv /\ KnownInv
  BY DEF SetTarget, AtStep, RunInv
<1>2. exit' = exit /\ refused' = refused /\ locked' = locked /\ noted' = noted /\ Goto(Step.next)
  BY DEF SetTarget
<1>3. Step.next \in Targets(Step)
  BY <1>1 DEF Targets
<1>4. Going(Step.next)
  BY <1>1, <1>2, <1>3, GoingTo
<1>5. FlagsKept(Step.next)
  BY <1>1, <1>2 DEF FlagsKept
<1>6. ~ Settles(Step, Step.next)
  BY <1>1 DEF Settles
<1>7. FactsKept(Step.next)
  BY <1>1, <1>2, <1>6, FactsSame
<1>8. Step.op = "back" => target' = Top.entry
  BY DEF SetTarget, AtStep
<1>9. target' \in {"bmc", "other"}
  <2>1. CASE Step.op = "aim"
    BY <2>1 DEF SetTarget, AtStep
  <2>2. CASE Step.op = "back"
    BY <1>1, <1>8, <2>2, TopFacts
  <2>3. CASE Step.op = "backFrom"
    <3>1. target' = stack[Depth - 1].entry
      BY <2>3 DEF SetTarget, AtStep
    <3>2. Depth # 1
      <4>1. SUFFICES ASSUME Depth = 1
                     PROVE  FALSE
        OBVIOUS
      <4>2. Top.proc = "ipmi_main"
        BY <1>1, <4>1 DEF StackInv, Top
      <4> QED
        BY <1>1, <2>3, <4>2, StepOf, MainAssumption
    <3>3. Depth - 1 \in 1 .. Len(stack)
      BY <1>1, <3>2, TopFacts
    <3>4. stack[Depth - 1] \in Frames
      BY <1>1, <3>3 DEF StackInv
    <3> QED
      BY <3>1, <3>4 DEF Frames
  <2> QED
    BY <1>1, <2>1, <2>2, <2>3
<1> QED
  BY <1>1, <1>2, <1>4, <1>5, <1>7, <1>8, <1>9, PlainStep

LEMMA FlagKeeps ==
    ASSUME RunInv, SetFlag
    PROVE  RunInv'
<1>1. /\ exit = "running" /\ Top.at \notin Ends /\ Step.op \in {"note", "forget"}
      /\ StackInv /\ KnownInv
  BY DEF SetFlag, AtStep, RunInv
<1>2. exit' = exit /\ refused' = refused /\ locked' = locked /\ target' = target /\ Goto(Step.next)
  BY DEF SetFlag
<1>3. Step.next \in Targets(Step)
  BY <1>1 DEF Targets
<1>4. Going(Step.next)
  BY <1>1, <1>2, <1>3, GoingTo
<1>5. FlagsKept(Step.next)
  <2>1. CASE Step.op = "note"
    BY <2>1 DEF FlagsKept, SetFlag, AtStep
  <2>2. CASE Step.op = "forget"
    BY <2>2 DEF FlagsKept, SetFlag, AtStep
  <2> QED
    BY <1>1, <2>1, <2>2
<1>6. ~ Settles(Step, Step.next)
  BY <1>1 DEF Settles
<1>7. FactsKept(Step.next)
  BY <1>1, <1>2, <1>6, FactsSame
<1>8. target' \in {"bmc", "other"} /\ Step.op # "back"
  BY <1>1, <1>2 DEF RunInv, TargetInv
<1> QED
  BY <1>1, <1>2, <1>4, <1>5, <1>7, <1>8, PlainStep

LEMMA TestKeeps ==
    ASSUME RunInv, TestFlag
    PROVE  RunInv'
<1>1. exit = "running" /\ Top.at \notin Ends /\ Step.op = "noted" /\ StackInv /\ KnownInv
  BY DEF TestFlag, AtStep, RunInv
<1>2. /\ exit' = exit /\ refused' = refused /\ locked' = locked /\ target' = target /\ noted' = noted
  BY DEF TestFlag
<1>3. PICK to \in {Step.yes, Step.no} : Goto(to) /\ (to # Step.yes => Step.flag \notin noted)
  BY DEF TestFlag
<1>4. to \in Targets(Step)
  BY <1>1 DEF Targets
<1>5. Going(to)
  BY <1>1, <1>3, <1>4, GoingTo
<1>6. FlagsKept(to)
  BY <1>1, <1>2, <1>3 DEF FlagsKept
<1>7. ~ Settles(Step, to)
  BY <1>1 DEF Settles
<1>8. FactsKept(to)
  BY <1>1, <1>2, <1>7, FactsSame
<1>9. target' \in {"bmc", "other"} /\ Step.op # "back"
  BY <1>1, <1>2 DEF RunInv, TargetInv
<1> QED
  BY <1>1, <1>2, <1>5, <1>6, <1>8, <1>9, PlainStep

-----------------------------------------------------------------------------
(* Calls and returns. *)

LEMMA CallKeeps ==
    ASSUME RunInv, CallProc
    PROVE  RunInv'
<1>1. /\ exit = "running" /\ Top.at \notin Ends /\ Step.op = "call" /\ StackInv /\ NestedInv /\ KnownInv
      /\ TargetInv
  BY DEF CallProc, AtStep, RunInv
<1>2. exit' = exit /\ refused' = refused /\ locked' = locked /\ target' = target /\ noted' = noted
  BY DEF CallProc
<1>3. PICK q, n : q = Step.proc /\ n = Len(stack)
  OBVIOUS
<1>4. PICK g : g = Frame(q, target)
  OBVIOUS
<1>5. /\ Top.proc \in DOMAIN Code /\ Top.at \in Reached(Top.proc) /\ Top = stack[n] /\ n \in Nat
      /\ n \in 1 .. n /\ stack \in Seq(Frames)
  BY <1>1, <1>3, TopFacts DEF StackInv
<1>6. CallClosed(Top.proc, Top.at)
  BY <1>1, <1>5, Closed DEF FunctionClosed, Step
<1>7. q \in DOMAIN Code /\ Forgets(q) \subseteq Forgets(Top.proc) /\ (Quits(q) => Quits(Top.proc))
  BY <1>3, <1>6 DEF CallClosed, Step
<1>8. "start" \in Reached(q) /\ Cleared(q, "start") = {}
  BY <1>7, Closed DEF FunctionClosed
<1>9. g \in Frames /\ g.proc = q /\ g.at = "start" /\ g.entry = target
  <2>1. g \in Frames
    BY <1>1, <1>4, <1>7, FirstFrame DEF TargetInv
  <2> QED
    BY <1>4, <2>1 DEF Frame
<1>10. stack' = Append(stack, g)
  BY <1>3, <1>4 DEF CallProc
<1>11. /\ stack' \in Seq(Frames) /\ Len(stack') = n + 1 /\ stack'[n + 1] = g
       /\ \A i \in 1 .. n : stack'[i] = stack[i]
  BY <1>3, <1>5, <1>9, <1>10
<1>12. \A i \in 1 .. n + 1 : i \in 1 .. n \/ i = n + 1
  BY <1>5
<1>13. StackInv'
  <2>1. Len(stack') >= 1 /\ stack'[1].proc = "ipmi_main"
    BY <1>1, <1>3, <1>5, <1>11 DEF StackInv
  <2>2. \A i \in 1 .. Len(stack') : stack'[i].at \in Reached(stack'[i].proc)
    BY <1>1, <1>3, <1>8, <1>9, <1>11, <1>12 DEF StackInv
  <2>3. ASSUME NEW i \in 1 .. Len(stack') - 1
        PROVE  HasCalled(stack'[i], stack'[i + 1])
    <3>1. CASE i = n
      <4>1. stack'[i] = Top /\ stack'[i + 1] = g
        BY <1>5, <1>11, <3>1
      <4>2. Top.at \in DOMAIN Code[Top.proc]
        BY <1>1, <1>5, PlacesOf
      <4> QED
        BY <4>1, <4>2, <1>1, <1>3, <1>9 DEF HasCalled, Step
    <3>2. CASE i # n
      <4>1. i \in 1 .. n - 1 /\ i \in 1 .. n /\ i + 1 \in 1 .. n
        BY <1>5, <1>11, <3>2
      <4> QED
        BY <1>1, <1>3, <1>11, <4>1 DEF StackInv
    <3> QED
      BY <3>1, <3>2
  <2> QED
    BY <1>11, <2>1, <2>2, <2>3 DEF StackInv
<1>14. NestedInv'
  <2>1. \A i, j \in 1 .. n : i <= j =>
           /\ Forgets(stack'[j].proc) \subseteq Forgets(stack'[i].proc)
           /\ Quits(stack'[j].proc) => Quits(stack'[i].proc)
    BY <1>1, <1>3, <1>11 DEF NestedInv
  <2>2. \A i \in 1 .. n : /\ Forgets(q) \subseteq Forgets(stack'[i].proc)
                          /\ Quits(q) => Quits(stack'[i].proc)
    BY <2>1, <1>5, <1>7, <1>11
  <2>3. \A i, j \in 1 .. n + 1 : i <= j => (j \in 1 .. n /\ i \in 1 .. n) \/ j = n + 1
    BY <1>5
  <2>4. \A i \in 1 .. n + 1 : /\ Forgets(stack'[n + 1].proc) \subseteq Forgets(stack'[i].proc)
                              /\ Quits(stack'[n + 1].proc) => Quits(stack'[i].proc)
    BY <2>2, <1>9, <1>11, <1>12
  <2> QED
    BY <2>1, <2>3, <2>4, <1>11 DEF NestedInv
<1>15. KnownInv'
  <2>1. Standing' = Standing
    BY <1>2 DEF Standing, Covered
  <2>2. ASSUME NEW f \in Standing
        PROVE  \E i \in 1 .. Len(stack') : Known(f, i)'
    <3>1. PICK i \in 1 .. n : Known(f, i)
      BY <1>1, <1>3 DEF KnownInv
    <3>2. PICK e \in May(stack[i].proc, stack[i].at) : e[1] = f /\ FlagsNoted(e[2], i)
      BY <3>1 DEF Known
    <3>3. e \in May(stack'[i].proc, stack'[i].at)
      BY <3>2, <1>11
    <3>4. i # n => i + 1 \in 1 .. n
      BY <1>5
    <3>5. i # Len(stack')
      BY <1>5, <1>11
    <3>6. FlagsNoted(e[2], i)'
      BY <1>2, <1>3, <1>11, <3>2, <3>4, <3>5 DEF FlagsNoted
    <3>7. ASSUME NEW j \in i + 1 .. Len(stack')
          PROVE  f[1] \notin Cleared(stack'[j].proc, stack'[j].at)
      <4>1. j = n + 1 \/ (j \in i + 1 .. n /\ j \in 1 .. n)
        BY <1>5, <1>11
      <4> QED
        BY <4>1, <3>1, <1>3, <1>8, <1>9, <1>11 DEF Known
    <3>8. Known(f, i)'
      BY <3>2, <3>3, <3>6, <3>7 DEF Known
    <3>9. i \in 1 .. Len(stack')
      BY <1>5, <1>11
    <3> QED
      BY <3>8, <3>9
  <2> QED
    BY <1>1, <1>2, <2>1, <2>2 DEF KnownInv
<1>16. TargetInv'
  <2>1. ASSUME NEW i \in 1 .. Len(stack'), TargetAt(i)' # stack'[i].entry
        PROVE  stack'[i].at \in Shifted(stack'[i].proc)
    <3>1. i # n + 1
      BY <1>2, <1>9, <1>11, <2>1 DEF TargetAt
    <3>2. i \in 1 .. n
      BY <3>1, <1>11, <1>12
    <3>3. TargetAt(i)' = TargetAt(i)
      <4>1. i + 1 = n + 1 \/ (i # n /\ i + 1 \in 1 .. n)
        BY <3>2, <1>5
      <4> QED
        BY <4>1, <3>1, <3>2, <1>3, <1>5, <1>9, <1>11 DEF TargetAt
    <3> QED
      BY <1>1, <1>3, <1>11, <2>1, <3>2, <3>3 DEF TargetInv
  <2> QED
    BY <1>1, <1>2, <2>1 DEF TargetInv
<1>17. ExitInv'
  BY <1>1, <1>2 DEF ExitInv
<1> QED
  BY <1>13, <1>14, <1>15, <1>16, <1>17 DEF RunInv

(* What a return does to the stack, and what the tables say of it: the     *)
(* function q of the upper frame returns r to that of c, which is at m and *)
(* goes on at to.                                                          *)
ReturnsTo(m, to, r, c, q) ==
    /\ m \in Nat \ {0} /\ Len(stack) = m + 1 /\ c = stack[m] /\ q = Top.proc
    /\ Top = stack[m + 1] /\ r = Top.at /\ r \in Returns
    /\ stack' \in Seq(Frames) /\ Len(stack') = m
    /\ \A i \in 1 .. m : i # m => stack'[i] = stack[i]
    /\ stack'[m].proc = c.proc /\ stack'[m].entry = c.entry /\ stack'[m].at = to
    /\ to \in Reached(c.proc)
    /\ CallEntries(May(c.proc, c.at), Forgets(q), Cleared(q, r)) \subseteq May(c.proc, to)
    /\ May(q, r) \subseteq May(c.proc, to)
    /\ Cleared(c.proc, to) \subseteq Cleared(c.proc, c.at) \cup Cleared(q, r)
    /\ (c.at \in Shifted(c.proc) \/ r \in Shifted(q)) => to \in Shifted(c.proc)

LEMMA Returned ==
    ASSUME StackInv, Return
    PROVE  \E m, to, r, c, q : ReturnsTo(m, to, r, c, q)
<1>1. PICK m, r, c, q : m = Depth - 1 /\ r = Top.at /\ c = stack[m] /\ q = Top.proc
  OBVIOUS
<1>2. PICK to : to = Code[c.proc][c.at][r]
  OBVIOUS
<1>3. /\ m \in Nat \ {0} /\ Len(stack) = m + 1 /\ Top = stack[m + 1] /\ stack \in Seq(Frames)
      /\ r \in Returns /\ q \in DOMAIN Code /\ r \in Reached(q)
      /\ stack' = [SubSeq(stack, 1, m) EXCEPT ![m].at = to]
  <2>1. /\ Depth = Len(stack) /\ Len(stack) \in Nat /\ Depth > 1 /\ Top.at \in Returns
        /\ Top = stack[Len(stack)] /\ q \in DOMAIN Code /\ r \in Reached(q) /\ stack \in Seq(Frames)
    BY <1>1, TopFacts DEF Return, StackInv
  <2>2. stack' = [SubSeq(stack, 1, m) EXCEPT ![m].at = to]
    BY <1>1, <1>2 DEF Return
  <2>3. m \in Nat \ {0} /\ Len(stack) = m + 1
    BY <1>1, <2>1
  <2> QED
    BY <1>1, <2>1, <2>2, <2>3
<1>4. m \in 1 .. Len(stack) /\ m \in 1 .. Len(stack) - 1 /\ m + 1 \in 1 .. Len(stack) /\ m \in 1 .. m
  BY <1>3
<1>5. c \in Frames /\ c.proc \in DOMAIN Code /\ c.at \in Reached(c.proc) /\ HasCalled(c, Top)
  <2>1. c \in Frames
    BY <1>1, <1>3, <1>4
  <2> QED
    BY <1>1, <1>3, <1>4, <2>1 DEF StackInv, Frames
<1>6. FunctionClosed(c.proc)
  BY <1>5, Closed
<1>7. c.at \notin Ends /\ Code[c.proc][c.at].op = "call" /\ Code[c.proc][c.at].proc = q
  BY <1>1, <1>5, <1>6 DEF HasCalled, FunctionClosed
<1>8. CallClosed(c.proc, c.at)
  BY <1>5, <1>6, <1>7 DEF FunctionClosed
<1>9. /\ to \in Reached(c.proc)
      /\ CallEntries(May(c.proc, c.at), Forgets(q), Cleared(q, r)) \subseteq May(c.proc, to)
      /\ May(q, r) \subseteq May(c.proc, to)
      /\ Cleared(c.proc, to) \subseteq Cleared(c.proc, c.at) \cup Cleared(q, r)
      /\ (c.at \in Shifted(c.proc) \/ r \in Shifted(q)) => to \in Shifted(c.proc)
  BY <1>2, <1>3, <1>7, <1>8 DEF CallClosed
<1>10. to \in AllPlaces
  BY <1>5, <1>9, PlacesOf
<1> DEFINE d == [c EXCEPT !.at = to]
           u == SubSeq(stack, 1, m)
<1>11. d \in Frames /\ d.proc = c.proc /\ d.entry = c.entry /\ d.at = to
  BY <1>5, <1>10 DEF Frames
<1>12. u \in Seq(Frames) /\ Len(u) = m /\ \A i \in 1 .. m : u[i] = stack[i]
  BY <1>3
<1>13. stack' = [u EXCEPT ![m] = d]
  <2>1. u[m] = c
    BY <1>1, <1>4, <1>12
  <2> QED
    BY <1>3, <2>1
<1> HIDE DEF d, u
<1>14. /\ stack' \in Seq(Frames) /\ Len(stack') = m /\ stack'[m] = d
       /\ \A i \in 1 .. m : i # m => stack'[i] = stack[i]
  BY <1>4, <1>11, <1>12, <1>13
<1>15. stack'[m].proc = c.proc /\ stack'[m].entry = c.entry /\ stack'[m].at = to
  BY <1>11, <1>14
<1>16. ReturnsTo(m, to, r, c, q)
  BY <1>1, <1>3, <1>9, <1>14, <1>15 DEF ReturnsTo
<1> QED
  BY <1>16

LEMMA ReturnKeeps ==
    ASSUME RunInv, Return
    PROVE  RunInv'
<1>1. exit = "running" /\ StackInv /\ NestedInv /\ KnownInv /\ TargetInv
  BY DEF Return, RunInv
<1>2. exit' = exit /\ refused' = refused /\ locked' = locked /\ target' = target /\ noted' = noted
  BY DEF Return
<1>3a. PICK m, to, r, c, q : ReturnsTo(m, to, r, c, q)
  BY <1>1, Returned
<1>3. /\ m \in Nat \ {0} /\ Len(stack) = m + 1 /\ c = stack[m] /\ q = Top.proc
      /\ Top = stack[m + 1] /\ r = Top.at /\ r \in Returns
      /\ stack' \in Seq(Frames) /\ Len(stack') = m
      /\ \A i \in 1 .. m : i # m => stack'[i] = stack[i]
      /\ stack'[m].proc = c.proc /\ stack'[m].entry = c.entry /\ stack'[m].at = to
      /\ to \in Reached(c.proc)
      /\ CallEntries(May(c.proc, c.at), Forgets(q), Cleared(q, r)) \subseteq May(c.proc, to)
      /\ May(q, r) \subseteq May(c.proc, to)
      /\ Cleared(c.proc, to) \subseteq Cleared(c.proc, c.at) \cup Cleared(q, r)
      /\ (c.at \in Shifted(c.proc) \/ r \in Shifted(q)) => to \in Shifted(c.proc)
  BY <1>3a DEF ReturnsTo
<1>4. /\ m \in 1 .. m /\ m \in 1 .. m + 1 /\ m + 1 \in 1 .. m + 1 /\ m # m + 1
      /\ \A i \in 1 .. m : i \in 1 .. m + 1 /\ (i # m => i + 1 \in 1 .. m)
      /\ \A i \in 1 .. m + 1 : i \in 1 .. m \/ i = m + 1
  BY <1>3
<1>5. \A i \in 1 .. m : stack'[i].proc = stack[i].proc /\ stack'[i].entry = stack[i].entry
  BY <1>3
<1>6. StackInv'
  <2>1. Len(stack') >= 1 /\ stack'[1].proc = "ipmi_main"
    <3>1. 1 \in 1 .. m
      BY <1>3
    <3> QED
      BY <1>1, <1>3, <1>5, <3>1 DEF StackInv
  <2>2. ASSUME NEW i \in 1 .. Len(stack')
        PROVE  stack'[i].at \in Reached(stack'[i].proc)
    BY <1>1, <1>3, <1>4, <1>5 DEF StackInv
  <2>3. ASSUME NEW i \in 1 .. Len(stack') - 1
        PROVE  HasCalled(stack'[i], stack'[i + 1])
    <3>1. i \in 1 .. m /\ i # m /\ i + 1 \in 1 .. m /\ i \in 1 .. Len(stack) - 1
      BY <1>3
    <3>2. stack'[i] = stack[i] /\ stack'[i + 1].proc = stack[i + 1].proc
      BY <1>3, <1>5, <3>1
    <3>3. HasCalled(stack[i], stack[i + 1])
      BY <1>1, <3>1 DEF StackInv
    <3> QED
      BY <3>2, <3>3 DEF HasCalled
  <2> QED
    BY <1>3, <2>1, <2>2, <2>3 DEF StackInv
<1>7. NestedInv'
  BY <1>1, <1>3, <1>4, <1>5 DEF NestedInv
<1>8. KnownInv'
  <2>1. Standing' = Standing
    BY <1>2 DEF Standing, Covered
  <2>2. ASSUME NEW f \in Standing
        PROVE  \E i \in 1 .. Len(stack') : Known(f, i)'
    <3>1. PICK i \in 1 .. m + 1 : Known(f, i)
      BY <1>1, <1>3 DEF KnownInv
    <3>2. PICK e \in May(stack[i].proc, stack[i].at) : e[1] = f /\ FlagsNoted(e[2], i)
      BY <3>1 DEF Known
    <3>3. i # m + 1 => f[1] \notin Cleared(q, r)
      <4>1. i # m + 1 => m + 1 \in i + 1 .. Len(stack)
        BY <1>3
      <4> QED
        BY <4>1, <3>1, <1>3 DEF Known
    <3>4. ASSUME NEW d \in May(c.proc, to), d[1] = f, d[2] \subseteq noted
          PROVE  Known(f, m)'
      <4>1. FlagsNoted(d[2], m)'
        BY <1>2, <1>3, <3>4 DEF FlagsNoted
      <4>2. d \in May(stack'[m].proc, stack'[m].at)
        BY <1>3, <3>4
      <4>3. \A j \in m + 1 .. Len(stack') : FALSE
        BY <1>3
      <4> QED
        BY <4>1, <4>2, <4>3, <3>4 DEF Known
    <3>5. CASE i = m + 1
      <4>1. e \in May(c.proc, to) /\ e[2] \subseteq noted
        BY <1>3, <3>2, <3>5 DEF FlagsNoted
      <4>2. Known(f, m)'
        BY <3>2, <3>4, <4>1
      <4> QED
        BY <1>3, <1>4, <4>2
    <3>6. CASE i = m
      <4>1. e \in May(c.proc, c.at) /\ e[2] \ Forgets(q) \subseteq noted /\ f[1] \notin Cleared(q, r)
        BY <1>3, <1>4, <3>2, <3>3, <3>6 DEF FlagsNoted
      <4>2. <<e[1], e[2] \ Forgets(q)>> \in May(c.proc, to)
        BY <1>3, <3>2, <4>1 DEF CallEntries
      <4>3. PICK d \in May(c.proc, to) : d[1] = f /\ d[2] \subseteq noted
        BY <3>2, <4>1, <4>2
      <4>4. Known(f, m)'
        BY <3>4, <4>3
      <4> QED
        BY <1>3, <1>4, <4>4
    <3>7. CASE i # m /\ i # m + 1
      <4>1. i \in 1 .. m /\ i + 1 \in 1 .. m /\ i + 1 \in 1 .. m + 1
        BY <1>4, <3>7
      <4>2. e[2] \ Forgets(stack[i + 1].proc) \subseteq noted
        BY <1>3, <3>2, <3>7 DEF FlagsNoted
      <4>3. FlagsNoted(e[2], i)'
        BY <1>2, <1>3, <1>5, <3>7, <4>1, <4>2 DEF FlagsNoted
      <4>4. e \in May(stack'[i].proc, stack'[i].at)
        BY <1>3, <3>2, <3>7, <4>1
      <4>5. ASSUME NEW j \in i + 1 .. Len(stack')
            PROVE  f[1] \notin Cleared(stack'[j].proc, stack'[j].at)
        <5>1. j \in 1 .. m /\ j \in i + 1 .. Len(stack)
          BY <1>3, <4>1
        <5>2. f[1] \notin Cleared(stack[j].proc, stack[j].at)
          BY <3>1, <5>1 DEF Known
        <5> QED
          BY <1>3, <3>3, <3>7, <5>1, <5>2
      <4>6. Known(f, i)'
        BY <3>2, <4>3, <4>4, <4>5 DEF Known
      <4> QED
        BY <1>3, <4>1, <4>6
    <3> QED
      BY <3>5, <3>6, <3>7
  <2> QED
    BY <1>1, <1>2, <2>1, <2>2 DEF KnownInv
<1>9. TargetInv'
  <2>1. ASSUME NEW i \in 1 .. Len(stack'), TargetAt(i)' # stack'[i].entry
        PROVE  stack'[i].at \in Shifted(stack'[i].proc)
    <3>1. CASE i = m
      <4>1. target # c.entry
        BY <1>2, <1>3, <2>1, <3>1 DEF TargetAt
      <4>2. TargetAt(m + 1) = target /\ TargetAt(m) = Top.entry
        BY <1>3, <1>4 DEF TargetAt
      <4>3. target # Top.entry => r \in Shifted(q)
        BY <1>1, <1>3, <1>4, <4>2 DEF TargetInv
      <4>4. Top.entry # c.entry => c.at \in Shifted(c.proc)
        BY <1>1, <1>3, <1>4, <4>2 DEF TargetInv
      <4>5. to \in Shifted(c.proc)
        BY <1>3, <4>1, <4>3, <4>4
      <4> QED
        BY <1>3, <3>1, <4>5
    <3>2. CASE i # m
      <4>1. i \in 1 .. m /\ i + 1 \in 1 .. m /\ i # m + 1 /\ i \in 1 .. m + 1
        BY <1>3, <1>4, <3>2
      <4>2. TargetAt(i)' = TargetAt(i)
        BY <1>3, <1>5, <3>2, <4>1 DEF TargetAt
      <4> QED
        BY <1>1, <1>3, <1>5, <2>1, <3>2, <4>1, <4>2 DEF TargetInv
    <3> QED
      BY <3>1, <3>2
  <2> QED
    BY <1>1, <1>2, <2>1 DEF TargetInv
<1>10. ExitInv'
  BY <1>1, <1>2 DEF ExitInv
<1> QED
  BY <1>6, <1>7, <1>8, <1>9, <1>10 DEF RunInv

-----------------------------------------------------------------------------
(* The end of the program, and the invariant. *)

LEMMA UnchangedKeeps ==
    ASSUME RunInv, UNCHANGED vars
    PROVE  RunInv'
<1>1. /\ stack' = stack /\ exit' = exit /\ refused' = refused /\ locked' = locked
      /\ target' = target /\ noted' = noted
  BY DEF vars
<1>2. StackInv' /\ NestedInv'
  BY <1>1 DEF RunInv, StackInv, NestedInv
<1>3. ExitInv'
  BY <1>1 DEF RunInv, ExitInv, Top, Depth
<1>4. KnownInv'
  BY <1>1 DEF RunInv, KnownInv, Standing, Covered, Known, FlagsNoted
<1>5. TargetInv'
  BY <1>1 DEF RunInv, TargetInv, TargetAt
<1> QED
  BY <1>2, <1>3, <1>4, <1>5 DEF RunInv

LEMMA FinishKeeps ==
    ASSUME RunInv, Finish
    PROVE  RunInv'
<1>1. /\ stack' = stack /\ refused' = refused /\ locked' = locked
      /\ target' = target /\ noted' = noted
  BY DEF Finish
<1>2. StackInv' /\ NestedInv'
  BY <1>1 DEF RunInv, StackInv, NestedInv
<1>3. ExitInv'
  <2>1. Top' = Top /\ Depth' = Depth
    BY <1>1 DEF Top, Depth
  <2>2. exit' = IF Top.at = "crash" THEN "crash" ELSE ExitStatus(Top.at)
    BY DEF Finish
  <2>3. exit' \in {"running", "success", "failure", "crash"}
    BY <2>2 DEF ExitStatus
  <2>4. Top.at \in Ends /\ (Depth = 1 \/ Top.at \in {"exit", "crash"})
    BY DEF Finish
  <2> QED
    BY <2>1, <2>2, <2>3, <2>4 DEF ExitInv
<1>4. KnownInv'
  BY <1>1 DEF RunInv, KnownInv, Standing, Covered, Known, FlagsNoted
<1>5. TargetInv'
  BY <1>1 DEF RunInv, TargetInv, TargetAt
<1> QED
  BY <1>2, <1>3, <1>4, <1>5 DEF RunInv

LEMMA InitHolds ==
    ASSUME Init
    PROVE  RunInv
<1>1. PICK g : g = Frame("ipmi_main", "bmc")
  OBVIOUS
<1>2. g \in Frames /\ g.proc = "ipmi_main" /\ g.at = "start" /\ g.entry = "bmc"
  BY <1>1, MainAssumption, FirstFrame DEF Frame
<1>3. stack = <<g>>
  BY <1>1 DEF Init
<1>4. stack \in Seq(Frames) /\ Len(stack) = 1 /\ stack[1] = g
  BY <1>2, <1>3
<1>5. \A i \in 1 .. Len(stack) : i = 1 /\ i = Len(stack)
  BY <1>4
<1>6. \A i \in 1 .. Len(stack) - 1 : FALSE
  BY <1>4
<1>7. "start" \in Reached("ipmi_main")
  BY MainAssumption, Closed DEF FunctionClosed
<1>8. StackInv
  BY <1>2, <1>4, <1>5, <1>6, <1>7 DEF StackInv
<1>9. NestedInv
  BY <1>5 DEF NestedInv
<1>10. ExitInv
  BY DEF Init, ExitInv
<1>11. KnownInv
  BY DEF Init, KnownInv, Standing
<1>12. TargetInv
  BY <1>2, <1>4, <1>5 DEF Init, TargetInv, TargetAt
<1> QED
  BY <1>8, <1>9, <1>10, <1>11, <1>12 DEF RunInv

LEMMA NextKeeps ==
    ASSUME RunInv, [Next]_vars
    PROVE  RunInv'
<1>1. CASE Done
  BY <1>1, UnchangedKeeps DEF Done
<1>2. CASE UNCHANGED vars
  BY <1>2, UnchangedKeeps
<1> QED
  BY <1>1, <1>2, GetKeeps, PutKeeps, CheckKeeps, LockKeeps, UnlockKeeps, BranchKeeps, LoopKeeps,
     TargetKeeps, FlagKeeps, TestKeeps, CallKeeps, ReturnKeeps, FinishKeeps DEF Next

LEMMA RunInvariance == Spec => []RunInv
<1>1. Init => RunInv
  BY InitHolds
<1>2. RunInv /\ [Next]_vars => RunInv'
  BY NextKeeps
<1> QED
  BY <1>1, <1>2, PTL DEF Spec

-----------------------------------------------------------------------------
(* What it implies. *)

(* Whatever the BMC answers and however often a loop goes round, a command *)
(* is at a place its function has, in a function the table has, with one   *)
(* of the two targets.                                                     *)
THEOREM CommandTypeCorrect == Spec => []TypeOK
<1>1. ASSUME RunInv
      PROVE  TypeOK
  <2>1. StackInv /\ stack \in Seq(Frames)
    BY <1>1 DEF RunInv, StackInv
  <2>2. DOMAIN stack = 1 .. Len(stack)
    BY <2>1
  <2>3. ASSUME NEW i \in 1 .. Len(stack)
        PROVE  /\ stack[i].proc \in DOMAIN Code
               /\ stack[i].at \in DOMAIN Code[stack[i].proc] \cup Ends
               /\ stack[i].entry \in {"bmc", "other"}
    <3>1. stack[i] \in Frames
      BY <2>1
    <3>2. stack[i].proc \in DOMAIN Code /\ stack[i].entry \in {"bmc", "other"}
      BY <3>1 DEF Frames
    <3>3. stack[i].at \in Reached(stack[i].proc)
      BY <2>1 DEF StackInv
    <3>4. stack[i].at \in Places(stack[i].proc)
      BY <3>2, <3>3, PlacesOf
    <3> QED
      BY <3>2, <3>4 DEF Places
  <2>4. exit \in {"running", "success", "failure", "crash"} /\ target \in {"bmc", "other"}
    BY <1>1 DEF RunInv, ExitInv, TargetInv
  <2> QED
    BY <2>2, <2>3, <2>4 DEF TypeOK
<1> QED
  BY <1>1, RunInvariance, PTL

(* A function that is the only one left, and what is known of its facts. *)
LEMMA MainKnows ==
    ASSUME RunInv, Depth = 1, NEW f \in Standing
    PROVE  Top.proc = "ipmi_main" /\ \E e \in May("ipmi_main", Top.at) : e[1] = f
<1>1. StackInv /\ KnownInv /\ Len(stack) = 1
  BY DEF RunInv, Depth
<1>2. Top = stack[1] /\ stack[1].proc = "ipmi_main"
  BY <1>1 DEF StackInv, Top, Depth
<1>3. PICK i \in 1 .. Len(stack) : Known(f, i)
  BY <1>1 DEF KnownInv
<1>4. i = 1
  BY <1>1
<1> QED
  BY <1>2, <1>3, <1>4 DEF Known

(* main() exits with success only when no request that changes the BMC     *)
(* failed at its last try, but for those of Unreported: on every path of   *)
(* every command to its result.                                            *)
THEOREM ExitsHonestly == Spec => []ExitHonest
<1>1. ASSUME RunInv, exit = "success", NEW f \in refused
      PROVE  f \in Unreported
  <2>1. /\ exit = IF Top.at = "crash" THEN "crash" ELSE ExitStatus(Top.at)
        /\ Depth = 1 \/ Top.at \in {"exit", "crash"}
    BY <1>1 DEF RunInv, ExitInv
  <2>2. Top.at \in {"ok", "pos"} /\ Depth = 1
    BY <1>1, <2>1 DEF ExitStatus
  <2>3. f \in Standing /\ f[2] \in {"none", "bad"}
    BY <1>1 DEF Standing, RunInv, KnownInv
  <2>4. PICK e \in May("ipmi_main", Top.at) : e[1] = f
    BY <1>1, <2>2, <2>3, MainKnows
  <2>5. e \in May("ipmi_main", "ok") \cup May("ipmi_main", "pos")
    BY <2>2, <2>4
  <2> QED
    BY <2>3, <2>4, <2>5, ReportedAssumption
<1>2. RunInv => ExitHonest
  BY <1>1 DEF ExitHonest
<1> QED
  BY <1>2, RunInvariance, PTL

(* A function that has sent requests to another controller has put the     *)
(* target back when it returns, but for those of Stale: on every path,     *)
(* early returns and functions it calls included.                          *)
THEOREM TargetsRestored == Spec => []TargetRestored
<1>1. ASSUME RunInv
      PROVE  TargetRestored
  <2>1. StackInv /\ TargetInv
    BY <1>1 DEF RunInv
  <2>2. Top = stack[Len(stack)] /\ Len(stack) \in 1 .. Len(stack) /\ Top.proc \in DOMAIN Code
    BY <2>1, TopFacts
  <2>3. TargetAt(Len(stack)) = target
    BY DEF TargetAt
  <2>4. target # Top.entry => Top.at \in Shifted(Top.proc)
    BY <2>1, <2>2, <2>3 DEF TargetInv
  <2> QED
    BY <2>2, <2>4, RestoredAssumption DEF TargetRestored
<1> QED
  BY <1>1, RunInvariance, PTL

(* No command leaves a group of parameters "set in progress", but for      *)
(* those of LeftLocked, unless the BMC did not take the end of it: when    *)
(* ipmi_main() returns, and when the program exits from inside a function, *)
(* with every function that has called it still under way.                 *)
THEOREM GroupsReleased == Spec => []LocksReleased
<1>1. ASSUME RunInv, exit \in {"success", "failure"}, NEW g \in locked, g \notin Covered
      PROVE  g \in LeftLocked
  <2>1. /\ exit = IF Top.at = "crash" THEN "crash" ELSE ExitStatus(Top.at)
        /\ Top.at \in Ends /\ (Depth = 1 \/ Top.at \in {"exit", "crash"}) /\ StackInv
    BY <1>1 DEF RunInv, ExitInv
  <2>2. Top.at # "crash"
    BY <1>1, <2>1
  <2>3. <<g, "locked">> \in Standing
    BY <1>1 DEF Standing
  <2>4. CASE Top.at = "exit"
    <3>1. /\ Len(stack) \in 1 .. Len(stack) /\ Len(stack) \in Nat /\ Top = stack[Len(stack)]
          /\ Top.proc \in DOMAIN Code /\ "exit" \in Reached(Top.proc)
      BY <2>1, <2>4, TopFacts
    <3>2. Quits(Top.proc)
      BY <3>1, Closed DEF FunctionClosed
    <3>3. PICK i \in 1 .. Len(stack) : Known(<<g, "locked">>, i)
      BY <1>1, <2>3 DEF RunInv, KnownInv
    <3>4. PICK e \in May(stack[i].proc, stack[i].at) : e[1] = <<g, "locked">>
      BY <3>3 DEF Known
    <3>5. i <= Len(stack)
      BY <3>1
    <3>6. Quits(stack[i].proc)
      BY <1>1, <3>1, <3>2, <3>5 DEF RunInv, NestedInv
    <3>7. stack[i].proc \in DOMAIN Code /\ stack[i].at \in Reached(stack[i].proc)
      <4>1. stack[i] \in Frames
        BY <2>1 DEF StackInv
      <4> QED
        BY <2>1, <4>1 DEF StackInv, Frames
    <3> QED
      BY <3>4, <3>6, <3>7, ReleasedAssumption DEF FunctionReleases
  <2>5. CASE Top.at # "exit"
    <3>1. Top.at \in Returns /\ Depth = 1
      BY <2>1, <2>2, <2>5 DEF Ends
    <3>2. PICK e \in May("ipmi_main", Top.at) : e[1] = <<g, "locked">>
      BY <1>1, <2>3, <3>1, MainKnows
    <3>3. Top.proc = "ipmi_main" /\ Top.at \in Reached("ipmi_main") /\ "ipmi_main" \in DOMAIN Code
      BY <1>1, <2>1, <2>3, <3>1, MainKnows, TopFacts
    <3> QED
      BY <3>1, <3>2, <3>3, ReleasedAssumption DEF FunctionReleases
  <2> QED
    BY <2>4, <2>5
<1>2. RunInv => LocksReleased
  BY <1>1 DEF LocksReleased, Covered
<1> QED
  BY <1>2, RunInvariance, PTL

=============================================================================
