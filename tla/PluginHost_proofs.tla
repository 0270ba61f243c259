------------------------- MODULE PluginHost_proofs -------------------------
(***************************************************************************)
(* Proofs about PluginHost, for any number of plugins, hooks, libraries    *)
(* and calls in progress: what Load has done so far follows from the       *)
(* outermost call, which states exist from scripts_ and the one state that *)
(* is starting or closing, and how often a library is loaded from the      *)
(* handles.                                                                *)
(***************************************************************************)
EXTENDS PluginHost, SequenceTheorems, FunctionTheorems, FiniteSetTheorems,
        TLAPS

Outermost == stack[Len(stack)]
Under(do) == stack # <<>> /\ Outermost.do = do

\* The calls: their kind, and what each has below it.
Life == {"start", "close", "free"}
Calls ==
    [do : {"load", "unload", "erase", "walk", "open", "call"} \cup Life,
     vm : Vms \cup {Null}, at : Nat \cup Modules]

FrameFits(i) ==
    /\ stack[i].do \in {"load", "unload"} =>
         i = Len(stack) /\ stack[i].at \in 1..6 /\ stack[i].vm = Null
    /\ stack[i].do = "erase" =>
         i = Len(stack) /\ stack[i].at \in 1..Len(scripts) /\ stack[i].vm = Null
    /\ stack[i].do \in Life =>
         /\ stack[i].vm \in Vms
         /\ \/ i = Len(stack)
            \/ /\ i = Len(stack) - 1
               /\ \/ stack[i + 1].do = "load" /\ stack[i + 1].at = 6
                  \/ /\ stack[i + 1].do = "unload" /\ stack[i + 1].at = 4
                     /\ stack[i].do # "start"
                  \/ stack[i + 1].do = "erase" /\ stack[i].do # "start"
    /\ stack[i].do \in {"free", "open"} => i = 1
    /\ stack[i].do = "walk" =>
         /\ stack[i].at \in Nat \ {0} /\ stack[i].vm = Null /\ hooks # {}
         /\ i < Len(stack) => stack[i + 1].do \in Code
    /\ stack[i].do = "call" =>
         stack[i].vm \in Vms /\ i < Len(stack) /\ stack[i + 1].do = "walk"
    /\ stack[i].do = "open" =>
         /\ stack[i].vm \in Vms /\ stack[i].at \in Modules
         /\ i < Len(stack) /\ stack[i + 1].do \in Code
         /\ stack[i + 1].vm = stack[i].vm
         /\ Len(handles[stack[i].vm]) < MaxHandles
    /\ stack[i].do \in Code => stack[i].vm \in alive
    /\ stack[i].do = "free" => stack[i].vm \notin alive

CallsNest ==
    /\ stack \in Seq(Calls)
    /\ Len(stack) <= MaxDepth
    /\ \A i \in 1..Len(stack) : FrameFits(i)

\* What of the host is there before step k of Load, and before step k of Unload.
BeforeLoadStep(k) ==
    /\ ~loaded
    /\ lua <=> k > 1
    /\ api <=> k > 2
    /\ (runtime <=> k > 3) /\ (pointer <=> k > 3)
    /\ command <=> k > 4
    /\ hooks = IF k > 5 THEN Hooks ELSE {}
    /\ k < 6 => scripts = <<>> /\ alive = {}
BeforeUnloadStep(k) ==
    /\ ~loaded
    /\ lua
    /\ api <=> k < 6
    /\ runtime <=> k < 5
    /\ pointer <=> k < 4
    /\ command <=> k < 3
    /\ k > 1 => hooks = {}
    /\ k > 4 => scripts = <<>> /\ alive = {}

HostPhase ==
    /\ lua \in BOOLEAN /\ api \in BOOLEAN /\ runtime \in BOOLEAN /\ command \in BOOLEAN
    /\ pointer \in BOOLEAN /\ loaded \in BOOLEAN /\ up \in BOOLEAN
    /\ hooks \subseteq Hooks
    /\ stack = <<>> /\ ~loaded => BeforeLoadStep(1)
    /\ Under("load") => BeforeLoadStep(Outermost.at)
    /\ Under("unload") => BeforeUnloadStep(Outermost.at)
    /\ ~Under("load") /\ ~Under("unload") /\ (stack # <<>> \/ loaded) =>
         loaded /\ lua /\ api /\ runtime /\ command /\ pointer /\ hooks = Hooks

\* The state that is starting or closing, and the element that erase drops.
InLife(v) == \E i \in 1..Len(stack) : stack[i].do \in Life /\ stack[i].vm = v
Gone == IF Outermost.at = Len(scripts) THEN Outermost.at ELSE Outermost.at + 1
Listed(v) == \E i \in 1..Len(scripts) : scripts[i] = v

StatesAreKnown ==
    /\ scripts \in Seq(Vms \cup {Null})
    /\ \A i, j \in 1..Len(scripts) : i # j => scripts[i] # scripts[j]
    /\ alive \subseteq Vms
    /\ \A v \in alive : Listed(v) \/ InLife(v)
    /\ ~Under("erase") => \A i \in 1..Len(scripts) : scripts[i] # Null
    /\ ~Under("erase") /\ ~Under("unload") =>
         \A i \in 1..Len(scripts) : scripts[i] \in alive /\ ~InLife(scripts[i])
    /\ Under("erase") =>
         /\ \A i \in 1..Len(scripts) : i # Gone => scripts[i] \in alive /\ ~InLife(scripts[i])
         /\ scripts[Gone] \in alive => InLife(scripts[Gone])
         /\ Len(stack) > 1 => scripts[Gone] = Null \/ InLife(scripts[Gone])

\* The libraries of a state: its objects point into those it has handles of.
Handled(m) == {x \in Vms \X (1..MaxHandles) :
                 x[2] <= Len(handles[x[1]]) /\ handles[x[1]][x[2]] = m}
Opening(m) == IF stack # <<>> /\ stack[1].do = "open" /\ stack[1].at = m THEN 1 ELSE 0

HandlesAreHeld ==
    /\ libs \in [Modules -> Nat]
    /\ handles \in [Vms -> Seq(Modules)]
    /\ linked \in [Vms -> SUBSET Modules]
    /\ \A v \in Vms :
         /\ Len(handles[v]) <= MaxHandles
         /\ \A m \in linked[v] : \E k \in 1..Len(handles[v]) : handles[v][k] = m
         /\ v \notin alive => linked[v] = {}
         /\ v \notin alive /\ ~InLife(v) => handles[v] = <<>>
    /\ \A m \in Modules : libs[m] = Cardinality(Handled(m)) + Opening(m)

\* The inductive invariant.
HostInv ==
    /\ CallsNest
    /\ HostPhase
    /\ StatesAreKnown
    /\ HandlesAreHeld

-----------------------------------------------------------------------------
(* The stack of calls.                                                     *)

LEMMA StackFacts ==
    ASSUME CallsNest, stack # <<>>
    PROVE  /\ Len(stack) \in Nat /\ Len(stack) >= 1
           /\ Top = stack[1] /\ Top \in Calls /\ Outermost \in Calls
           /\ \A i \in 1..Len(stack) : stack[i] \in Calls
           /\ Tail(stack) \in Seq(Calls) /\ Len(Tail(stack)) = Len(stack) - 1
           /\ \A i \in 1..(Len(stack) - 1) : Tail(stack)[i] = stack[i + 1]
<1>1. stack \in Seq(Calls)
  BY DEF CallsNest
<1>2. Len(stack) \in Nat /\ Len(stack) >= 1 /\ \A i \in 1..Len(stack) : stack[i] \in Calls
  BY <1>1, LenProperties, ElementOfSeq, EmptySeq
<1>3. Head(stack) = stack[1]
  BY <1>1
<1>. QED  BY <1>1, <1>2, <1>3, HeadTailProperties DEF Top, Outermost

LEMMA GotoFacts ==
    ASSUME CallsNest, stack # <<>>, NEW f \in Calls, Goto(f)
    PROVE  /\ stack' \in Seq(Calls) /\ Len(stack') = Len(stack) /\ stack' # <<>>
           /\ stack'[1] = f
           /\ \A i \in 2..Len(stack) : stack'[i] = stack[i]
<1>1. <<f>> \in Seq(Calls) /\ Len(<<f>>) = 1 /\ <<f>>[1] = f
  OBVIOUS
<1>2. /\ stack' \in Seq(Calls) /\ Len(stack') = 1 + Len(Tail(stack))
      /\ \A i \in 1..(1 + Len(Tail(stack))) :
           stack'[i] = IF i <= 1 THEN <<f>>[i] ELSE Tail(stack)[i - 1]
  BY <1>1, StackFacts, ConcatProperties DEF Goto
<1>. QED  BY <1>1, <1>2, StackFacts, EmptySeq

LEMMA CallFacts ==
    ASSUME CallsNest, NEW f \in Calls, Call(f)
    PROVE  /\ stack' \in Seq(Calls) /\ Len(stack) \in Nat /\ Len(stack') = Len(stack) + 1
           /\ stack' # <<>> /\ stack'[1] = f
           /\ \A i \in 2..Len(stack') : i - 1 \in 1..Len(stack) /\ stack'[i] = stack[i - 1]
<1>1. <<f>> \in Seq(Calls) /\ Len(<<f>>) = 1 /\ <<f>>[1] = f
  OBVIOUS
<1>2. stack \in Seq(Calls) /\ Len(stack) \in Nat
  BY LenProperties DEF CallsNest
<1>3. /\ stack' \in Seq(Calls) /\ Len(stack') = 1 + Len(stack)
      /\ \A i \in 1..(1 + Len(stack)) :
           stack'[i] = IF i <= 1 THEN <<f>>[i] ELSE stack[i - 1]
  BY <1>1, <1>2, ConcatProperties DEF Call
<1>. QED  BY <1>1, <1>2, <1>3, EmptySeq

LEMMA ReturnFacts ==
    ASSUME CallsNest, stack # <<>>, Return
    PROVE  /\ stack' \in Seq(Calls) /\ Len(stack') = Len(stack) - 1
           /\ stack' = <<>> <=> Len(stack) = 1
           /\ \A i \in 1..Len(stack') : i + 1 \in 1..Len(stack) /\ stack'[i] = stack[i + 1]
<1>1. stack' = Tail(stack) /\ Tail(stack) \in Seq(Calls)
  BY StackFacts DEF Return
<1>2. stack' = <<>> <=> Len(stack') = 0
  BY <1>1, EmptySeq
<1>. QED  BY <1>1, <1>2, StackFacts

\* The host's own steps are outermost, and alone on the stack.
LEMMA Alone ==
    ASSUME CallsNest, stack # <<>>, Top.do \in {"load", "unload", "erase"}
    PROVE  Len(stack) = 1 /\ Outermost = Top
<1>1. 1 \in 1..Len(stack) /\ Top = stack[1]
  BY StackFacts
<1>2. stack[1].do \in {"load", "unload", "erase"} => 1 = Len(stack)
  BY <1>1 DEF CallsNest, FrameFits
<1>. QED  BY <1>1, <1>2 DEF Outermost

-----------------------------------------------------------------------------
(* Load and Unload.                                                        *)

\* Libraries and handles do not change, and no open begins or ends.
LEMMA HandlesUnchanged ==
    ASSUME HostInv, UNCHANGED <<libs, handles, linked>>,
           \A m \in Modules : Opening(m)' = Opening(m),
           \A v \in Vms : /\ v \notin alive' => v \notin alive \/ linked[v] = {}
                          /\ v \notin alive' /\ ~InLife(v)' => v \notin alive /\ ~InLife(v)
    PROVE  HandlesAreHeld'
<1>1. \A m \in Modules : Handled(m)' = Handled(m)
  BY DEF Handled
<1>. QED  BY <1>1 DEF HostInv, HandlesAreHeld

\* A step of Load or Unload leaves the stack empty or goes to another of them.
LEMMA HostStepInv ==
    ASSUME HostInv, stack # <<>>, Top.do \in {"load", "unload"},
           \/ Return /\ (Top.do = "unload" => scripts' = <<>>)
           \/ \E k \in 1..6 : \/ Goto(Frame("unload", Null, k))
                              \/ Goto(Frame("load", Null, k)) /\ Top.do = "load",
           scripts' = scripts \/ (scripts' = <<>> /\ alive = {}),
           UNCHANGED <<alive, libs, handles, linked, up>>, HostPhase'
    PROVE  HostInv'
<1>1. CallsNest
  BY DEF HostInv
<1>2. Len(stack) = 1 /\ Outermost = Top /\ Top = stack[1]
  BY <1>1, Alone, StackFacts
<1>3. \/ /\ stack' = <<>> /\ stack' \in Seq(Calls) /\ Len(stack') = 0
         /\ Top.do = "unload" => scripts' = <<>>
      \/ /\ stack' # <<>> /\ stack' \in Seq(Calls) /\ Len(stack') = 1
         /\ stack'[1].do \in {"load", "unload"} /\ stack'[1].vm = Null /\ stack'[1].at \in 1..6
         /\ stack'[1].do = "load" => Top.do = "load"
  <2>1. CASE Return /\ (Top.do = "unload" => scripts' = <<>>)
    BY <1>1, <1>2, <2>1, ReturnFacts, EmptySeq
  <2>2. ASSUME NEW k \in 1..6, NEW do \in {"load", "unload"}, Goto(Frame(do, Null, k))
        PROVE  /\ stack' # <<>> /\ stack' \in Seq(Calls) /\ Len(stack') = 1
               /\ stack'[1].do = do /\ stack'[1].vm = Null /\ stack'[1].at = k
    <3>1. Frame(do, Null, k) \in Calls
      BY DEF Frame, Calls
    <3>. QED  BY <1>1, <1>2, <2>2, <3>1, GotoFacts DEF Frame
  <2>. QED  BY <2>1, <2>2
<1>4. CallsNest'
  <2>1. Len(stack') <= MaxDepth
    <3>1. MaxDepth \in Nat /\ MaxDepth >= 2
      BY HostAssumption
    <3>2. CASE Len(stack') = 0
      BY <3>1, <3>2
    <3>3. CASE Len(stack') = 1
      BY <3>1, <3>3
    <3>. QED  BY <1>3, <3>2, <3>3
  <2>2. \A i \in 1..Len(stack') :
          /\ i = 1 /\ Len(stack') = 1 /\ stack'[i].do \in {"load", "unload"}
          /\ stack'[i].vm = Null /\ stack'[i].at \in 1..6
    <3>1. CASE Len(stack') = 0
      BY <3>1
    <3>2. CASE Len(stack') = 1
      BY <1>3, <3>2
    <3>. QED  BY <1>3, <3>1, <3>2
  <2>. QED  BY <1>3, <2>1, <2>2 DEF CallsNest, FrameFits, Life, Code
<1>5. \A v \in Vms : ~InLife(v) /\ ~InLife(v)'
  BY <1>2, <1>3 DEF InLife, Life
<1>6. StatesAreKnown'
  <2>1. Under("load") \/ Under("unload")
    BY <1>2 DEF Under
  <2>2. ~Under("erase") /\ (Under("unload") <=> Top.do = "unload")
    BY <1>2 DEF Under
  <2>3. ~Under("erase")' /\ (Under("unload")' => stack' # <<>>)
    BY <1>3 DEF Under, Outermost
  <2>4. CASE scripts' = <<>> /\ alive = {}
    BY <2>3, <2>4, EmptySeq DEF StatesAreKnown
  <2>5. CASE scripts' = scripts
    BY <1>3, <1>5, <2>2, <2>3, <2>5 DEF HostInv, StatesAreKnown, Under, Outermost, Listed
  <2>. QED  BY <2>4, <2>5
<1>7. \A m \in Modules : Opening(m)' = Opening(m)
  BY <1>2, <1>3 DEF Opening
<1>8. HandlesAreHeld'
  BY <1>5, <1>7, HandlesUnchanged
<1>. QED  BY <1>4, <1>6, <1>8 DEF HostInv

\* Where Load and Unload are when they take a step.
LEMMA LoadFacts ==
    ASSUME HostInv, Running("load")
    PROVE  /\ stack # <<>> /\ Top.do = "load" /\ Top.at \in 1..6 /\ BeforeLoadStep(Top.at)
           /\ LoadSteps[Top.at] = "lua" => Top.at = 1
           /\ LoadSteps[Top.at] = "api" => Top.at = 2
           /\ LoadSteps[Top.at] = "runtime" => Top.at = 3
           /\ LoadSteps[Top.at] = "command" => Top.at = 4
           /\ LoadSteps[Top.at] = "hooks" => Top.at = 5
           /\ LoadSteps[Top.at] = "plugins" => Top.at = 6
<1>1. stack # <<>> /\ Top.do = "load" /\ CallsNest
  BY DEF Running, HostInv
<1>2. Top.at \in 1..6
  BY <1>1, StackFacts DEF CallsNest, FrameFits
<1>3. BeforeLoadStep(Top.at)
  BY <1>1, Alone DEF HostInv, HostPhase, Under
<1>. QED  BY <1>1, <1>2, <1>3 DEF LoadSteps

LEMMA UnloadFacts ==
    ASSUME HostInv, Running("unload")
    PROVE  /\ stack # <<>> /\ Top.do = "unload" /\ Top.at \in 1..6
           /\ BeforeUnloadStep(Top.at)
           /\ Teardown[Top.at] = "hooks" => Top.at = 1
           /\ Teardown[Top.at] = "command" => Top.at = 2
           /\ Teardown[Top.at] = "pointer" => Top.at = 3
           /\ Teardown[Top.at] = "runtime" => Top.at = 4
           /\ Teardown[Top.at] = "api" => Top.at = 5
           /\ Teardown[Top.at] = "lua" => Top.at = 6
<1>1. stack # <<>> /\ Top.do = "unload" /\ CallsNest
  BY DEF Running, HostInv
<1>2. Top.at \in 1..6
  BY <1>1, StackFacts DEF CallsNest, FrameFits
<1>3. BeforeUnloadStep(Top.at)
  BY <1>1, Alone DEF HostInv, HostPhase, Under
<1>. QED  BY <1>1, <1>2, <1>3 DEF Teardown

\* After a step the outermost call is the one that was gone to, or there is none.
LEMMA PhaseNext ==
    ASSUME HostInv, stack # <<>>, Top.do \in {"load", "unload"}
    PROVE  /\ Return => stack' = <<>>
           /\ \A do \in {"load", "unload"}, k \in 1..6 : Goto(Frame(do, Null, k)) =>
                stack' # <<>> /\ Outermost'.do = do /\ Outermost'.at = k
<1>1. CallsNest
  BY DEF HostInv
<1>2. Len(stack) = 1
  BY <1>1, Alone
<1>3. Return => stack' = <<>>
  BY <1>1, <1>2, ReturnFacts
<1>4. ASSUME NEW do \in {"load", "unload"}, NEW k \in 1..6, Goto(Frame(do, Null, k))
      PROVE  stack' # <<>> /\ Outermost'.do = do /\ Outermost'.at = k
  <2>1. Frame(do, Null, k) \in Calls
    BY DEF Frame, Calls
  <2>. QED  BY <1>1, <1>2, <1>4, <2>1, GotoFacts DEF Frame, Outermost
<1>. QED  BY <1>3, <1>4


\* What a step of Load, and a step of Unload, does to the stack.
Stays(do, k) ==
    /\ stack' # <<>> /\ Outermost'.do = do /\ Outermost'.at = k
    /\ Goto(Frame(do, Null, k))

\* What such a step sets keeps its type, and what it leaves alone.
NextIsTyped ==
    /\ lua' \in BOOLEAN /\ api' \in BOOLEAN /\ runtime' \in BOOLEAN
    /\ command' \in BOOLEAN /\ pointer' \in BOOLEAN /\ hooks' \subseteq Hooks
    /\ scripts' = scripts \/ (scripts' = <<>> /\ alive = {})
    /\ UNCHANGED <<alive, libs, handles, linked, loaded, up>>

LEMMA LoadGoes ==
    ASSUME HostInv, Running("load")
    PROVE  /\ Return => stack' = <<>>
           /\ NextStep /\ Top.at < 6 => Stays("load", Top.at + 1)
           /\ \A k \in 1..6 : RollBack(k) => Stays("unload", k)
<1>1. Top.at < 6 => Top.at + 1 \in 1..6
  BY LoadFacts
<1>. QED  BY <1>1, LoadFacts, PhaseNext DEF NextStep, RollBack, Stays

LEMMA UnloadGoes ==
    ASSUME HostInv, Running("unload"), Onward
    PROVE  \/ Top.at = 6 /\ Return /\ stack' = <<>>
           \/ Top.at < 6 /\ Stays("unload", Top.at + 1)
<1>1. Len(Teardown) = 6
  BY DEF Teardown
<1>2. Top.at < 6 => Top.at + 1 \in 1..6
  BY UnloadFacts
<1>. QED  BY <1>1, <1>2, UnloadFacts, PhaseNext DEF Onward, Stays

\* The host is as the step that comes next finds it.
LEMMA HostGoes ==
    ASSUME HostInv, stack # <<>>, Top.do \in {"load", "unload"},
           NextIsTyped,
           NEW k \in 1..6,
           \/ Return /\ stack' = <<>> /\ BeforeLoadStep(1)'
           \/ Stays("load", k) /\ Top.do = "load" /\ BeforeLoadStep(k)'
           \/ Stays("unload", k) /\ BeforeUnloadStep(k)'
    PROVE  HostInv'
<1>1. HostPhase'
  <2>1. loaded' \in BOOLEAN /\ up' \in BOOLEAN /\ ~loaded'
    BY DEF HostInv, HostPhase, BeforeLoadStep, BeforeUnloadStep, NextIsTyped
  <2>. QED  BY <2>1 DEF HostPhase, Under, Stays, NextIsTyped
<1>2. BeforeLoadStep(1)' => scripts' = <<>>
  BY DEF BeforeLoadStep
<1>. QED  BY <1>1, <1>2, HostStepInv DEF Stays, NextIsTyped

LEMMA PreloadLuaInv == ASSUME HostInv, PreloadLua PROVE HostInv'
<1>1. Running("load") /\ Top.at = 1 /\ BeforeLoadStep(1) /\ stack # <<>> /\ Top.do = "load"
  BY LoadFacts DEF PreloadLua, At
<1>2. CASE lua' = TRUE /\ NextStep
  <2>1. Stays("load", 2) /\ BeforeLoadStep(2)'
    BY <1>1, <1>2, LoadGoes DEF PreloadLua, BeforeLoadStep, BeforeUnloadStep
  <2>2. NextIsTyped
    BY <1>2 DEF PreloadLua, HostInv, HostPhase, native, NextIsTyped
  <2>. QED  BY <1>1, <2>1, <2>2, HostGoes
<1>3. CASE lua' = FALSE /\ Return
  <2>1. Return /\ stack' = <<>> /\ BeforeLoadStep(1)'
    BY <1>1, <1>3, LoadGoes DEF PreloadLua, BeforeLoadStep, BeforeUnloadStep
  <2>2. NextIsTyped
    BY <1>3 DEF PreloadLua, HostInv, HostPhase, native, NextIsTyped
  <2>. QED  BY <1>1, <2>1, <2>2, HostGoes
<1>. QED  BY <1>2, <1>3 DEF PreloadLua

LEMMA InitializeApiInv == ASSUME HostInv, InitializeApi PROVE HostInv'
<1>1. Running("load") /\ Top.at = 2 /\ BeforeLoadStep(2) /\ stack # <<>> /\ Top.do = "load"
  BY LoadFacts DEF InitializeApi, At
<1>2. CASE api' = TRUE /\ NextStep
  <2>1. Stays("load", 3) /\ BeforeLoadStep(3)'
    BY <1>1, <1>2, LoadGoes DEF InitializeApi, BeforeLoadStep, BeforeUnloadStep
  <2>2. NextIsTyped
    BY <1>2 DEF InitializeApi, HostInv, HostPhase, native, NextIsTyped
  <2>. QED  BY <1>1, <2>1, <2>2, HostGoes
<1>3. CASE api' = FALSE /\ RollBack(6)
  <2>1. Stays("unload", 6) /\ BeforeUnloadStep(6)'
    BY <1>1, <1>3, LoadGoes DEF InitializeApi, BeforeLoadStep, BeforeUnloadStep
  <2>2. NextIsTyped
    BY <1>3 DEF InitializeApi, HostInv, HostPhase, native, NextIsTyped
  <2>. QED  BY <1>1, <2>1, <2>2, HostGoes
<1>4. CASE api' = TRUE /\ RollBack(5)
  <2>1. Stays("unload", 5) /\ BeforeUnloadStep(5)'
    BY <1>1, <1>4, LoadGoes DEF InitializeApi, BeforeLoadStep, BeforeUnloadStep
  <2>2. NextIsTyped
    BY <1>4 DEF InitializeApi, HostInv, HostPhase, native, NextIsTyped
  <2>. QED  BY <1>1, <2>1, <2>2, HostGoes
<1>. QED  BY <1>2, <1>3, <1>4 DEF InitializeApi

LEMMA InitializeRuntimeInv == ASSUME HostInv, InitializeRuntime PROVE HostInv'
<1>1. Running("load") /\ Top.at = 3 /\ BeforeLoadStep(3) /\ stack # <<>> /\ Top.do = "load"
  BY LoadFacts DEF InitializeRuntime, At
<1>2. CASE runtime' = TRUE /\ pointer' = TRUE /\ NextStep
  <2>1. Stays("load", 4) /\ BeforeLoadStep(4)'
    BY <1>1, <1>2, LoadGoes DEF InitializeRuntime, BeforeLoadStep, BeforeUnloadStep
  <2>2. NextIsTyped
    BY <1>2 DEF InitializeRuntime, HostInv, HostPhase, native, NextIsTyped
  <2>. QED  BY <1>1, <2>1, <2>2, HostGoes
<1>3. CASE RollBack(5) /\ UNCHANGED <<runtime, pointer>>
  <2>1. Stays("unload", 5) /\ BeforeUnloadStep(5)'
    BY <1>1, <1>3, LoadGoes DEF InitializeRuntime, BeforeLoadStep, BeforeUnloadStep
  <2>2. NextIsTyped
    BY <1>3 DEF InitializeRuntime, HostInv, HostPhase, native, NextIsTyped
  <2>. QED  BY <1>1, <2>1, <2>2, HostGoes
<1>. QED  BY <1>2, <1>3 DEF InitializeRuntime

LEMMA RegisterCommandInv == ASSUME HostInv, RegisterCommand PROVE HostInv'
<1>1. Running("load") /\ Top.at = 4 /\ BeforeLoadStep(4) /\ stack # <<>> /\ Top.do = "load"
  BY LoadFacts DEF RegisterCommand, At
<1>2. CASE command' = TRUE /\ NextStep
  <2>1. Stays("load", 5) /\ BeforeLoadStep(5)'
    BY <1>1, <1>2, LoadGoes DEF RegisterCommand, BeforeLoadStep, BeforeUnloadStep
  <2>2. NextIsTyped
    BY <1>2 DEF RegisterCommand, HostInv, HostPhase, native, NextIsTyped
  <2>. QED  BY <1>1, <2>1, <2>2, HostGoes
<1>3. CASE RollBack(3) /\ UNCHANGED command
  <2>1. Stays("unload", 3) /\ BeforeUnloadStep(3)'
    BY <1>1, <1>3, LoadGoes DEF RegisterCommand, BeforeLoadStep, BeforeUnloadStep
  <2>2. NextIsTyped
    BY <1>3 DEF RegisterCommand, HostInv, HostPhase, native, NextIsTyped
  <2>. QED  BY <1>1, <2>1, <2>2, HostGoes
<1>. QED  BY <1>2, <1>3 DEF RegisterCommand

LEMMA InstallHooksInv == ASSUME HostInv, InstallHooks PROVE HostInv'
<1>1. Running("load") /\ Top.at = 5 /\ BeforeLoadStep(5) /\ stack # <<>> /\ Top.do = "load"
  BY LoadFacts DEF InstallHooks, At
<1>2. CASE hooks' = Hooks /\ NextStep
  <2>1. Stays("load", 6) /\ BeforeLoadStep(6)'
    BY <1>1, <1>2, LoadGoes DEF InstallHooks, BeforeLoadStep, BeforeUnloadStep
  <2>2. NextIsTyped
    BY <1>2 DEF InstallHooks, HostInv, HostPhase, native, NextIsTyped
  <2>. QED  BY <1>1, <2>1, <2>2, HostGoes
<1>3. CASE hooks' \subseteq Hooks /\ RollBack(1)
  <2>1. Stays("unload", 1) /\ BeforeUnloadStep(1)'
    BY <1>1, <1>3, LoadGoes DEF InstallHooks, BeforeLoadStep, BeforeUnloadStep
  <2>2. NextIsTyped
    BY <1>3 DEF InstallHooks, HostInv, HostPhase, native, NextIsTyped
  <2>. QED  BY <1>1, <2>1, <2>2, HostGoes
<1>. QED  BY <1>2, <1>3 DEF InstallHooks

LEMMA RemoveHooksInv == ASSUME HostInv, RemoveHooks PROVE HostInv'
<1>1. /\ Running("unload") /\ Onward /\ Top.at = 1 /\ BeforeUnloadStep(1)
      /\ stack # <<>> /\ Top.do = "unload"
  BY UnloadFacts DEF RemoveHooks, TearsDown
<1>2. Stays("unload", 2) /\ BeforeUnloadStep(2)'
  BY <1>1, UnloadGoes DEF RemoveHooks, BeforeLoadStep, BeforeUnloadStep
<1>3. NextIsTyped
  BY DEF RemoveHooks, HostInv, HostPhase, native, NextIsTyped
<1>. QED  BY <1>1, <1>2, <1>3, HostGoes

LEMMA UnregisterCommandInv == ASSUME HostInv, UnregisterCommand PROVE HostInv'
<1>1. /\ Running("unload") /\ Onward /\ Top.at = 2 /\ BeforeUnloadStep(2)
      /\ stack # <<>> /\ Top.do = "unload"
  BY UnloadFacts DEF UnregisterCommand, TearsDown
<1>2. Stays("unload", 3) /\ BeforeUnloadStep(3)'
  BY <1>1, UnloadGoes DEF UnregisterCommand, BeforeLoadStep, BeforeUnloadStep
<1>3. NextIsTyped
  BY DEF UnregisterCommand, HostInv, HostPhase, native, NextIsTyped
<1>. QED  BY <1>1, <1>2, <1>3, HostGoes

LEMMA ClearPointerInv == ASSUME HostInv, ClearPointer PROVE HostInv'
<1>1. /\ Running("unload") /\ Onward /\ Top.at = 3 /\ BeforeUnloadStep(3)
      /\ stack # <<>> /\ Top.do = "unload"
  BY UnloadFacts DEF ClearPointer, TearsDown
<1>2. Stays("unload", 4) /\ BeforeUnloadStep(4)'
  BY <1>1, UnloadGoes DEF ClearPointer, BeforeLoadStep, BeforeUnloadStep
<1>3. NextIsTyped
  BY DEF ClearPointer, HostInv, HostPhase, native, NextIsTyped
<1>. QED  BY <1>1, <1>2, <1>3, HostGoes

LEMMA ShutdownApiInv == ASSUME HostInv, ShutdownApi PROVE HostInv'
<1>1. /\ Running("unload") /\ Onward /\ Top.at = 5 /\ BeforeUnloadStep(5)
      /\ stack # <<>> /\ Top.do = "unload"
  BY UnloadFacts DEF ShutdownApi, TearsDown
<1>2. Stays("unload", 6) /\ BeforeUnloadStep(6)'
  BY <1>1, UnloadGoes DEF ShutdownApi, BeforeLoadStep, BeforeUnloadStep
<1>3. NextIsTyped
  BY DEF ShutdownApi, HostInv, HostPhase, native, NextIsTyped
<1>. QED  BY <1>1, <1>2, <1>3, HostGoes

LEMMA ReleaseLuaInv == ASSUME HostInv, ReleaseLua PROVE HostInv'
<1>1. /\ Running("unload") /\ Onward /\ Top.at = 6 /\ BeforeUnloadStep(6)
      /\ stack # <<>> /\ Top.do = "unload"
  BY UnloadFacts DEF ReleaseLua, TearsDown
<1>2. Return /\ stack' = <<>> /\ BeforeLoadStep(1)'
  BY <1>1, UnloadGoes DEF ReleaseLua, BeforeLoadStep, BeforeUnloadStep
<1>3. NextIsTyped
  BY DEF ReleaseLua, HostInv, HostPhase, native, NextIsTyped
<1>. QED  BY <1>1, <1>2, <1>3, HostGoes

-----------------------------------------------------------------------------
(* What a change of the stack leaves of the calls, the phase and the states. *)

\* The d innermost calls give way to k new ones; the others stay.
Replaces(d, k) ==
    /\ stack' \in Seq(Calls) /\ Len(stack) \in Nat /\ Len(stack') \in Nat
    /\ d <= Len(stack) /\ Len(stack') = Len(stack) - d + k
    /\ \A i \in (d + 1)..Len(stack) : stack'[i - d + k] = stack[i]

LEMMA LenStack == CallsNest => Len(stack) \in Nat /\ (stack = <<>> <=> Len(stack) = 0)
BY LenProperties, EmptySeq DEF CallsNest

LEMMA CallReplaces ==
    ASSUME CallsNest, NEW f \in Calls, Call(f)
    PROVE  Replaces(0, 1) /\ stack'[1] = f /\ stack' # <<>>
<1>1. \A i \in 1..Len(stack) : i + 1 \in 2..Len(stack') /\ stack'[i + 1] = stack[i]
  BY CallFacts
<1>. QED  BY <1>1, CallFacts DEF Replaces

LEMMA GotoReplaces ==
    ASSUME CallsNest, stack # <<>>, NEW f \in Calls, Goto(f)
    PROVE  Replaces(1, 1) /\ stack'[1] = f /\ stack' # <<>>
<1>1. Len(stack) \in Nat /\ Len(stack) >= 1
  BY StackFacts
<1>. QED  BY <1>1, GotoFacts DEF Replaces

LEMMA ReturnReplaces ==
    ASSUME CallsNest, stack # <<>>, Return
    PROVE  Replaces(1, 0) /\ (stack' = <<>> <=> Len(stack) = 1)
<1>1. Len(stack) \in Nat /\ Len(stack) >= 1
  BY StackFacts
<1>2. \A i \in 2..Len(stack) : i - 1 \in 1..Len(stack') /\ stack'[i - 1] = stack[i]
  BY <1>1, ReturnFacts
<1>. QED  BY <1>1, <1>2, ReturnFacts DEF Replaces

\* What an action has to leave a call that stays.
Suits(i) ==
    /\ stack[i].do \notin {"free", "open"}
    /\ stack[i].do = "erase" => Len(scripts') = Len(scripts)
    /\ stack[i].do = "walk" => hooks' # {}
    /\ stack[i].do \in Code => stack[i].vm \in alive'

LEMMA StillNest ==
    ASSUME CallsNest, NEW d \in Nat, NEW k \in Nat, Replaces(d, k), Len(stack') <= MaxDepth,
           \A i \in (d + 1)..Len(stack) : Suits(i),
           \A i \in 1..k : FrameFits(i)'
    PROVE  CallsNest'
<1>. SUFFICES ASSUME NEW i \in 1..Len(stack'), i > k
              PROVE  FrameFits(i)'
  BY DEF CallsNest, Replaces
<1>. DEFINE j == i - k + d
<1>1. /\ j \in 1..Len(stack) /\ j >= d + 1 /\ stack'[i] = stack[j]
      /\ i = Len(stack') <=> j = Len(stack)
      /\ i = Len(stack') - 1 <=> j = Len(stack) - 1
      /\ i < Len(stack') <=> j < Len(stack)
      /\ j < Len(stack) => stack'[i + 1] = stack[j + 1]
  <2>1. j \in Int /\ j >= d + 1 /\ j <= Len(stack) /\ j - d + k = i
    BY DEF Replaces
  <2>2. j < Len(stack) => j + 1 \in (d + 1)..Len(stack) /\ (j + 1) - d + k = i + 1
    BY <2>1 DEF Replaces
  <2>3. j \in (d + 1)..Len(stack) /\ stack'[i] = stack[j]
    BY <2>1 DEF Replaces
  <2>4. j < Len(stack) => stack'[i + 1] = stack[j + 1]
    BY <2>2 DEF Replaces
  <2>5. /\ Len(stack) \in Nat /\ Len(stack') \in Nat
        /\ Len(stack') = Len(stack) - d + k
    BY DEF Replaces
  <2>. HIDE DEF j
  <2>6. /\ i = Len(stack') <=> j = Len(stack)
        /\ i = Len(stack') - 1 <=> j = Len(stack) - 1
        /\ i < Len(stack') <=> j < Len(stack)
    BY <2>1, <2>5
  <2>. QED  BY <2>3, <2>4, <2>5, <2>6
<1>. HIDE DEF j
<1>2. FrameFits(j) /\ Suits(j)
  BY <1>1 DEF CallsNest
<1>3. stack'[i].do \in {"load", "unload"} =>
        i = Len(stack') /\ stack'[i].at \in 1..6 /\ stack'[i].vm = Null
  BY <1>1, <1>2 DEF FrameFits
<1>4. stack'[i].do = "erase" =>
        i = Len(stack') /\ stack'[i].at \in 1..Len(scripts') /\ stack'[i].vm = Null
  BY <1>1, <1>2 DEF FrameFits, Suits
<1>5. stack'[i].do \in Life =>
        /\ stack'[i].vm \in Vms
        /\ \/ i = Len(stack')
           \/ /\ i = Len(stack') - 1
              /\ \/ stack'[i + 1].do = "load" /\ stack'[i + 1].at = 6
                 \/ /\ stack'[i + 1].do = "unload" /\ stack'[i + 1].at = 4
                    /\ stack'[i].do # "start"
                 \/ stack'[i + 1].do = "erase" /\ stack'[i].do # "start"
  <2>1. j = Len(stack) - 1 => j < Len(stack)
    BY <1>1 DEF Replaces
  <2>. QED  BY <1>1, <1>2, <2>1 DEF FrameFits
<1>6. stack'[i].do = "walk" =>
        /\ stack'[i].at \in Nat \ {0} /\ stack'[i].vm = Null /\ hooks' # {}
        /\ i < Len(stack') => stack'[i + 1].do \in Code
  BY <1>1, <1>2 DEF FrameFits, Suits
<1>7. stack'[i].do = "call" =>
        stack'[i].vm \in Vms /\ i < Len(stack') /\ stack'[i + 1].do = "walk"
  BY <1>1, <1>2 DEF FrameFits
<1>8. /\ stack'[i].do \in Code => stack'[i].vm \in alive'
      /\ stack'[i].do \notin {"free", "open"}
  BY <1>1, <1>2 DEF Suits
<1>. QED  BY <1>3, <1>4, <1>5, <1>6, <1>7, <1>8 DEF FrameFits

\* The outermost call, and the states that start or close.
LEMMA OutermostStays ==
    ASSUME NEW d \in Nat, NEW k \in Nat, Replaces(d, k), d < Len(stack)
    PROVE  Outermost' = Outermost /\ stack' # <<>> /\ stack # <<>>
<1>1. Len(stack) \in (d + 1)..Len(stack) /\ Len(stack) - d + k = Len(stack')
  BY DEF Replaces
<1>2. Len(stack') # 0 /\ Len(stack) # 0
  BY <1>1 DEF Replaces
<1>. QED  BY <1>1, <1>2 DEF Replaces, Outermost

LEMMA LifeNext ==
    ASSUME NEW d \in Nat, NEW k \in Nat, Replaces(d, k), NEW v
    PROVE  /\ InLife(v)' => \/ \E i \in 1..k : i <= Len(stack') /\ stack'[i].do \in Life /\ stack'[i].vm = v
                            \/ \E i \in (d + 1)..Len(stack) : stack[i].do \in Life /\ stack[i].vm = v
           /\ (\E i \in 1..k : stack'[i].do \in Life /\ stack'[i].vm = v) => InLife(v)'
           /\ (\E i \in (d + 1)..Len(stack) : stack[i].do \in Life /\ stack[i].vm = v) => InLife(v)'
<1>1. ASSUME NEW i \in 1..Len(stack'), i > k
      PROVE  \E j \in (d + 1)..Len(stack) : stack'[i] = stack[j]
  <2>1. i - k + d \in (d + 1)..Len(stack) /\ (i - k + d) - d + k = i
    BY <1>1 DEF Replaces
  <2>. QED  BY <2>1 DEF Replaces
<1>2. ASSUME NEW j \in (d + 1)..Len(stack)
      PROVE  \E i \in 1..Len(stack') : stack'[i] = stack[j]
  <2>1. j - d + k \in 1..Len(stack')
    BY <1>2 DEF Replaces
  <2>. QED  BY <2>1, <1>2 DEF Replaces
<1>3. \A i \in 1..k : i \in 1..Len(stack')
  BY DEF Replaces
<1>4. InLife(v)' => \/ \E i \in 1..k : i <= Len(stack') /\ stack'[i].do \in Life /\ stack'[i].vm = v
                    \/ \E i \in (d + 1)..Len(stack) : stack[i].do \in Life /\ stack[i].vm = v
  <2>. SUFFICES ASSUME NEW i \in 1..Len(stack'), stack'[i].do \in Life, stack'[i].vm = v
                PROVE  \/ \E j \in 1..k : j <= Len(stack') /\ stack'[j].do \in Life /\ stack'[j].vm = v
                       \/ \E j \in (d + 1)..Len(stack) : stack[j].do \in Life /\ stack[j].vm = v
    BY DEF InLife
  <2>1. CASE i > k
    BY <1>1, <2>1
  <2>2. CASE ~(i > k)
    BY <2>2 DEF Replaces
  <2>. QED  BY <2>1, <2>2
<1>. QED  BY <1>2, <1>3, <1>4 DEF InLife

\* A state that starts or closes does so outermost, or called by the host alone.
LEMMA OneLife ==
    ASSUME CallsNest, stack # <<>>, Top.do \in Life
    PROVE  /\ Top.vm \in Vms /\ (Top.do # "free" => Top.vm \in alive)
           /\ \A v : InLife(v) <=> v = Top.vm
           /\ \/ Len(stack) = 1
              \/ /\ Len(stack) = 2
                 /\ \/ stack[2].do = "load" /\ stack[2].at = 6
                    \/ stack[2].do = "unload" /\ stack[2].at = 4 /\ Top.do # "start"
                    \/ stack[2].do = "erase" /\ Top.do # "start"
<1>1. Top = stack[1] /\ Len(stack) \in Nat /\ 1 \in 1..Len(stack)
  BY StackFacts
<1>2. FrameFits(1)
  BY <1>1 DEF CallsNest
<1>3. \/ Len(stack) = 1
      \/ /\ Len(stack) = 2
         /\ \/ stack[2].do = "load" /\ stack[2].at = 6
            \/ stack[2].do = "unload" /\ stack[2].at = 4 /\ Top.do # "start"
            \/ stack[2].do = "erase" /\ Top.do # "start"
  BY <1>1, <1>2 DEF FrameFits, Life, Code
<1>4. Top.vm \in Vms /\ (Top.do # "free" => Top.vm \in alive)
  BY <1>1, <1>2 DEF FrameFits, Life, Code
<1>5. \A i \in 1..Len(stack) : stack[i].do \in Life => i = 1
  BY <1>1, <1>3 DEF Life
<1>. QED  BY <1>1, <1>3, <1>4, <1>5 DEF InLife

\* Under a step of Load before the last, or one of Unload after the fourth, no
\* state starts or closes, and none without a call in progress.
LEMMA NoLife ==
    ASSUME CallsNest,
           \/ stack = <<>>
           \/ stack # <<>> /\ Top.do \in {"load", "unload", "erase"}
    PROVE  \A v : ~InLife(v)
<1>1. CASE stack = <<>>
  BY <1>1, LenStack DEF InLife
<1>2. CASE stack # <<>> /\ Top.do \in {"load", "unload", "erase"}
  BY <1>2, Alone, StackFacts DEF InLife, Life
<1>. QED  BY <1>1, <1>2

\* The phase of the host when a step leaves the host alone.
LEMMA PhaseStays ==
    ASSUME HostInv, NEW d \in Nat, NEW k \in Nat, Replaces(d, k), UNCHANGED host,
           up' \in BOOLEAN,
           \/ d < Len(stack)
           \/ /\ stack' # <<>> \/ loaded
              /\ ~Under("load") /\ ~Under("unload") /\ ~Under("load")' /\ ~Under("unload")'
              /\ stack # <<>> \/ loaded,
           \/ UNCHANGED <<scripts, alive>>
           \/ (Under("load") => Outermost.at = 6) /\ (Under("unload") => Outermost.at <= 4)
    PROVE  HostPhase'
<1>1. UNCHANGED <<lua, api, runtime, command, pointer, hooks, loaded>>
  BY DEF host
<1>2. CASE d < Len(stack)
  <2>1. Outermost' = Outermost /\ stack # <<>> /\ stack' # <<>>
    BY <1>2, OutermostStays
  <2>2. (Under("load")' <=> Under("load")) /\ (Under("unload")' <=> Under("unload"))
    BY <2>1 DEF Under
  <2>3. Under("load") => BeforeLoadStep(Outermost.at)'
    BY <1>1, <2>1 DEF HostInv, HostPhase, BeforeLoadStep
  <2>4. Under("unload") => BeforeUnloadStep(Outermost.at)'
    <3>1. Under("unload") => Outermost.at \in 1..6
      BY <2>1, LenStack DEF HostInv, CallsNest, FrameFits, Under, Outermost
    <3>. QED  BY <1>1, <2>1, <3>1 DEF HostInv, HostPhase, BeforeUnloadStep
  <2>. QED  BY <1>1, <2>1, <2>2, <2>3, <2>4 DEF HostInv, HostPhase
<1>3. CASE ~(d < Len(stack))
  BY <1>1, <1>3 DEF HostInv, HostPhase
<1>. QED  BY <1>2, <1>3

\* The states when a step leaves them alone.
LEMMA StatesStay ==
    ASSUME HostInv, NEW d \in Nat, NEW k \in Nat, Replaces(d, k), UNCHANGED <<scripts, alive>>,
           \A v : InLife(v)' <=> InLife(v), stack # <<>> => Top.do # "erase",
           \/ d < Len(stack)
           \/ /\ ~Under("unload") /\ ~Under("unload")'
              /\ ~Under("erase") /\ ~Under("erase")'
    PROVE  StatesAreKnown'
<1>1. \A v : Listed(v)' <=> Listed(v)
  BY DEF Listed
<1>2. /\ Under("erase")' <=> Under("erase")
      /\ Under("unload")' <=> Under("unload")
      /\ Under("erase") => Outermost' = Outermost
  BY OutermostStays DEF Under
<1>3. Under("erase") => Gone' = Gone
  BY <1>2 DEF Gone
<1>4. Under("erase") => Len(stack) > 1
  <2>1. CallsNest
    BY DEF HostInv
  <2>2. stack # <<>> => Top = stack[1] /\ Len(stack) \in Nat /\ Len(stack) >= 1
    BY <2>1, StackFacts
  <2>. QED  BY <2>2 DEF Under, Outermost
<1>. QED  BY <1>1, <1>2, <1>3, <1>4 DEF HostInv, StatesAreKnown
-----------------------------------------------------------------------------
(* What plugin code does, and what the engine does meanwhile: walks, their *)
(* callbacks and opens come and go, and no state starts or closes.         *)

Inner == {"walk", "call", "open"}
InnerStep(d, k) ==
    /\ Replaces(d, k)
    /\ \A i \in 1..d : stack[i].do \in Inner
    /\ \A i \in 1..k : stack'[i].do \in Inner

LEMMA InnerLife ==
    ASSUME NEW d \in Nat, NEW k \in Nat, InnerStep(d, k), NEW v
    PROVE  InLife(v)' <=> InLife(v)
<1>1. Replaces(d, k) /\ Len(stack) \in Nat /\ d <= Len(stack)
  BY DEF InnerStep, Replaces
<1>2. InLife(v) <=> \E i \in (d + 1)..Len(stack) : stack[i].do \in Life /\ stack[i].vm = v
  <2>1. \A i \in 1..Len(stack) : stack[i].do \in Life => i \in (d + 1)..Len(stack)
    BY <1>1 DEF InnerStep, Inner, Life
  <2>. QED  BY <1>1, <2>1 DEF InLife
<1>3. \A i \in 1..k : stack'[i].do \notin Life
  BY DEF InnerStep, Inner, Life
<1>. QED  BY <1>1, <1>2, <1>3, LifeNext

LEMMA InnerInv ==
    ASSUME HostInv, NEW d \in Nat, NEW k \in Nat, InnerStep(d, k),
           UNCHANGED <<host, scripts, alive>>, up' \in BOOLEAN,
           Len(stack') <= MaxDepth,
           d = 0 => stack = <<>> \/ Top.do \in Code,
           \A i \in 1..k : FrameFits(i)',
           stack = <<>> => loaded,
           HandlesAreHeld'
    PROVE  HostInv'
<1>1. /\ CallsNest /\ Replaces(d, k) /\ Len(stack) \in Nat /\ Len(stack') \in Nat
      /\ d <= Len(stack) /\ Len(stack') = Len(stack) - d + k
      /\ stack' \in Seq(Calls)
  BY DEF HostInv, InnerStep, Replaces
<1>2. CallsNest'
  <2>1. ASSUME NEW i \in (d + 1)..Len(stack)
        PROVE  Suits(i)
    <3>1. i \in 1..Len(stack) /\ FrameFits(i)
      BY <1>1 DEF CallsNest
    <3>2. stack[i].do \notin {"free", "open"}
      <4>1. CASE i = 1
        BY <1>1, <3>1, <4>1, StackFacts, LenStack DEF Code
      <4>2. CASE i # 1
        BY <3>1, <4>2 DEF FrameFits
      <4>. QED  BY <4>1, <4>2
    <3>. QED  BY <3>1, <3>2 DEF FrameFits, Suits, host
  <2>. QED  BY <1>1, <2>1, StillNest
<1>3. \/ d < Len(stack)
      \/ /\ stack' # <<>> \/ loaded
         /\ stack # <<>> \/ loaded
         /\ \A do \in {"load", "unload", "erase"} : ~Under(do) /\ ~Under(do)'
  <2>1. CASE d < Len(stack)
    BY <2>1
  <2>2. CASE d = Len(stack)
    <3>1. ASSUME NEW do \in {"load", "unload", "erase"}
          PROVE  ~Under(do) /\ ~Under(do)'
      <4>1. stack # <<>> => Outermost.do \in Inner
        BY <1>1, <2>2, LenStack DEF InnerStep, Outermost
      <4>2. stack' # <<>> => Len(stack') \in 1..k
        BY <1>1, <2>2, EmptySeq, LenProperties
      <4>3. stack' # <<>> => Outermost'.do \in Inner
        BY <4>2 DEF InnerStep, Outermost
      <4>. QED  BY <4>1, <4>3 DEF Under, Inner
    <3>2. loaded
      BY <3>1 DEF HostInv, HostPhase
    <3>. QED  BY <3>1, <3>2
  <2>. QED  BY <1>1, <2>1, <2>2
<1>4. HostPhase'
  BY <1>1, <1>3, PhaseStays
<1>5. StatesAreKnown'
  <2>1. stack # <<>> => Top.do # "erase"
    <3>1. CASE d = 0
      BY <3>1 DEF Code
    <3>2. CASE d # 0
      BY <1>1, <3>2, StackFacts DEF InnerStep, Inner
    <3>. QED  BY <3>1, <3>2
  <2>. QED  BY <1>1, <1>3, <2>1, InnerLife, StatesStay
<1>. QED  BY <1>2, <1>4, <1>5 DEF HostInv

\* Whether a library is being opened.
LEMMA NoOpening ==
    ASSUME CallsNest, NEW m
    PROVE  /\ (stack = <<>> \/ Top.do # "open") => Opening(m) = 0
           /\ (stack' # <<>> => stack'[1].do # "open") => Opening(m)' = 0
           /\ Replaces(1, 0) => Opening(m)' = 0
<1>1. stack # <<>> => Top = stack[1]
  BY StackFacts
<1>2. ASSUME Replaces(1, 0), stack' # <<>>
      PROVE  stack'[1].do # "open"
  <2>1. Len(stack') # 0
    BY <1>2, EmptySeq DEF Replaces
  <2>2. 2 \in 2..Len(stack) /\ stack'[1] = stack[2]
    BY <1>2, <2>1 DEF Replaces
  <2>3. FrameFits(2)
    BY <2>2, LenStack DEF CallsNest
  <2>. QED  BY <2>2, <2>3 DEF FrameFits
<1>. QED  BY <1>1, <1>2 DEF Opening

LEMMA CallReturnsInv == ASSUME HostInv, CallReturns PROVE HostInv'
<1>1. /\ CallsNest /\ stack # <<>> /\ Top.do = "call" /\ Return
      /\ UNCHANGED <<host, scripts, alive, libs, handles, linked, up>> /\ up' \in BOOLEAN
  BY DEF CallReturns, Running, HostInv, HostPhase, native
<1>2. Replaces(1, 0) /\ Len(stack) \in Nat /\ Len(stack') <= MaxDepth
  <2>1. MaxDepth \in Nat
    BY HostAssumption
  <2>. QED  BY <1>1, <2>1, ReturnReplaces DEF Replaces, CallsNest
<1>3. InnerStep(1, 0)
  BY <1>1, <1>2, StackFacts DEF InnerStep, Inner
<1>4. HandlesAreHeld'
  BY <1>1, <1>2, <1>3, NoOpening, InnerLife, HandlesUnchanged
<1>. QED  BY <1>1, <1>2, <1>3, <1>4, InnerInv

LEMMA EngineFiresInv == ASSUME HostInv, EngineFires PROVE HostInv'
<1>. DEFINE f == Frame("walk", Null, 1)
<1>1. /\ CallsNest /\ (stack # <<>> => Top.do \in Code) /\ Call(f) /\ f \in Calls
      /\ UNCHANGED <<host, scripts, alive, libs, handles, linked, up>> /\ up' \in BOOLEAN
      /\ hooks # {} /\ Len(stack) < MaxDepth
  BY DEF EngineFires, HostInv, HostPhase, native, Frame, Calls
<1>2. Replaces(0, 1) /\ stack'[1] = f
  BY <1>1, CallReplaces
<1>3. f.do = "walk" /\ f.vm = Null /\ f.at = 1
  BY DEF Frame
<1>4. Len(stack') <= MaxDepth
  BY <1>1, <1>2, HostAssumption DEF Replaces
<1>5. InnerStep(0, 1)
  BY <1>2, <1>3 DEF InnerStep, Inner
<1>6. HandlesAreHeld'
  <2>1. \A m \in Modules : Opening(m)' = Opening(m)
    BY <1>1, <1>2, <1>3, NoOpening DEF Code
  <2>. QED  BY <1>1, <1>5, <2>1, InnerLife, HandlesUnchanged
<1>7. FrameFits(1)'
  <2>1. 1 < Len(stack') => stack'[2].do \in Code
    <3>1. 1 < Len(stack') => stack'[2] = stack[1] /\ stack # <<>>
      BY <1>2, LenStack, <1>1 DEF Replaces
    <3>. QED  BY <1>1, <3>1, StackFacts
  <2>. QED  BY <1>1, <1>2, <1>3, <2>1 DEF FrameFits, host, Life, Code
<1>8. stack = <<>> => loaded
  BY <1>1 DEF HostInv, HostPhase, BeforeLoadStep
<1>. HIDE DEF f
<1>. QED  BY <1>1, <1>4, <1>5, <1>6, <1>7, <1>8, InnerInv

\* What a walk meets: unless a state is being erased, states that are loaded and
\* not closing; and what is not the null pointer is a state that exists.
LEMMA WalkMeets ==
    ASSUME HostInv, Running("walk"), Top.at <= Len(scripts)
    PROVE  /\ Top.at \in 1..Len(scripts) /\ ~Under("unload")
           /\ scripts[Top.at] # Null => scripts[Top.at] \in alive
           /\ ~Under("erase") => scripts[Top.at] \in alive /\ ~InLife(scripts[Top.at])
<1>1. /\ CallsNest /\ stack # <<>> /\ Top.do = "walk" /\ Top = stack[1]
      /\ Len(stack) \in Nat /\ Len(stack) >= 1 /\ StatesAreKnown
  BY StackFacts DEF HostInv, Running
<1>2. Top.at \in 1..Len(scripts) /\ hooks # {}
  <2>1. FrameFits(1)
    BY <1>1 DEF CallsNest
  <2>2. Len(scripts) \in Nat
    BY <1>1, LenProperties DEF StatesAreKnown
  <2>. QED  BY <1>1, <2>1, <2>2 DEF FrameFits
<1>3. ~Under("unload")
  <2>. SUFFICES ASSUME Under("unload")
                PROVE  FALSE
    OBVIOUS
  <2>1. BeforeUnloadStep(Outermost.at) /\ FrameFits(Len(stack))
    BY <1>1 DEF HostInv, HostPhase, CallsNest
  <2>2. Outermost.at = 1
    BY <1>1, <1>2, <2>1 DEF BeforeUnloadStep, FrameFits, Under, Outermost
  <2>3. Len(stack) > 1
    BY <1>1 DEF Under, Outermost
  <2>. DEFINE n == Len(stack) - 1
  <2>4. /\ n \in 1..Len(stack) /\ FrameFits(n) /\ stack[n] \in Calls /\ n # Len(stack)
        /\ stack[n + 1] = Outermost /\ n = Len(stack) - 1 /\ n < Len(stack)
    BY <1>1, <2>3, StackFacts DEF CallsNest, Outermost
  <2>. HIDE DEF n
  <2>5. stack[n].do \notin {"load", "unload", "erase"}
    BY <2>4 DEF FrameFits
  <2>6. stack[n].do \notin Life
    BY <2>2, <2>4 DEF FrameFits, Under
  <2>7. stack[n].do \notin {"walk", "call", "open"}
    BY <2>4 DEF FrameFits, Under, Code
  <2>. QED  BY <2>4, <2>5, <2>6, <2>7 DEF Calls, Life
<1>4. ~Under("erase") => scripts[Top.at] \in alive /\ ~InLife(scripts[Top.at])
  BY <1>1, <1>2, <1>3 DEF StatesAreKnown
<1>5. ASSUME Under("erase"), scripts[Top.at] # Null
      PROVE  scripts[Top.at] \in alive
  <2>1. CASE Top.at # Gone
    BY <1>1, <1>2, <1>5, <2>1 DEF StatesAreKnown
  <2>2. CASE Top.at = Gone
    <3>1. Len(stack) > 1
      BY <1>1, <1>5 DEF Under, Outermost
    <3>2. InLife(scripts[Gone])
      BY <1>1, <1>5, <2>2, <3>1 DEF StatesAreKnown
    <3>3. PICK i \in 1..Len(stack) : stack[i].do \in Life /\ stack[i].vm = scripts[Gone]
      BY <3>2 DEF InLife
    <3>4. FrameFits(i) /\ i # 1
      BY <1>1, <3>3 DEF CallsNest, Life
    <3>. QED  BY <2>2, <3>3, <3>4 DEF FrameFits, Life, Code
  <2>. QED  BY <2>1, <2>2
<1>. QED  BY <1>2, <1>3, <1>4, <1>5

\* One call in the place of the innermost, or one more.
LEMMA SwapFits ==
    ASSUME CallsNest, stack # <<>>, NEW f \in Calls, Goto(f)
    PROVE  /\ Replaces(1, 1) /\ stack'[1] = f /\ Len(stack') = Len(stack)
           /\ 1 < Len(stack) => stack'[2] = stack[2]
<1>1. Replaces(1, 1) /\ stack'[1] = f
  BY GotoReplaces
<1>. QED  BY <1>1, StackFacts DEF Replaces

LEMMA WalkNextInv == ASSUME HostInv, WalkNext PROVE HostInv'
<1>1. /\ CallsNest /\ stack # <<>> /\ Top.do = "walk" /\ Running("walk") /\ Top = stack[1]
      /\ Len(stack) \in Nat /\ Len(stack) >= 1 /\ FrameFits(1)
      /\ UNCHANGED <<host, scripts, alive, libs, handles, linked>> /\ up' \in BOOLEAN
      /\ Len(stack) <= MaxDepth /\ MaxDepth \in Nat
  <2>1. /\ CallsNest /\ stack # <<>> /\ Top.do = "walk" /\ Running("walk")
        /\ UNCHANGED <<host, scripts, alive, libs, handles, linked>> /\ up' \in BOOLEAN
        /\ Len(stack) <= MaxDepth /\ MaxDepth \in Nat
    BY HostAssumption DEF WalkNext, Running, HostInv, HostPhase, native, CallsNest
  <2>. QED  BY <2>1, StackFacts DEF CallsNest
<1>2. CASE Return
  <2>1. Replaces(1, 0)
    BY <1>1, <1>2, ReturnReplaces
  <2>2. InnerStep(1, 0) /\ Len(stack') <= MaxDepth
    BY <1>1, <2>1 DEF InnerStep, Inner, Replaces
  <2>3. HandlesAreHeld'
    BY <1>1, <2>1, <2>2, NoOpening, InnerLife, HandlesUnchanged
  <2>4. \A i \in 1..0 : FrameFits(i)'
    OBVIOUS
  <2>5. UNCHANGED <<host, scripts, alive>> /\ up' \in BOOLEAN /\ stack # <<>>
    BY <1>1
  <2>. QED  BY <2>2, <2>3, <2>4, <2>5, InnerInv
<1>3. CASE /\ Top.at <= Len(scripts) /\ scripts[Top.at] # Null
           /\ stack' = (IF Len(stack) < MaxDepth
                        THEN <<Frame("call", scripts[Top.at], 0)>> ELSE <<>>)
                       \o <<Frame("walk", Null, Top.at + 1)>> \o Tail(stack)
  <2>. DEFINE c == Frame("call", scripts[Top.at], 0)
              w == Frame("walk", Null, Top.at + 1)
  <2>1. /\ c \in Calls /\ w \in Calls /\ c.do = "call" /\ w.do = "walk"
        /\ c.vm \in Vms /\ c.vm \in alive /\ w.vm = Null /\ w.at \in Nat \ {0}
        /\ hooks # {} /\ (1 < Len(stack) => stack[2].do \in Code)
    <3>1. Top.at \in Nat \ {0} /\ hooks # {} /\ (1 < Len(stack) => stack[2].do \in Code)
      BY <1>1 DEF FrameFits
    <3>2. scripts[Top.at] \in Vms /\ scripts[Top.at] \in alive
      BY <1>1, <1>3, WalkMeets DEF HostInv, StatesAreKnown
    <3>. QED  BY <3>1, <3>2 DEF Frame, Calls
  <2>. HIDE DEF c, w
  <2>2. CASE Len(stack) < MaxDepth
    <3>1. stack' = (<<c>> \o <<w>>) \o Tail(stack)
      BY <1>3, <2>2 DEF c, w
    <3>2. /\ <<c>> \o <<w>> \in Seq(Calls) /\ Len(<<c>> \o <<w>>) = 2
          /\ (<<c>> \o <<w>>)[1] = c /\ (<<c>> \o <<w>>)[2] = w
      BY <2>1
    <3>3. /\ Tail(stack) \in Seq(Calls) /\ Len(Tail(stack)) = Len(stack) - 1
          /\ \A i \in 1..(Len(stack) - 1) : Tail(stack)[i] = stack[i + 1]
      BY <1>1, StackFacts
    <3>4. /\ stack' \in Seq(Calls) /\ Len(stack') = Len(stack) + 1
          /\ stack'[1] = c /\ stack'[2] = w
          /\ \A i \in 2..Len(stack) : stack'[i + 1] = stack[i]
      <4>. DEFINE s == <<c>> \o <<w>>
      <4>. HIDE DEF s
      <4>1. s \in Seq(Calls) /\ Len(s) = 2 /\ s[1] = c /\ s[2] = w
        BY <3>2 DEF s
      <4>2. /\ stack' \in Seq(Calls) /\ Len(stack') = Len(s) + Len(Tail(stack))
            /\ \A i \in 1..(Len(s) + Len(Tail(stack))) :
                 stack'[i] = IF i <= Len(s) THEN s[i] ELSE Tail(stack)[i - Len(s)]
        BY <3>1, <3>3, <4>1, ConcatProperties DEF s
      <4>3. ASSUME NEW i \in 2..Len(stack)
            PROVE  stack'[i + 1] = stack[i]
        <5>1. i - 1 \in 1..(Len(stack) - 1) /\ (i - 1) + 1 = i /\ (i + 1) - 2 = i - 1
          BY <1>1
        <5>2. i + 1 \in 1..(Len(s) + Len(Tail(stack))) /\ ~(i + 1 <= Len(s))
          BY <1>1, <3>3, <4>1
        <5>. QED  BY <3>3, <4>1, <4>2, <5>1, <5>2
      <4>. QED  BY <1>1, <3>3, <4>1, <4>2, <4>3
    <3>5. InnerStep(1, 2) /\ Len(stack') <= MaxDepth
      <4>1. Replaces(1, 2)
        BY <1>1, <3>4 DEF Replaces
      <4>2. \A i \in 1..2 : stack'[i].do \in Inner
        BY <2>1, <3>4 DEF Inner
      <4>. QED  BY <1>1, <2>2, <3>4, <4>1, <4>2 DEF InnerStep, Inner
    <3>6. FrameFits(1)' /\ FrameFits(2)'
      <4>1. FrameFits(1)'
        BY <1>1, <2>1, <3>4 DEF FrameFits, Life, Code
      <4>2. 2 < Len(stack') => stack'[3] = stack[2] /\ 1 < Len(stack)
        BY <1>1, <3>4
      <4>3. hooks' # {}
        BY <1>1, <2>1 DEF host
      <4>. QED  BY <2>1, <3>4, <4>1, <4>2, <4>3 DEF FrameFits, Life, Code
    <3>7. \A i \in 1..2 : FrameFits(i)'
      BY <3>6
    <3>8. HandlesAreHeld'
      <4>1. \A m \in Modules : Opening(m)' = Opening(m)
        BY <1>1, <2>1, <3>4, NoOpening
      <4>. QED  BY <1>1, <3>5, <4>1, InnerLife, HandlesUnchanged
    <3>. QED  BY <1>1, <3>5, <3>7, <3>8, InnerInv
  <2>3. CASE ~(Len(stack) < MaxDepth)
    <3>1. Goto(w)
      <4>1. stack' = (<<>> \o <<w>>) \o Tail(stack)
        BY <1>3, <2>3 DEF w
      <4>2. <<>> \o <<w>> = <<w>>
        BY <2>1
      <4>. QED  BY <4>1, <4>2 DEF Goto
    <3>2. /\ Replaces(1, 1) /\ stack'[1] = w /\ Len(stack') = Len(stack)
          /\ 1 < Len(stack) => stack'[2] = stack[2]
      BY <1>1, <2>1, <3>1, SwapFits
    <3>3. InnerStep(1, 1)
      BY <1>1, <2>1, <3>2 DEF InnerStep, Inner
    <3>4. FrameFits(1)'
      BY <1>1, <2>1, <3>2 DEF FrameFits, Life, Code, host
    <3>5. HandlesAreHeld'
      <4>1. \A m \in Modules : Opening(m)' = Opening(m)
        BY <1>1, <2>1, <3>2, NoOpening
      <4>. QED  BY <1>1, <3>3, <4>1, InnerLife, HandlesUnchanged
    <3>. QED  BY <1>1, <3>2, <3>3, <3>4, <3>5, InnerInv
  <2>. QED  BY <2>2, <2>3
<1>4. CASE UNCHANGED stack
  <2>1. \A i \in 1..Len(stack) : FrameFits(i)' <=> FrameFits(i)
    BY <1>1, <1>4 DEF FrameFits, host
  <2>2. CallsNest'
    BY <1>1, <1>4, <2>1 DEF CallsNest
  <2>3. HostPhase'
    BY <1>1, <1>4 DEF HostInv, HostPhase, host, Under, Outermost, BeforeLoadStep,
       BeforeUnloadStep
  <2>4. StatesAreKnown'
    BY <1>1, <1>4 DEF HostInv, StatesAreKnown, InLife, Listed, Gone, Under, Outermost
  <2>5. HandlesAreHeld'
    BY <1>1, <1>4, HandlesUnchanged DEF Opening, InLife
  <2>. QED  BY <2>2, <2>3, <2>4, <2>5 DEF HostInv
<1>. QED  BY <1>1, <1>2, <1>3, <1>4 DEF WalkNext
-----------------------------------------------------------------------------
(* The native libraries.                                                   *)

LEMMA HandledIsFinite ==
    ASSUME NEW m
    PROVE  /\ IsFiniteSet(Handled(m)) /\ Cardinality(Handled(m)) \in Nat
           /\ IsFiniteSet(Handled(m)') /\ Cardinality(Handled(m)') \in Nat
<1>1. IsFiniteSet(Vms) /\ IsFiniteSet(1..MaxHandles)
  BY HostAssumption, FS_Interval
<1>2. IsFiniteSet(Vms \X (1..MaxHandles))
  BY <1>1, FS_Product
<1>3. \A S : S \subseteq Vms \X (1..MaxHandles) => IsFiniteSet(S) /\ Cardinality(S) \in Nat
  BY <1>2, FS_Subset, FS_CardinalityType
<1>4. /\ Handled(m) \subseteq Vms \X (1..MaxHandles)
      /\ Handled(m)' \subseteq Vms \X (1..MaxHandles)
  BY DEF Handled
<1>. QED  BY <1>3, <1>4

\* The call of LuaCS_OpenModule on top of plugin code that requires a module.
LEMMA LoadModuleInv ==
    ASSUME HostInv, NEW v \in Vms, NEW m \in Modules, LoadModule(v, m)
    PROVE  HostInv'
<1>. DEFINE f == [Frame("open", v, 0) EXCEPT !.at = m]
<1>1. /\ CallsNest /\ stack # <<>> /\ Top.do \in Code /\ Top.vm = v /\ Call(f)
      /\ UNCHANGED <<host, scripts, alive, handles, linked>> /\ up' \in BOOLEAN
      /\ libs' = [libs EXCEPT ![m] = @ + 1]
      /\ Len(handles[v]) < MaxHandles /\ Len(stack) < MaxDepth
  BY DEF LoadModule, CodeOf, HostInv, HostPhase
<1>2. f \in Calls /\ f.do = "open" /\ f.vm = v /\ f.at = m
  BY DEF Frame, Calls
<1>. HIDE DEF f
<1>3. Replaces(0, 1) /\ stack'[1] = f /\ stack' # <<>>
  BY <1>1, <1>2, CallReplaces
<1>4. Len(stack') <= MaxDepth
  BY <1>1, <1>3, HostAssumption DEF Replaces
<1>5. InnerStep(0, 1)
  BY <1>2, <1>3 DEF InnerStep, Inner
<1>6. FrameFits(1)'
  <2>1. 1 < Len(stack') /\ stack'[2] = Top
    BY <1>1, <1>3, StackFacts DEF Replaces
  <2>. QED  BY <1>1, <1>2, <1>3, <2>1 DEF FrameFits, Life, Code
<1>7. HandlesAreHeld'
  <2>1. HandlesAreHeld
    BY DEF HostInv
  <2>2. \A n \in Modules : Opening(n) = 0 /\ Opening(n)' = IF n = m THEN 1 ELSE 0
    BY <1>1, <1>2, <1>3, NoOpening DEF Opening, Code
  <2>3. \A n \in Modules : Handled(n)' = Handled(n) /\ Cardinality(Handled(n)) \in Nat
    BY <1>1, HandledIsFinite DEF Handled
  <2>4. \A u \in Vms : InLife(u)' <=> InLife(u)
    BY <1>5, InnerLife
  <2>5. libs' \in [Modules -> Nat]
    BY <1>1, <2>1 DEF HandlesAreHeld
  <2>6. \A n \in Modules : libs'[n] = Cardinality(Handled(n)') + Opening(n)'
    BY <1>1, <2>1, <2>2, <2>3 DEF HandlesAreHeld
  <2>. QED  BY <1>1, <2>1, <2>4, <2>5, <2>6 DEF HandlesAreHeld
<1>. QED  BY <1>1, <1>4, <1>5, <1>6, <1>7, InnerInv

\* An open in progress, and what is below it.
LEMMA OpenFacts ==
    ASSUME HostInv, Running("open"), Return
    PROVE  /\ CallsNest /\ stack # <<>> /\ Top = stack[1]
           /\ Top.vm \in Vms /\ Top.at \in Modules /\ Len(handles[Top.vm]) < MaxHandles
           /\ Top.vm \in alive
           /\ InnerStep(1, 0) /\ Len(stack') <= MaxDepth
           /\ \A m \in Modules : /\ Opening(m) = IF m = Top.at THEN 1 ELSE 0
                                 /\ Opening(m)' = 0
<1>1. /\ CallsNest /\ stack # <<>> /\ Top.do = "open" /\ Top = stack[1]
      /\ Len(stack) \in Nat /\ Len(stack) >= 1
  BY StackFacts DEF HostInv, Running
<1>2. FrameFits(1) /\ (1 < Len(stack) => FrameFits(2))
  BY <1>1 DEF CallsNest
<1>3. Replaces(1, 0)
  BY <1>1, ReturnReplaces
<1>4. InnerStep(1, 0)
  BY <1>1, <1>3 DEF InnerStep, Inner
<1>5. Len(stack') <= MaxDepth
  BY <1>1, <1>3, HostAssumption DEF Replaces, CallsNest
<1>6. \A m \in Modules : Opening(m)' = 0 /\ Opening(m) = IF m = Top.at THEN 1 ELSE 0
  BY <1>1, <1>3, NoOpening DEF Opening
<1>7. Top.vm \in alive
  BY <1>1, <1>2 DEF FrameFits
<1>. QED  BY <1>1, <1>2, <1>4, <1>5, <1>6, <1>7 DEF FrameFits

LEMMA OpenFailsInv == ASSUME HostInv, OpenFails PROVE HostInv'
<1>1. /\ Running("open") /\ Return /\ UNCHANGED <<host, scripts, alive, handles, linked>>
      /\ up' \in BOOLEAN /\ libs' = [libs EXCEPT ![Top.at] = @ - 1] /\ HandlesAreHeld
  BY DEF OpenFails, FreeOnce, HostInv, HostPhase
<1>2. /\ CallsNest /\ stack # <<>> /\ Top.at \in Modules
      /\ InnerStep(1, 0) /\ Len(stack') <= MaxDepth
      /\ \A m \in Modules : /\ Opening(m) = IF m = Top.at THEN 1 ELSE 0
                            /\ Opening(m)' = 0
  BY <1>1, OpenFacts
<1>3. HandlesAreHeld'
  <2>1. \A m \in Modules : Handled(m)' = Handled(m) /\ Cardinality(Handled(m)) \in Nat
    BY <1>1, HandledIsFinite DEF Handled
  <2>2. \A u \in Vms : InLife(u)' <=> InLife(u)
    BY <1>2, InnerLife
  <2>3. ASSUME NEW m \in Modules
        PROVE  libs'[m] = Cardinality(Handled(m)') + Opening(m)' /\ libs'[m] \in Nat
    <3>1. libs[m] = Cardinality(Handled(m)) + Opening(m) /\ libs \in [Modules -> Nat]
      BY <1>1 DEF HandlesAreHeld
    <3>. QED  BY <1>1, <1>2, <2>1, <3>1
  <2>4. libs' \in [Modules -> Nat]
    BY <1>1, <2>3 DEF HandlesAreHeld
  <2>. QED  BY <1>1, <2>2, <2>3, <2>4 DEF HandlesAreHeld
<1>. QED  BY <1>1, <1>2, <1>3, InnerInv

\* What the handles of a state hold when one more is kept.
LEMMA HandleKept ==
    ASSUME HandlesAreHeld, NEW v \in Vms, NEW m \in Modules, Len(handles[v]) < MaxHandles,
           handles' = [handles EXCEPT ![v] = Append(@, m)]
    PROVE  /\ handles' \in [Vms -> Seq(Modules)]
           /\ Len(handles[v]) \in Nat /\ Len(handles'[v]) = Len(handles[v]) + 1
           /\ \A k \in 1..Len(handles[v]) : handles'[v][k] = handles[v][k]
           /\ handles'[v][Len(handles[v]) + 1] = m
           /\ \A n \in Modules :
                Cardinality(Handled(n)') = Cardinality(Handled(n)) + (IF n = m THEN 1 ELSE 0)
<1>1. handles \in [Vms -> Seq(Modules)] /\ handles[v] \in Seq(Modules)
  BY DEF HandlesAreHeld
<1>2. /\ Append(handles[v], m) \in Seq(Modules) /\ Len(handles[v]) \in Nat
      /\ Len(Append(handles[v], m)) = Len(handles[v]) + 1
      /\ \A k \in 1..Len(handles[v]) : Append(handles[v], m)[k] = handles[v][k]
      /\ Append(handles[v], m)[Len(handles[v]) + 1] = m
  BY <1>1, AppendProperties, LenProperties
<1>3. /\ handles' \in [Vms -> Seq(Modules)] /\ handles'[v] = Append(handles[v], m)
      /\ \A u \in Vms : u # v => handles'[u] = handles[u]
  BY <1>1, <1>2
<1>. DEFINE new == <<v, Len(handles[v]) + 1>>
<1>4. /\ new \notin Handled(m)
      /\ Handled(m)' = Handled(m) \cup {new}
  <2>1. new \in Vms \X (1..MaxHandles) /\ new[1] = v /\ new[2] = Len(handles[v]) + 1
    BY <1>2, HostAssumption
  <2>. HIDE DEF new
  <2>2. new \notin Handled(m)
    BY <1>2, <2>1 DEF Handled
  <2>3. new \in Handled(m)'
    BY <1>2, <1>3, <2>1 DEF Handled
  <2>4. ASSUME NEW x \in Vms \X (1..MaxHandles), x # new
        PROVE  x \in Handled(m)' <=> x \in Handled(m)
    <3>1. CASE x[1] # v
      BY <1>3, <3>1 DEF Handled
    <3>2. CASE x[1] = v
      <4>1. x[2] # Len(handles[v]) + 1
        BY <2>1, <2>4, <3>2 DEF new
      <4>2. x[2] \in 1..Len(handles[v]) \/ x[2] > Len(handles[v]) + 1
        BY <1>2, <4>1
      <4>. QED  BY <1>2, <1>3, <3>2, <4>2 DEF Handled
    <3>. QED  BY <3>1, <3>2
  <2>5. Handled(m)' \subseteq Vms \X (1..MaxHandles) /\ Handled(m) \subseteq Vms \X (1..MaxHandles)
    BY DEF Handled
  <2>. QED  BY <2>1, <2>2, <2>3, <2>4, <2>5
<1>5. ASSUME NEW n \in Modules, n # m
      PROVE  Handled(n)' = Handled(n)
  <2>1. ASSUME NEW x \in Vms \X (1..MaxHandles)
        PROVE  x \in Handled(n)' <=> x \in Handled(n)
    <3>1. CASE x[1] # v
      BY <1>3, <3>1 DEF Handled
    <3>2. CASE x[1] = v
      <4>1. x[2] \in 1..Len(handles[v]) \/ x[2] > Len(handles[v]) + 1 \/ x[2] = Len(handles[v]) + 1
        BY <1>2
      <4>. QED  BY <1>2, <1>3, <1>5, <3>2, <4>1 DEF Handled
    <3>. QED  BY <3>1, <3>2
  <2>2. Handled(n)' \subseteq Vms \X (1..MaxHandles) /\ Handled(n) \subseteq Vms \X (1..MaxHandles)
    BY DEF Handled
  <2>. QED  BY <2>1, <2>2
<1>. HIDE DEF new
<1>6. Cardinality(Handled(m)') = Cardinality(Handled(m)) + 1
  BY <1>4, HandledIsFinite, FS_AddElement
<1>. QED  BY <1>2, <1>3, <1>5, <1>6, HandledIsFinite

LEMMA OpenReturnsInv == ASSUME HostInv, OpenReturns PROVE HostInv'
<1>. DEFINE v == Top.vm
            m == Top.at
<1>1. /\ Running("open") /\ Return /\ UNCHANGED <<host, scripts, alive, libs>>
      /\ up' \in BOOLEAN /\ HandlesAreHeld
      /\ handles' = [handles EXCEPT ![v] = Append(@, m)]
      /\ linked' = [linked EXCEPT ![v] = @ \cup {m}]
  BY DEF OpenReturns, HostInv, HostPhase
<1>2. /\ CallsNest /\ stack # <<>> /\ v \in Vms /\ m \in Modules /\ v \in alive
      /\ Len(handles[v]) < MaxHandles
      /\ InnerStep(1, 0) /\ Len(stack') <= MaxDepth
      /\ \A n \in Modules : /\ Opening(n) = IF n = m THEN 1 ELSE 0
                            /\ Opening(n)' = 0
  BY <1>1, OpenFacts
<1>. HIDE DEF v, m
<1>3. HandlesAreHeld'
  <2>1. \A u \in Vms : InLife(u)' <=> InLife(u)
    BY <1>2, InnerLife
  <2>2. /\ handles' \in [Vms -> Seq(Modules)]
        /\ Len(handles[v]) \in Nat /\ Len(handles'[v]) = Len(handles[v]) + 1
        /\ \A k \in 1..Len(handles[v]) : handles'[v][k] = handles[v][k]
        /\ handles'[v][Len(handles[v]) + 1] = m
        /\ \A n \in Modules :
             Cardinality(Handled(n)') = Cardinality(Handled(n)) + (IF n = m THEN 1 ELSE 0)
    BY <1>1, <1>2, HandleKept
  <2>3. linked' \in [Vms -> SUBSET Modules] /\ linked'[v] = linked[v] \cup {m}
    BY <1>1, <1>2 DEF HandlesAreHeld
  <2>4. ASSUME NEW u \in Vms, u # v
        PROVE  linked'[u] = linked[u] /\ handles'[u] = handles[u]
    BY <1>1, <1>2, <2>4 DEF HandlesAreHeld
  <2>5. \A n \in Modules : libs'[n] = Cardinality(Handled(n)') + Opening(n)'
    <3>. SUFFICES ASSUME NEW n \in Modules
                  PROVE  libs'[n] = Cardinality(Handled(n)') + Opening(n)'
      OBVIOUS
    <3>1. libs'[n] = Cardinality(Handled(n)) + Opening(n)
      BY <1>1 DEF HandlesAreHeld
    <3>2. Cardinality(Handled(n)) \in Nat
      BY HandledIsFinite
    <3>3. Cardinality(Handled(n)') = Cardinality(Handled(n)) + (IF n = m THEN 1 ELSE 0)
      BY <2>2
    <3>4. Opening(n) = (IF n = m THEN 1 ELSE 0) /\ Opening(n)' = 0
      BY <1>2
    <3>. QED  BY <3>1, <3>2, <3>3, <3>4
  <2>6. ASSUME NEW u \in Vms
        PROVE  /\ Len(handles'[u]) <= MaxHandles
               /\ \A n \in linked'[u] : \E k \in 1..Len(handles'[u]) : handles'[u][k] = n
               /\ u \notin alive' => linked'[u] = {}
               /\ u \notin alive' /\ ~InLife(u)' => handles'[u] = <<>>
    <3>1. CASE u # v
      BY <1>1, <2>1, <2>4, <3>1 DEF HandlesAreHeld
    <3>2. CASE u = v
      <4>1. Len(handles'[v]) <= MaxHandles /\ v \in alive'
        BY <1>1, <1>2, <2>2, HostAssumption
      <4>2. ASSUME NEW n \in linked'[v]
            PROVE  \E k \in 1..Len(handles'[v]) : handles'[v][k] = n
        <5>1. CASE n = m
          BY <2>2, <5>1
        <5>2. CASE n \in linked[v]
          <6>1. PICK k \in 1..Len(handles[v]) : handles[v][k] = n
            BY <1>1, <1>2, <5>2 DEF HandlesAreHeld
          <6>. QED  BY <2>2, <6>1
        <5>. QED  BY <2>3, <5>1, <5>2
      <4>. QED  BY <3>2, <4>1, <4>2
    <3>. QED  BY <3>1, <3>2
  <2>7. libs' \in [Modules -> Nat]
    BY <1>1 DEF HandlesAreHeld
  <2>. QED  BY <2>2, <2>3, <2>5, <2>6, <2>7 DEF HandlesAreHeld
<1>. QED  BY <1>1, <1>2, <1>3, InnerInv
-----------------------------------------------------------------------------
(* Load and Unload begin; load_plugins and shutdown go through the states. *)

LEMMA CallOnTop ==
    ASSUME CallsNest, NEW f \in Calls, Call(f)
    PROVE  /\ Replaces(0, 1) /\ stack'[1] = f /\ stack' # <<>>
           /\ Len(stack) \in Nat /\ Len(stack') = Len(stack) + 1
           /\ Len(stack) >= 1 => stack'[2] = stack[1]
<1>1. Replaces(0, 1) /\ stack'[1] = f /\ stack' # <<>>
  BY CallReplaces
<1>2. Len(stack) \in Nat /\ Len(stack') = Len(stack) + 1
  BY <1>1 DEF Replaces
<1>3. ASSUME Len(stack) >= 1
      PROVE  stack'[2] = stack[1]
  <2>1. 1 \in (0 + 1)..Len(stack) /\ 1 - 0 + 1 = 2
    BY <1>2, <1>3
  <2>. QED  BY <1>1, <2>1 DEF Replaces
<1>. QED  BY <1>1, <1>2, <1>3

LEMMA FirstCall ==
    ASSUME CallsNest, stack = <<>>, NEW f \in Calls, Call(f)
    PROVE  /\ Replaces(0, 1) /\ stack' # <<>> /\ stack'[1] = f /\ Outermost' = f
           /\ Len(stack) = 0 /\ Len(stack') = 1 /\ Len(stack') <= MaxDepth
           /\ \A v : ~InLife(v) /\ (InLife(v)' <=> f.do \in Life /\ f.vm = v)
           /\ \A m : Opening(m) = 0 /\ (f.do # "open" => Opening(m)' = 0)
<1>1. Replaces(0, 1) /\ stack'[1] = f /\ stack' # <<>> /\ Len(stack) = 0
  BY CallReplaces, LenStack
<1>2. Len(stack') = 1
  BY <1>1 DEF Replaces
<1>3. Outermost' = f /\ Len(stack') <= MaxDepth
  BY <1>1, <1>2, HostAssumption DEF Outermost
<1>. QED  BY <1>1, <1>2, <1>3, NoOpening DEF InLife

LEMMA MetamodLoadInv == ASSUME HostInv, MetamodLoad PROVE HostInv'
<1>. DEFINE f == Frame("load", Null, 1)
<1>1. /\ CallsNest /\ stack = <<>> /\ Call(f) /\ ~loaded /\ up' \in BOOLEAN
      /\ UNCHANGED <<lua, api, runtime, command, pointer, hooks, loaded, scripts,
                     alive, libs, handles, linked, up>>
  BY DEF MetamodLoad, HostInv, HostPhase, host, native
<1>2. f \in Calls /\ f.do = "load" /\ f.at = 1 /\ f.vm = Null
  BY DEF Frame, Calls
<1>. HIDE DEF f
<1>3. /\ Replaces(0, 1) /\ stack' # <<>> /\ stack'[1] = f /\ Outermost' = f
      /\ Len(stack) = 0 /\ Len(stack') = 1 /\ Len(stack') <= MaxDepth
      /\ \A v : ~InLife(v) /\ ~InLife(v)'
      /\ \A m : Opening(m) = 0 /\ Opening(m)' = 0
  BY <1>1, <1>2, FirstCall DEF Life
<1>4. CallsNest'
  <2>1. FrameFits(1)'
    BY <1>2, <1>3 DEF FrameFits, Life, Code
  <2>. QED  BY <1>1, <1>3, <2>1, StillNest
<1>5. HostPhase'
  BY <1>1, <1>2, <1>3 DEF HostInv, HostPhase, Under, BeforeLoadStep
<1>6. StatesAreKnown'
  BY <1>1, <1>2, <1>3 DEF HostInv, StatesAreKnown, Under, Listed
<1>7. HandlesAreHeld'
  BY <1>1, <1>3, HandlesUnchanged
<1>. QED  BY <1>4, <1>5, <1>6, <1>7 DEF HostInv

LEMMA MetamodUnloadInv == ASSUME HostInv, MetamodUnload PROVE HostInv'
<1>. DEFINE f == Frame("unload", Null, 1)
<1>1. /\ CallsNest /\ stack = <<>> /\ Call(f) /\ loaded /\ ~loaded' /\ loaded' \in BOOLEAN
      /\ UNCHANGED <<lua, api, runtime, command, pointer, hooks, scripts,
                     alive, libs, handles, linked, up>>
  BY DEF MetamodUnload, HostInv, native
<1>2. f \in Calls /\ f.do = "unload" /\ f.at = 1 /\ f.vm = Null
  BY DEF Frame, Calls
<1>. HIDE DEF f
<1>3. /\ Replaces(0, 1) /\ stack' # <<>> /\ stack'[1] = f /\ Outermost' = f
      /\ Len(stack) = 0 /\ Len(stack') = 1 /\ Len(stack') <= MaxDepth
      /\ \A v : ~InLife(v) /\ ~InLife(v)'
      /\ \A m : Opening(m) = 0 /\ Opening(m)' = 0
  BY <1>1, <1>2, FirstCall DEF Life
<1>4. CallsNest'
  <2>1. FrameFits(1)'
    BY <1>2, <1>3 DEF FrameFits, Life, Code
  <2>. QED  BY <1>1, <1>3, <2>1, StillNest
<1>5. HostPhase'
  BY <1>1, <1>2, <1>3 DEF HostInv, HostPhase, Under, BeforeUnloadStep
<1>6. StatesAreKnown'
  BY <1>1, <1>2, <1>3 DEF HostInv, StatesAreKnown, Under, Listed
<1>7. HandlesAreHeld'
  BY <1>1, <1>3, HandlesUnchanged
<1>. QED  BY <1>4, <1>5, <1>6, <1>7 DEF HostInv

\* A state starts: load_plugin, from load_plugins or from the console.
LEMMA StartBegins ==
    ASSUME HostInv, NEW v \in Vms, ~Listed(v), Call(Frame("start", v, 0)),
           alive' = alive \cup {v}, Len(stack) < MaxDepth, up' \in BOOLEAN,
           UNCHANGED <<host, scripts, native>>,
           \/ stack = <<>> /\ loaded
           \/ stack # <<>> /\ Top.do = "load" /\ Top.at = 6
    PROVE  HostInv'
<1>. DEFINE f == Frame("start", v, 0)
<1>1. f \in Calls /\ f.do = "start" /\ f.vm = v /\ Call(f) /\ CallsNest
  BY DEF Frame, Calls, Life, HostInv
<1>. HIDE DEF f
<1>2. /\ Replaces(0, 1) /\ stack'[1] = f /\ stack' # <<>> /\ Len(stack') <= MaxDepth
      /\ Len(stack) \in Nat /\ Len(stack') = Len(stack) + 1
      /\ Len(stack) >= 1 => stack'[2] = stack[1]
  BY <1>1, CallOnTop, HostAssumption
<1>3. \A u : ~InLife(u) /\ (InLife(u)' <=> u = v)
  <2>1. \A u : ~InLife(u)
    BY <1>1, NoLife
  <2>2. InLife(v)'
    BY <1>1, <1>2 DEF InLife, Life
  <2>3. ASSUME NEW u, InLife(u)'
        PROVE  u = v
    <3>1. \/ \E i \in 1..1 : stack'[i].do \in Life /\ stack'[i].vm = u
          \/ \E i \in (0 + 1)..Len(stack) : stack[i].do \in Life /\ stack[i].vm = u
      BY <1>2, <2>3, LifeNext
    <3>2. \A i \in (0 + 1)..Len(stack) : ~(stack[i].do \in Life /\ stack[i].vm = u)
      <4>1. ~InLife(u)
        BY <2>1
      <4>. QED  BY <4>1 DEF InLife
    <3>3. stack'[1].do \in Life /\ stack'[1].vm = u
      BY <3>1, <3>2
    <3>. QED  BY <1>1, <1>2, <3>3
  <2>. QED  BY <2>1, <2>2, <2>3
<1>4. v \notin alive
  BY <1>3 DEF HostInv, StatesAreKnown
<1>5. \/ stack = <<>> /\ loaded /\ Len(stack) = 0 /\ Len(stack') = 1
      \/ Top.do = "load" /\ Top.at = 6 /\ Top = stack[1] /\ Len(stack) = 1 /\ Len(stack') = 2
  BY <1>1, <1>2, Alone, LenStack, StackFacts DEF Replaces
<1>6. CallsNest'
  <2>1. FrameFits(1)'
    <3>1. Len(stack') = 2 => stack'[2] = stack[1]
      BY <1>2, <1>5
    <3>. QED  BY <1>1, <1>2, <1>5, <3>1 DEF FrameFits, Life, Code
  <2>2. \A i \in 1..Len(stack) : Suits(i)
    BY <1>5 DEF Suits, Code
  <2>. QED  BY <1>1, <1>2, <2>1, <2>2, StillNest
<1>7. /\ ~Under("unload") /\ ~Under("erase") /\ ~Under("unload")' /\ ~Under("erase")'
      /\ (Under("load") => Outermost.at = 6) /\ (Under("load")' => Under("load"))
  <2>1. CASE Len(stack') = 1
    BY <1>1, <1>2, <1>5, <2>1 DEF Under, Outermost
  <2>2. CASE Len(stack') = 2
    <3>1. Outermost' = Outermost /\ stack # <<>>
      BY <1>2, <1>5, <2>2, OutermostStays
    <3>. QED  BY <1>5, <2>2, <3>1 DEF Under, Outermost
  <2>. QED  BY <1>5, <2>1, <2>2
<1>8. HostPhase'
  <2>1. 0 < Len(stack) \/ (stack = <<>> /\ loaded /\ ~Under("load") /\ ~Under("load")')
    BY <1>5, <1>7 DEF Under
  <2>. QED  BY <1>2, <1>7, <2>1, PhaseStays
<1>9. StatesAreKnown'
  BY <1>3, <1>7 DEF HostInv, StatesAreKnown, Listed
<1>10. HandlesAreHeld'
  <2>1. \A m \in Modules : Opening(m) = 0 /\ Opening(m)' = 0
    BY <1>1, <1>2, <1>5, NoOpening
  <2>. QED  BY <1>3, <2>1, HandlesUnchanged DEF native
<1>. QED  BY <1>6, <1>8, <1>9, <1>10 DEF HostInv

\* Whether a state is in scripts_.
LEMMA ListedIsIn ==
    ASSUME HostInv, NEW v
    PROVE  v \in ToSet(scripts) <=> Listed(v)
<1>1. DOMAIN scripts = 1..Len(scripts)
  BY LenProperties DEF HostInv, StatesAreKnown
<1>. QED  BY <1>1 DEF ToSet, Listed

LEMMA ConsoleLoadInv ==
    ASSUME HostInv, NEW v \in Vms, ConsoleLoad(v)
    PROVE  HostInv'
<1>1. stack = <<>> /\ loaded
  BY DEF ConsoleLoad, HostInv, HostPhase, BeforeLoadStep
<1>2. Len(stack) < MaxDepth
  BY <1>1, LenStack, HostAssumption DEF HostInv
<1>3. ~Listed(v) /\ up' \in BOOLEAN
  BY ListedIsIn DEF ConsoleLoad, HostInv, HostPhase
<1>. QED  BY <1>1, <1>2, <1>3, StartBegins DEF ConsoleLoad

LEMMA LoadsPluginsInv == ASSUME HostInv, LoadsPlugins PROVE HostInv'
<1>1. /\ Running("load") /\ Top.at = 6 /\ BeforeLoadStep(6) /\ stack # <<>> /\ Top.do = "load"
      /\ UNCHANGED <<lua, api, runtime, command, pointer, hooks, scripts, libs, handles,
                     linked, up>>
  BY LoadFacts DEF LoadsPlugins, At, native
<1>2. ASSUME NEW v \in Vms \ ToSet(scripts), Call(Frame("start", v, 0)),
             alive' = alive \cup {v}, UNCHANGED loaded
      PROVE  HostInv'
  <2>1. ~Listed(v) /\ up' \in BOOLEAN
    BY <1>1, <1>2, ListedIsIn DEF HostInv, HostPhase
  <2>2. Len(stack) < MaxDepth
    BY DEF LoadsPlugins
  <2>. QED  BY <1>1, <1>2, <2>1, <2>2, StartBegins DEF host, native
<1>3. CASE Return /\ loaded' = TRUE /\ UNCHANGED alive
  <2>1. stack' = <<>>
    BY <1>1, <1>3, LoadGoes
  <2>2. HostPhase'
    BY <1>1, <1>3, <2>1 DEF HostInv, HostPhase, Under, BeforeLoadStep
  <2>. QED  BY <1>1, <1>3, <2>2, HostStepInv
<1>4. CASE RollBack(1) /\ UNCHANGED <<loaded, alive>>
  <2>1. Stays("unload", 1) /\ BeforeUnloadStep(1)'
    BY <1>1, <1>4, LoadGoes DEF BeforeLoadStep, BeforeUnloadStep
  <2>2. NextIsTyped
    BY <1>1, <1>4 DEF HostInv, HostPhase, NextIsTyped
  <2>. QED  BY <1>1, <2>1, <2>2, HostGoes
<1>. QED  BY <1>2, <1>3, <1>4 DEF LoadsPlugins

LEMMA ShutdownRuntimeInv == ASSUME HostInv, ShutdownRuntime PROVE HostInv'
<1>1. /\ Running("unload") /\ Top.at = 4 /\ BeforeUnloadStep(4) /\ stack # <<>>
      /\ Top.do = "unload" /\ CallsNest /\ StatesAreKnown
      /\ UNCHANGED <<lua, api, command, pointer, hooks, loaded, alive, libs, handles,
                     linked, up>>
  BY UnloadFacts DEF ShutdownRuntime, TearsDown, native, HostInv
<1>2. Len(stack) = 1 /\ Outermost = Top /\ Top = stack[1] /\ \A u : ~InLife(u)
  BY <1>1, Alone, NoLife, StackFacts
<1>3. DOMAIN scripts = 1..Len(scripts)
  BY <1>1, LenProperties DEF StatesAreKnown
<1>4. ASSUME NEW i \in DOMAIN scripts, scripts[i] \in alive,
             Call(Frame("close", scripts[i], 0)), UNCHANGED <<runtime, scripts>>
      PROVE  HostInv'
  <2>. DEFINE v == scripts[i]
              f == Frame("close", v, 0)
  <2>1. v \in Vms /\ v \in alive
    BY <1>1, <1>4 DEF StatesAreKnown
  <2>2. f \in Calls /\ f.do = "close" /\ f.vm = v /\ Call(f)
    BY <1>4, <2>1 DEF Frame, Calls, Life
  <2>. HIDE DEF f, v
  <2>3. /\ Replaces(0, 1) /\ stack'[1] = f /\ stack' # <<>> /\ Len(stack') = 2
        /\ Len(stack') <= MaxDepth /\ stack'[2] = stack[1]
    <3>1. MaxDepth \in Nat /\ MaxDepth >= 2
      BY HostAssumption
    <3>2. /\ Replaces(0, 1) /\ stack'[1] = f /\ stack' # <<>>
          /\ Len(stack') = Len(stack) + 1 /\ (Len(stack) >= 1 => stack'[2] = stack[1])
      BY <1>1, <2>2, CallOnTop
    <3>. QED  BY <1>2, <3>1, <3>2
  <2>4. Outermost' = Outermost
    BY <1>2, <2>3, OutermostStays
  <2>5. CallsNest'
    <3>1. FrameFits(1)'
      BY <1>1, <1>2, <1>4, <2>1, <2>2, <2>3 DEF FrameFits, Life, Code
    <3>2. \A j \in 1..Len(stack) : Suits(j)
      BY <1>1, <1>2 DEF Suits, Code
    <3>. QED  BY <1>1, <2>3, <3>1, <3>2, StillNest
  <2>6. HostPhase'
    <3>1. UNCHANGED host /\ UNCHANGED <<scripts, alive>> /\ 0 < Len(stack) /\ up' \in BOOLEAN
      BY <1>1, <1>2, <1>4 DEF host, HostInv, HostPhase
    <3>. QED  BY <2>3, <3>1, PhaseStays
  <2>7. StatesAreKnown'
    <3>1. ~Under("erase")' /\ Under("unload")' /\ ~Under("erase") /\ Under("unload")
      BY <1>1, <1>2, <2>3, <2>4 DEF Under
    <3>. QED  BY <1>1, <1>2, <1>4, <3>1 DEF StatesAreKnown, Listed
  <2>8. HandlesAreHeld'
    <3>1. \A m \in Modules : Opening(m) = 0 /\ Opening(m)' = 0
      BY <1>1, <2>2, <2>3, NoOpening
    <3>. QED  BY <1>1, <1>2, <3>1, HandlesUnchanged
  <2>. QED  BY <2>5, <2>6, <2>7, <2>8 DEF HostInv
<1>5. CASE /\ \A i \in DOMAIN scripts : scripts[i] \notin alive
           /\ runtime' = FALSE /\ scripts' = <<>>
           /\ Onward
  <2>1. alive = {}
    BY <1>1, <1>2, <1>3, <1>5 DEF StatesAreKnown, Listed
  <2>2. Stays("unload", 5) /\ BeforeUnloadStep(5)'
    BY <1>1, <1>5, <2>1, UnloadGoes DEF BeforeUnloadStep
  <2>3. NextIsTyped
    BY <1>1, <1>5, <2>1 DEF HostInv, HostPhase, NextIsTyped
  <2>. QED  BY <1>1, <2>2, <2>3, HostGoes
<1>. QED  BY <1>4, <1>5 DEF ShutdownRuntime
-----------------------------------------------------------------------------
(* A state starts or closes.                                               *)

\* What is around a state that starts or closes.
LEMMA LifeUnder ==
    ASSUME HostInv, stack # <<>>, Top.do \in Life
    PROVE  /\ CallsNest /\ StatesAreKnown /\ HandlesAreHeld /\ up \in BOOLEAN
           /\ Top = stack[1] /\ Top.vm \in Vms /\ FrameFits(1) /\ Len(stack) \in 1..2
           /\ \A u : InLife(u) <=> u = Top.vm
           /\ Under("load") => Outermost.at = 6
           /\ Under("unload") => Outermost.at = 4 /\ Top.do # "start"
           /\ Under("erase") => Top.do # "start"
           /\ Len(stack) = 1 =>
                loaded /\ ~Under("load") /\ ~Under("unload") /\ ~Under("erase")
<1>1. /\ CallsNest /\ Top = stack[1] /\ Len(stack) \in Nat /\ Len(stack) >= 1
      /\ StatesAreKnown /\ HandlesAreHeld /\ up \in BOOLEAN /\ HostPhase
  BY StackFacts DEF HostInv, HostPhase
<1>2. FrameFits(1)
  BY <1>1 DEF CallsNest
<1>3. /\ Top.vm \in Vms /\ \A u : InLife(u) <=> u = Top.vm
      /\ \/ Len(stack) = 1
         \/ /\ Len(stack) = 2
            /\ \/ stack[2].do = "load" /\ stack[2].at = 6
               \/ stack[2].do = "unload" /\ stack[2].at = 4 /\ Top.do # "start"
               \/ stack[2].do = "erase" /\ Top.do # "start"
  BY <1>1, OneLife
<1>4. CASE Len(stack) = 1
  <2>1. ~Under("load") /\ ~Under("unload") /\ ~Under("erase")
    BY <1>1, <1>4 DEF Under, Outermost, Life
  <2>2. loaded
    BY <1>1, <2>1 DEF HostPhase
  <2>. QED  BY <1>1, <1>2, <1>3, <1>4, <2>1, <2>2
<1>5. CASE Len(stack) = 2
  <2>1. /\ Under("load") => Outermost.at = 6
        /\ Under("unload") => Outermost.at = 4 /\ Top.do # "start"
        /\ Under("erase") => Top.do # "start"
    BY <1>3, <1>5 DEF Under, Outermost
  <2>. QED  BY <1>1, <1>2, <1>3, <1>5, <2>1
<1>. QED  BY <1>3, <1>4, <1>5

\* ... and when it is done.
LEMMA LifeReturns ==
    ASSUME HostInv, stack # <<>>, Top.do \in Life, Return, UNCHANGED host, up' = up,
           Under("erase") => Len(scripts') = Len(scripts),
           \A i \in 2..Len(stack) : stack[i].do \notin Code
    PROVE  /\ CallsNest' /\ HostPhase'
           /\ \A u : ~InLife(u)'
           /\ \A m : Opening(m)' = 0 /\ Opening(m) = 0
           /\ Len(stack') = Len(stack) - 1
           /\ \A do \in {"load", "unload", "erase"} :
                (Under(do)' <=> Under(do)) /\ (Under(do) => Outermost' = Outermost)
<1>1. /\ CallsNest /\ up \in BOOLEAN /\ Top = stack[1] /\ FrameFits(1) /\ Len(stack) \in 1..2
      /\ Under("load") => Outermost.at = 6
      /\ Under("unload") => Outermost.at = 4
      /\ Len(stack) = 1 =>
           loaded /\ ~Under("load") /\ ~Under("unload") /\ ~Under("erase")
      /\ \A u : InLife(u) <=> u = Top.vm
  BY LifeUnder
<1>2. Replaces(1, 0) /\ (stack' = <<>> <=> Len(stack) = 1)
  BY <1>1, ReturnReplaces
<1>3. CallsNest'
  <2>1. ASSUME NEW i \in (1 + 1)..Len(stack)
        PROVE  Suits(i)
    <3>1. i = 2 /\ Len(stack) = 2
      BY <1>1
    <3>2. FrameFits(2)
      BY <1>1, <3>1 DEF CallsNest
    <3>3. stack[2].do \notin {"free", "open"} /\ stack[2].do \notin Code
      BY <3>1, <3>2 DEF FrameFits
    <3>4. stack[2].do = "erase" => Under("erase")
      BY <3>1 DEF Under, Outermost
    <3>5. stack[2].do = "walk" => hooks' # {}
      BY <3>2 DEF FrameFits, host
    <3>. QED  BY <3>1, <3>3, <3>4, <3>5 DEF Suits
  <2>2. Len(stack') <= MaxDepth
    BY <1>1, <1>2, HostAssumption DEF Replaces, CallsNest
  <2>. QED  BY <1>1, <1>2, <2>1, <2>2, StillNest
<1>4. \A u : ~InLife(u)'
  <2>1. ASSUME NEW u, InLife(u)'
        PROVE  FALSE
    <3>1. PICK i \in (1 + 1)..Len(stack) : stack[i].do \in Life /\ stack[i].vm = u
      BY <1>2, <2>1, LifeNext
    <3>2. i = 2 /\ Len(stack) = 2
      BY <1>1
    <3>3. FrameFits(2)
      BY <1>1, <3>2 DEF CallsNest
    <3>4. FrameFits(1) /\ stack[2].do \in {"load", "unload", "erase"}
      BY <1>1, <3>2 DEF FrameFits, Life
    <3>. QED  BY <3>1, <3>2, <3>4 DEF Life
  <2>. QED  BY <2>1
<1>5. \A m : Opening(m)' = 0 /\ Opening(m) = 0
  BY <1>1, <1>2, NoOpening DEF Life
<1>6. \A do \in {"load", "unload", "erase"} :
        (Under(do)' <=> Under(do)) /\ (Under(do) => Outermost' = Outermost)
  <2>1. CASE Len(stack) = 1
    BY <1>1, <1>2, <2>1 DEF Under
  <2>2. CASE Len(stack) = 2
    <3>1. Outermost' = Outermost /\ stack' # <<>>
      BY <1>2, <2>2, OutermostStays
    <3>. QED  BY <3>1 DEF Under
  <2>. QED  BY <1>1, <2>1, <2>2
<1>7. HostPhase'
  <2>1. CASE Len(stack) = 1
    BY <1>1, <1>2, <1>6, <2>1, PhaseStays
  <2>2. CASE Len(stack) = 2
    BY <1>1, <1>2, <2>2, PhaseStays
  <2>. QED  BY <1>1, <2>1, <2>2
<1>. QED  BY <1>2, <1>3, <1>4, <1>5, <1>6, <1>7 DEF Replaces

LEMMA LifeAlone ==
    ASSUME HostInv, stack # <<>>, Top.do \in Life
    PROVE  \A i \in 2..Len(stack) : stack[i].do \in {"load", "unload", "erase"} /\ stack[i].do \notin Code
<1>1. CallsNest
  BY DEF HostInv
<1>2. \/ Len(stack) = 1
      \/ Len(stack) = 2 /\ stack[2].do \in {"load", "unload", "erase"}
  BY <1>1, OneLife
<1>. QED  BY <1>2 DEF Code

LEMMA StartReturnsInv == ASSUME HostInv, StartReturns PROVE HostInv'
<1>. DEFINE v == Top.vm
<1>1. /\ stack # <<>> /\ Top.do = "start" /\ Top.do \in Life /\ Return
      /\ scripts' = Append(scripts, v)
      /\ UNCHANGED host /\ UNCHANGED <<alive, libs, handles, linked, up>> /\ up' = up
  BY DEF StartReturns, Running, Life, native
<1>2. /\ StatesAreKnown /\ v \in Vms /\ FrameFits(1) /\ Top = stack[1]
      /\ ~Under("unload") /\ ~Under("erase")
      /\ \A u : InLife(u) <=> u = v
  BY <1>1, LifeUnder
<1>3. v \in alive
  BY <1>1, <1>2 DEF FrameFits, Code
<1>4. /\ CallsNest' /\ HostPhase'
      /\ \A u : ~InLife(u)'
      /\ \A m : Opening(m)' = 0 /\ Opening(m) = 0
      /\ ~Under("unload")' /\ ~Under("erase")'
  BY <1>1, <1>2, LifeReturns, LifeAlone
<1>. HIDE DEF v
<1>5. /\ scripts \in Seq(Vms \cup {Null}) /\ Len(scripts) \in Nat
      /\ scripts' \in Seq(Vms \cup {Null}) /\ Len(scripts') = Len(scripts) + 1
      /\ \A i \in 1..Len(scripts) : scripts'[i] = scripts[i]
      /\ scripts'[Len(scripts) + 1] = v
  BY <1>1, <1>2, AppendProperties, LenProperties DEF StatesAreKnown
<1>6. \A i \in 1..Len(scripts') : i \in 1..Len(scripts) \/ i = Len(scripts) + 1
  BY <1>5
<1>7. \A i \in 1..Len(scripts) : scripts[i] \in alive /\ scripts[i] # v /\ scripts[i] # Null
  BY <1>2 DEF StatesAreKnown
<1>8. StatesAreKnown'
  <2>1. \A i, j \in 1..Len(scripts') : i # j => scripts'[i] # scripts'[j]
    BY <1>2, <1>5, <1>6, <1>7 DEF StatesAreKnown
  <2>2. \A i \in 1..Len(scripts') : scripts'[i] \in alive /\ scripts'[i] # Null
    BY <1>2, <1>3, <1>5, <1>6, <1>7, HostAssumption
  <2>3. ASSUME NEW u \in alive
        PROVE  Listed(u)'
    <3>1. Listed(u) \/ u = v
      BY <1>2 DEF StatesAreKnown
    <3>2. Len(scripts) + 1 \in 1..Len(scripts') /\ \A i \in 1..Len(scripts) : i \in 1..Len(scripts')
      BY <1>5
    <3>. QED  BY <1>5, <3>1, <3>2 DEF Listed
  <2>4. alive \subseteq Vms
    BY <1>2 DEF StatesAreKnown
  <2>. QED  BY <1>1, <1>4, <1>5, <2>1, <2>2, <2>3, <2>4 DEF StatesAreKnown
<1>9. HandlesAreHeld'
  <2>1. \A u \in Vms : u \notin alive' => u \notin alive /\ ~InLife(u)
    BY <1>1, <1>2, <1>3
  <2>. QED  BY <1>1, <1>4, <2>1, HandlesUnchanged
<1>. QED  BY <1>4, <1>8, <1>9 DEF HostInv

LEMMA StartFailsInv == ASSUME HostInv, StartFails PROVE HostInv'
<1>. DEFINE v == Top.vm
            f == Frame("close", v, 0)
<1>1. /\ stack # <<>> /\ Top.do = "start" /\ Top.do \in Life /\ Goto(f)
      /\ UNCHANGED host /\ UNCHANGED <<scripts, alive, libs, handles, linked, up>>
  BY DEF StartFails, Running, Life, native
<1>2. /\ CallsNest /\ v \in Vms /\ FrameFits(1) /\ Top = stack[1] /\ Len(stack) \in 1..2
      /\ ~Under("unload") /\ ~Under("erase") /\ up \in BOOLEAN
      /\ (Under("load") => Outermost.at = 6)
      /\ Len(stack) = 1 => loaded /\ ~Under("load")
      /\ \A u : InLife(u) <=> u = v
  BY <1>1, LifeUnder
<1>3. f \in Calls /\ f.do = "close" /\ f.vm = v
  BY <1>2 DEF Frame, Calls, Life
<1>. HIDE DEF v, f
<1>4. /\ Replaces(1, 1) /\ stack'[1] = f /\ Len(stack') = Len(stack) /\ stack' # <<>>
      /\ 1 < Len(stack) => stack'[2] = stack[2]
  BY <1>1, <1>2, <1>3, SwapFits, GotoReplaces
<1>5. CallsNest'
  <2>1. FrameFits(1)'
    BY <1>1, <1>2, <1>3, <1>4 DEF FrameFits, Life, Code, v
  <2>2. \A i \in (1 + 1)..Len(stack) : Suits(i)
    BY <1>1, LifeAlone DEF Suits, Code
  <2>3. Len(stack') <= MaxDepth
    BY <1>2, <1>4 DEF CallsNest
  <2>. QED  BY <1>2, <1>4, <2>1, <2>2, <2>3, StillNest
<1>6. \A u : InLife(u)' <=> InLife(u)
  <2>1. ASSUME NEW u, InLife(u)'
        PROVE  u = v
    <3>1. \A i \in 2..Len(stack) : stack[i].do \notin Life
      BY <1>1, LifeAlone DEF Life
    <3>2. \/ \E i \in 1..1 : stack'[i].do \in Life /\ stack'[i].vm = u
          \/ \E i \in (1 + 1)..Len(stack) : stack[i].do \in Life /\ stack[i].vm = u
      BY <1>4, <2>1, LifeNext
    <3>. QED  BY <1>3, <1>4, <3>1, <3>2
  <2>2. ASSUME NEW u, u = v
        PROVE  InLife(u)'
    <3>1. 1 \in 1..Len(stack') /\ stack'[1].do \in Life /\ stack'[1].vm = u
      BY <1>2, <1>3, <1>4, <2>2 DEF Life
    <3>. QED  BY <3>1 DEF InLife
  <2>. QED  BY <1>2, <2>1, <2>2
<1>7. \/ 1 < Len(stack)
      \/ Len(stack) = 1 /\ loaded /\ \A do \in {"load", "unload", "erase"} : ~Under(do) /\ ~Under(do)'
  BY <1>2, <1>3, <1>4 DEF Under, Outermost
<1>8. HostPhase'
  BY <1>1, <1>2, <1>4, <1>7, PhaseStays
<1>9. StatesAreKnown'
  BY <1>1, <1>4, <1>6, <1>7, StatesStay
<1>10. HandlesAreHeld'
  <2>1. \A m \in Modules : Opening(m)' = Opening(m)
    BY <1>1, <1>2, <1>3, <1>4, NoOpening
  <2>. QED  BY <1>1, <1>6, <2>1, HandlesUnchanged
<1>. QED  BY <1>5, <1>8, <1>9, <1>10 DEF HostInv
-----------------------------------------------------------------------------
(* The console unloads a plugin: scripts_.erase.                           *)

LEMMA ExceptFacts ==
    ASSUME NEW S, NEW s \in Seq(S), NEW i \in 1..Len(s), NEW x \in S
    PROVE  /\ [s EXCEPT ![i] = x] \in Seq(S) /\ Len([s EXCEPT ![i] = x]) = Len(s)
           /\ \A j \in 1..Len(s) : [s EXCEPT ![i] = x][j] = IF j = i THEN x ELSE s[j]
BY ExceptSeq

\* What erase does to the elements before it destroys one.
LEMMA EraseFacts ==
    ASSUME StatesAreKnown, NEW i \in 1..Len(scripts),
           scripts' = IF i = Len(scripts) THEN scripts
                      ELSE [scripts EXCEPT ![i] = scripts[i + 1], ![i + 1] = Null]
    PROVE  /\ scripts' \in Seq(Vms \cup {Null}) /\ Len(scripts') = Len(scripts)
           /\ i = Len(scripts) => scripts' = scripts
           /\ i # Len(scripts) =>
                /\ i + 1 \in 1..Len(scripts)
                /\ \A j \in 1..Len(scripts) :
                     scripts'[j] = IF j = i THEN scripts[i + 1]
                                   ELSE IF j = i + 1 THEN Null ELSE scripts[j]
<1>1. scripts \in Seq(Vms \cup {Null}) /\ Len(scripts) \in Nat
  BY LenProperties DEF StatesAreKnown
<1>2. CASE i = Len(scripts)
  BY <1>1, <1>2
<1>3. CASE i # Len(scripts)
  <2>1. i + 1 \in 1..Len(scripts) /\ scripts[i + 1] \in Vms \cup {Null}
    BY <1>1, <1>3, ElementOfSeq
  <2>. DEFINE t == [scripts EXCEPT ![i] = scripts[i + 1]]
  <2>2. /\ t \in Seq(Vms \cup {Null}) /\ Len(t) = Len(scripts)
        /\ \A j \in 1..Len(scripts) : t[j] = IF j = i THEN scripts[i + 1] ELSE scripts[j]
    BY <1>1, <2>1, ExceptFacts
  <2>3. scripts' = [t EXCEPT ![i + 1] = Null]
    BY <1>3
  <2>. HIDE DEF t
  <2>4. /\ scripts' \in Seq(Vms \cup {Null}) /\ Len(scripts') = Len(t)
        /\ \A j \in 1..Len(t) : scripts'[j] = IF j = i + 1 THEN Null ELSE t[j]
    <3>1. i + 1 \in 1..Len(t) /\ Null \in Vms \cup {Null}
      BY <2>1, <2>2
    <3>2. /\ [t EXCEPT ![i + 1] = Null] \in Seq(Vms \cup {Null})
          /\ Len([t EXCEPT ![i + 1] = Null]) = Len(t)
          /\ \A j \in 1..Len(t) :
               [t EXCEPT ![i + 1] = Null][j] = IF j = i + 1 THEN Null ELSE t[j]
      <4>1. t \in Seq(Vms \cup {Null})
        BY <2>2
      <4>. QED  BY <3>1, <4>1, ExceptFacts
    <3>. QED  BY <2>3, <3>2
  <2>. QED  BY <1>3, <2>1, <2>2, <2>4
<1>. QED  BY <1>2, <1>3

LEMMA ConsoleUnloadInv ==
    ASSUME HostInv, NEW i \in DOMAIN scripts, ConsoleUnload(i)
    PROVE  HostInv'
<1>1. /\ CallsNest /\ stack = <<>> /\ StatesAreKnown /\ up' \in BOOLEAN /\ loaded
      /\ UNCHANGED host /\ UNCHANGED <<alive, libs, handles, linked>> /\ hooks' = hooks
  BY DEF ConsoleUnload, HostInv, HostPhase, BeforeLoadStep, host, native
<1>2. /\ scripts \in Seq(Vms \cup {Null}) /\ Len(scripts) \in Nat /\ i \in 1..Len(scripts)
      /\ ~Under("load") /\ ~Under("unload") /\ ~Under("erase") /\ Len(stack) = 0
      /\ \A u : ~InLife(u)
  BY <1>1, LenProperties, NoLife, LenStack DEF StatesAreKnown, Under
<1>3. \A j \in 1..Len(scripts) : scripts[j] \in alive /\ scripts[j] \in Vms /\ scripts[j] # Null
  BY <1>1, <1>2 DEF StatesAreKnown
<1>. DEFINE n == Len(scripts)
            g == IF i = n THEN i ELSE i + 1
<1>4. PICK v \in Vms : v = scripts[i]
  BY <1>2, <1>3
<1>5. /\ scripts' \in Seq(Vms \cup {Null}) /\ Len(scripts') = n
      /\ g \in 1..n /\ (scripts'[g] = Null \/ scripts'[g] = v)
      /\ \A j \in 1..n : j # g => \E k \in 1..n : scripts'[j] = scripts[k] /\ k # i
      /\ \A j, k \in 1..n : j # k => scripts'[j] # scripts'[k]
      /\ \A j \in 1..n : j # i => \E k \in 1..n : scripts'[k] = scripts[j]
  <2>1. /\ scripts' \in Seq(Vms \cup {Null}) /\ Len(scripts') = n
        /\ i = n => scripts' = scripts
        /\ i # n =>
             /\ i + 1 \in 1..n
             /\ \A j \in 1..n : scripts'[j] = IF j = i THEN scripts[i + 1]
                                              ELSE IF j = i + 1 THEN Null ELSE scripts[j]
    BY <1>1, <1>2, EraseFacts DEF ConsoleUnload
  <2>2. \A j, k \in 1..n : j # k => scripts[j] # scripts[k]
    BY <1>1 DEF StatesAreKnown
  <2>. HIDE DEF n
  <2>3. CASE i = n
    BY <1>2, <1>4, <2>1, <2>2, <2>3
  <2>4. CASE i # n
    <3>1. \A j, k \in 1..n : j # k => scripts'[j] # scripts'[k]
      BY <1>2, <1>3, <2>1, <2>2, <2>4 DEF n
    <3>2. \A j \in 1..n : j # g => \E k \in 1..n : scripts'[j] = scripts[k] /\ k # i
      BY <1>2, <2>1, <2>4 DEF n
    <3>3. \A j \in 1..n : j # i => \E k \in 1..n : scripts'[k] = scripts[j]
      BY <1>2, <2>1, <2>4 DEF n
    <3>4. scripts'[g] = Null /\ g \in 1..n
      BY <1>2, <2>1, <2>4 DEF n
    <3>. QED  BY <2>1, <3>1, <3>2, <3>3, <3>4
  <2>. QED  BY <2>3, <2>4
<1>. DEFINE c == Frame("close", v, 0)
            e == Frame("erase", Null, i)
<1>6. /\ c \in Calls /\ c.do = "close" /\ c.vm = v
      /\ e \in Calls /\ e.do = "erase" /\ e.vm = Null /\ e.at = i
  BY <1>2 DEF Frame, Calls, Life
<1>7. stack' = <<c, e>>
  BY <1>4 DEF ConsoleUnload
<1>. HIDE DEF n, g, c, e
<1>8. /\ stack' \in Seq(Calls) /\ Len(stack') = 2 /\ stack' # <<>>
      /\ stack'[1] = c /\ stack'[2] = e /\ Outermost' = e
  BY <1>6, <1>7 DEF Outermost
<1>9. \A u : InLife(u)' <=> u = v
  <2>1. \A j \in 1..Len(stack') : stack'[j].do \in Life <=> j = 1
    BY <1>6, <1>8 DEF Life
  <2>. QED  BY <1>6, <1>8, <2>1 DEF InLife
<1>10. Under("erase")' /\ ~Under("load")' /\ ~Under("unload")'
  BY <1>6, <1>8 DEF Under
<1>11. CallsNest'
  <2>1. FrameFits(1)'
    BY <1>1, <1>3, <1>4, <1>6, <1>8 DEF FrameFits, Life, Code
  <2>2. FrameFits(2)'
    BY <1>1, <1>2, <1>5, <1>6, <1>8 DEF FrameFits, Life, Code, n
  <2>3. Len(stack') <= MaxDepth
    BY <1>8, HostAssumption
  <2>4. \A j \in 1..Len(stack') : FrameFits(j)'
    BY <1>8, <2>1, <2>2
  <2>. QED  BY <1>8, <2>3, <2>4 DEF CallsNest
<1>12. HostPhase'
  BY <1>1, <1>2, <1>8, <1>10 DEF HostInv, HostPhase, host
<1>13. Gone' = g
  BY <1>5, <1>6, <1>8 DEF Gone, g
<1>14. StatesAreKnown'
  <2>1. \A u \in alive : Listed(u)' \/ InLife(u)'
    <3>1. ASSUME NEW u \in alive, u # v
          PROVE  Listed(u)'
      <4>1. PICK j \in 1..n : scripts[j] = u
        BY <1>1, <1>2 DEF StatesAreKnown, Listed, n
      <4>2. j # i
        BY <1>4, <3>1, <4>1
      <4>. QED  BY <1>5, <4>1, <4>2 DEF Listed
    <3>. QED  BY <1>9, <3>1
  <2>2. \A j \in 1..n : j # g => scripts'[j] \in alive /\ ~InLife(scripts[j])'
    <3>1. ASSUME NEW j \in 1..n, j # g
          PROVE  scripts'[j] \in alive /\ scripts'[j] # v
      <4>1. PICK k \in 1..n : scripts'[j] = scripts[k] /\ k # i
        BY <1>5, <3>1
      <4>2. scripts[k] # scripts[i]
        BY <1>1, <1>2, <4>1 DEF StatesAreKnown, n
      <4>. QED  BY <1>3, <1>4, <4>1, <4>2 DEF n
    <3>. QED  BY <1>9, <3>1
  <2>3. \A u : u = scripts'[g] => (u = Null \/ InLife(u)') /\ (u \in alive => InLife(u)')
    <3>1. Null \notin alive
      BY <1>1, HostAssumption DEF StatesAreKnown
    <3>. QED  BY <1>5, <1>9, <3>1
  <2>. QED  BY <1>1, <1>5, <1>10, <1>13, <2>1, <2>2, <2>3 DEF StatesAreKnown
<1>15. HandlesAreHeld'
  <2>1. \A m \in Modules : Opening(m)' = 0 /\ Opening(m) = 0
    BY <1>1, <1>6, <1>8, NoOpening
  <2>. QED  BY <1>1, <1>2, <2>1, HandlesUnchanged
<1>. QED  BY <1>11, <1>12, <1>14, <1>15 DEF HostInv

\* A sequence without one of its elements.
LEMMA RemoveAtFacts ==
    ASSUME NEW S, NEW s \in Seq(S), NEW i \in 1..Len(s)
    PROVE  /\ RemoveAt(s, i) \in Seq(S) /\ Len(RemoveAt(s, i)) = Len(s) - 1
           /\ \A j \in 1..(Len(s) - 1) :
                RemoveAt(s, i)[j] = IF j < i THEN s[j] ELSE s[j + 1]
<1>. DEFINE a == SubSeq(s, 1, i - 1)
            b == SubSeq(s, i + 1, Len(s))
<1>1. Len(s) \in Nat /\ \A j \in 1..Len(s) : s[j] \in S
  BY LenProperties, ElementOfSeq
<1>2. a \in Seq(S) /\ Len(a) = i - 1 /\ \A j \in 1..(i - 1) : a[j] = s[j]
  <2>1. \A j \in 1..(i - 1) : s[j] \in S
    BY <1>1
  <2>. QED  BY <2>1, <1>1, SubSeqProperties
<1>3. b \in Seq(S) /\ Len(b) = Len(s) - i /\ \A j \in 1..(Len(s) - i) : b[j] = s[i + j]
  <2>1. \A j \in (i + 1)..Len(s) : s[j] \in S
    BY <1>1
  <2>. QED  BY <2>1, <1>1, SubSeqProperties
<1>4. RemoveAt(s, i) = a \o b
  BY DEF RemoveAt
<1>. HIDE DEF a, b
<1>5. /\ a \o b \in Seq(S) /\ Len(a \o b) = Len(s) - 1
      /\ \A j \in 1..(Len(s) - 1) :
           (a \o b)[j] = IF j <= i - 1 THEN a[j] ELSE b[j - (i - 1)]
  <2>1. Len(a) + Len(b) = Len(s) - 1 /\ Len(a) = i - 1
    BY <1>1, <1>2, <1>3
  <2>2. /\ a \o b \in Seq(S) /\ Len(a \o b) = Len(a) + Len(b)
        /\ \A j \in 1..(Len(a) + Len(b)) :
             (a \o b)[j] = IF j <= Len(a) THEN a[j] ELSE b[j - Len(a)]
    BY <1>2, <1>3, ConcatProperties
  <2>. QED  BY <2>1, <2>2
<1>6. ASSUME NEW j \in 1..(Len(s) - 1)
      PROVE  (a \o b)[j] = IF j < i THEN s[j] ELSE s[j + 1]
  <2>1. CASE j < i
    BY <1>1, <1>2, <1>5, <2>1
  <2>2. CASE ~(j < i)
    <3>1. j - (i - 1) \in 1..(Len(s) - i) /\ i + (j - (i - 1)) = j + 1 /\ ~(j <= i - 1)
      BY <1>1, <2>2
    <3>. QED  BY <1>3, <1>5, <2>2, <3>1
  <2>. QED  BY <2>1, <2>2
<1>. QED  BY <1>4, <1>5, <1>6

LEMMA FrontFacts ==
    ASSUME NEW S, NEW s \in Seq(S), Len(s) >= 1
    PROVE  /\ Front(s) \in Seq(S) /\ Len(Front(s)) = Len(s) - 1
           /\ \A j \in 1..(Len(s) - 1) : Front(s)[j] = s[j]
<1>. DEFINE n == Len(s) - 1
<1>1. n \in Nat /\ \A j \in 1..n : s[j] \in S
  BY LenProperties, ElementOfSeq
<1>. HIDE DEF n
<1>2. /\ SubSeq(s, 1, n) \in Seq(S) /\ Len(SubSeq(s, 1, n)) = n
      /\ \A j \in 1..n : SubSeq(s, 1, n)[j] = s[j]
  BY <1>1, SubSeqProperties
<1>. QED  BY <1>2 DEF Front, n

LEMMA EraseEndsInv == ASSUME HostInv, EraseEnds PROVE HostInv'
<1>1. /\ CallsNest /\ stack # <<>> /\ Top.do = "erase" /\ Return /\ StatesAreKnown
      /\ UNCHANGED host /\ UNCHANGED <<alive, libs, handles, linked>> /\ up' \in BOOLEAN
  BY DEF EraseEnds, Running, HostInv, HostPhase, native
<1>2. Len(stack) = 1 /\ Outermost = Top /\ Top = stack[1] /\ \A u : ~InLife(u)
  BY <1>1, Alone, StackFacts, NoLife
<1>3. /\ Under("erase") /\ ~Under("load") /\ ~Under("unload") /\ loaded
      /\ Top.at \in 1..Len(scripts) /\ Len(scripts) \in Nat
      /\ scripts \in Seq(Vms \cup {Null})
  <2>1. Under("erase") /\ ~Under("load") /\ ~Under("unload")
    BY <1>1, <1>2 DEF Under
  <2>2. FrameFits(1)
    BY <1>1, <1>2 DEF CallsNest
  <2>. QED  BY <1>1, <1>2, <2>1, <2>2, LenProperties
            DEF HostInv, HostPhase, FrameFits, StatesAreKnown
<1>. DEFINE g == Gone
            n == Len(scripts)
<1>4. /\ n \in Nat /\ n >= 1 /\ g \in 1..n
      /\ \A i \in 1..n : i # g => scripts[i] \in alive
      /\ scripts[g] \notin alive
      /\ \A i, j \in 1..n : i # j => scripts[i] # scripts[j]
  BY <1>1, <1>2, <1>3 DEF StatesAreKnown, Gone
<1>5. /\ scripts' \in Seq(Vms \cup {Null}) /\ Len(scripts') = n - 1
      /\ \A j \in 1..(n - 1) : scripts'[j] = IF j < g THEN scripts[j] ELSE scripts[j + 1]
  <2>1. CASE Top.at = n
    <3>1. scripts' = Front(scripts) /\ g = n
      BY <1>2, <2>1 DEF EraseEnds, Gone
    <3>. QED  BY <1>3, <1>4, <3>1, FrontFacts
  <2>2. CASE Top.at # n
    <3>1. scripts' = RemoveAt(scripts, g)
      BY <1>2, <2>2 DEF EraseEnds, Gone
    <3>. QED  BY <1>3, <1>4, <3>1, RemoveAtFacts
  <2>. QED  BY <2>1, <2>2
<1>. HIDE DEF g, n
<1>6. Replaces(1, 0) /\ stack' = <<>> /\ Len(stack') = 0
  BY <1>1, <1>2, ReturnReplaces DEF Replaces
<1>7. /\ \A u : ~InLife(u)'
      /\ ~Under("erase")' /\ ~Under("load")' /\ ~Under("unload")'
  BY <1>6 DEF InLife, Under
<1>8. CallsNest'
  <2>1. Len(stack') <= MaxDepth
    BY <1>6, HostAssumption
  <2>2. \A i \in (1 + 1)..Len(stack) : Suits(i)
    BY <1>2
  <2>. QED  BY <1>1, <1>6, <2>1, <2>2, StillNest
<1>9. HostPhase'
  <2>1. /\ \A i \in 1..0 : TRUE
        /\ stack # <<>> /\ ~(1 < Len(stack))
    BY <1>1, <1>2
  <2>. QED  BY <1>1, <1>3, <1>6, <1>7, <2>1, PhaseStays
<1>10. \A j \in 1..(n - 1) : \E i \in 1..n : /\ scripts'[j] = scripts[i] /\ i # g
                                             /\ i = IF j < g THEN j ELSE j + 1
  BY <1>4, <1>5
<1>11. StatesAreKnown'
  <2>1. \A i, j \in 1..(n - 1) : i # j => scripts'[i] # scripts'[j]
    <3>1. ASSUME NEW i \in 1..(n - 1), NEW j \in 1..(n - 1), i # j
          PROVE  scripts'[i] # scripts'[j]
      <4>1. PICK k \in 1..n : scripts'[i] = scripts[k] /\ k = IF i < g THEN i ELSE i + 1
        BY <1>10
      <4>2. PICK m \in 1..n : scripts'[j] = scripts[m] /\ m = IF j < g THEN j ELSE j + 1
        BY <1>10
      <4>3. k # m
        BY <1>4, <3>1, <4>1, <4>2
      <4>. QED  BY <1>4, <4>1, <4>2, <4>3
    <3>. QED  BY <3>1
  <2>2. \A i \in 1..(n - 1) : scripts'[i] \in alive /\ scripts'[i] # Null
    <3>1. Null \notin alive
      BY <1>1, HostAssumption DEF StatesAreKnown
    <3>. QED  BY <1>4, <1>10, <3>1
  <2>3. ASSUME NEW u \in alive
        PROVE  Listed(u)'
    <3>1. PICK i \in 1..n : scripts[i] = u
      BY <1>1, <1>2 DEF StatesAreKnown, Listed, n
    <3>2. i # g
      BY <1>4, <3>1
    <3>3. CASE i < g
      <4>1. i \in 1..(n - 1) /\ scripts'[i] = u
        BY <1>4, <1>5, <3>1, <3>3
      <4>. QED  BY <1>5, <4>1 DEF Listed
    <3>4. CASE i > g
      <4>1. i - 1 \in 1..(n - 1) /\ ~(i - 1 < g) /\ (i - 1) + 1 = i
        BY <1>4, <3>4
      <4>2. scripts'[i - 1] = u
        BY <1>5, <3>1, <4>1
      <4>. QED  BY <1>5, <4>1, <4>2 DEF Listed
    <3>. QED  BY <1>4, <3>2, <3>3, <3>4
  <2>4. alive \subseteq Vms
    BY <1>1 DEF StatesAreKnown
  <2>. QED  BY <1>1, <1>5, <1>7, <2>1, <2>2, <2>3, <2>4 DEF StatesAreKnown
<1>12. HandlesAreHeld'
  <2>1. \A m \in Modules : Opening(m)' = 0 /\ Opening(m) = 0
    BY <1>1, <1>6, NoOpening
  <2>. QED  BY <1>1, <1>2, <1>7, <2>1, HandlesUnchanged
<1>. QED  BY <1>8, <1>9, <1>11, <1>12 DEF HostInv

\* lua_close is done: the state is gone, and nothing links to a library for it.
LEMMA LuaClosedInv ==
    ASSUME HostInv, NEW v \in Vms, LuaClosed(v)
    PROVE  HostInv'
<1>. DEFINE f == Frame("free", v, 0)
<1>1. /\ stack # <<>> /\ Top.do = "close" /\ Top.do \in Life /\ Top.vm = v /\ Goto(f)
      /\ alive' = alive \ {v} /\ linked' = [linked EXCEPT ![v] = {}]
      /\ UNCHANGED host /\ UNCHANGED <<scripts, libs, handles, up>>
  BY DEF LuaClosed, Running, Life
<1>2. /\ CallsNest /\ StatesAreKnown /\ HandlesAreHeld
      /\ FrameFits(1) /\ Top = stack[1] /\ Len(stack) \in 1..2 /\ up \in BOOLEAN
      /\ \A u : InLife(u) <=> u = v
      /\ Under("load") => Outermost.at = 6
      /\ Under("unload") => Outermost.at = 4
      /\ Len(stack) = 1 =>
           loaded /\ ~Under("load") /\ ~Under("unload") /\ ~Under("erase")
  BY <1>1, LifeUnder
<1>3. f \in Calls /\ f.do = "free" /\ f.vm = v
  BY DEF Frame, Calls, Life
<1>. HIDE DEF f
<1>4. /\ Replaces(1, 1) /\ stack'[1] = f /\ Len(stack') = Len(stack) /\ stack' # <<>>
      /\ 1 < Len(stack) => stack'[2] = stack[2]
  BY <1>1, <1>2, <1>3, SwapFits, GotoReplaces
<1>5. CallsNest'
  <2>1. FrameFits(1)'
    BY <1>1, <1>2, <1>3, <1>4 DEF FrameFits, Life, Code
  <2>2. \A i \in (1 + 1)..Len(stack) : Suits(i)
    BY <1>1, LifeAlone DEF Suits, Code
  <2>3. Len(stack') <= MaxDepth
    BY <1>2, <1>4 DEF CallsNest
  <2>. QED  BY <1>2, <1>4, <2>1, <2>2, <2>3, StillNest
<1>6. \A u : InLife(u)' <=> u = v
  <2>1. ASSUME NEW u, InLife(u)'
        PROVE  u = v
    <3>1. \A i \in 2..Len(stack) : stack[i].do \notin Life
      BY <1>1, LifeAlone DEF Life
    <3>2. \/ \E i \in 1..1 : stack'[i].do \in Life /\ stack'[i].vm = u
          \/ \E i \in (1 + 1)..Len(stack) : stack[i].do \in Life /\ stack[i].vm = u
      BY <1>4, <2>1, LifeNext
    <3>. QED  BY <1>3, <1>4, <3>1, <3>2
  <2>2. InLife(v)'
    <3>1. 1 \in 1..Len(stack') /\ stack'[1].do \in Life /\ stack'[1].vm = v
      BY <1>2, <1>3, <1>4 DEF Life
    <3>. QED  BY <3>1 DEF InLife
  <2>. QED  BY <2>1, <2>2
<1>7. /\ (Under("erase")' <=> Under("erase")) /\ (Under("unload")' <=> Under("unload"))
      /\ Under("erase") => Gone' = Gone
      /\ 1 < Len(stack) \/ (loaded /\ ~Under("load") /\ ~Under("load")'
                            /\ ~Under("unload") /\ ~Under("unload")')
  <2>1. CASE Len(stack) = 1
    BY <1>2, <1>3, <1>4, <2>1 DEF Under, Outermost
  <2>2. CASE Len(stack) = 2
    <3>1. Outermost' = Outermost /\ stack' # <<>>
      BY <1>4, <2>2, OutermostStays
    <3>. QED  BY <1>1, <2>2, <3>1 DEF Under, Gone
  <2>. QED  BY <1>2, <2>1, <2>2
<1>8. HostPhase'
  BY <1>1, <1>2, <1>4, <1>7, PhaseStays
<1>9. StatesAreKnown'
  <2>1. \A u \in alive' : Listed(u)' \/ InLife(u)'
    BY <1>1, <1>2, <1>6 DEF StatesAreKnown, Listed
  <2>2. ~Under("erase") /\ ~Under("unload") =>
          \A i \in 1..Len(scripts) : scripts[i] \in alive' /\ scripts[i] # v
    BY <1>1, <1>2 DEF StatesAreKnown
  <2>3. Under("erase") =>
          /\ \A i \in 1..Len(scripts) : i # Gone => scripts[i] \in alive' /\ scripts[i] # v
          /\ scripts[Gone] \in alive' => scripts[Gone] = v
          /\ Len(stack) > 1 => scripts[Gone] = Null \/ scripts[Gone] = v
    BY <1>1, <1>2 DEF StatesAreKnown
  <2>4. /\ scripts \in Seq(Vms \cup {Null}) /\ alive' \subseteq Vms
        /\ \A i, j \in 1..Len(scripts) : i # j => scripts[i] # scripts[j]
        /\ ~Under("erase") => \A i \in 1..Len(scripts) : scripts[i] # Null
    BY <1>1, <1>2 DEF StatesAreKnown
  <2>. QED  BY <1>1, <1>4, <1>6, <1>7, <2>1, <2>2, <2>3, <2>4 DEF StatesAreKnown
<1>10. HandlesAreHeld'
  <2>1. \A m \in Modules : Opening(m)' = 0 /\ Opening(m) = 0
    BY <1>1, <1>2, <1>3, <1>4, NoOpening
  <2>2. \A m \in Modules : Handled(m)' = Handled(m)
    BY <1>1 DEF Handled
  <2>3. linked' \in [Vms -> SUBSET Modules]
    BY <1>1, <1>2 DEF HandlesAreHeld
  <2>4. ASSUME NEW u \in Vms
        PROVE  /\ Len(handles'[u]) <= MaxHandles
               /\ \A m \in linked'[u] : \E k \in 1..Len(handles'[u]) : handles'[u][k] = m
               /\ u \notin alive' => linked'[u] = {}
               /\ u \notin alive' /\ ~InLife(u)' => handles'[u] = <<>>
    <3>1. CASE u = v
      BY <1>1, <1>2, <1>6, <3>1 DEF HandlesAreHeld
    <3>2. CASE u # v
      BY <1>1, <1>2, <1>6, <3>2 DEF HandlesAreHeld
    <3>. QED  BY <3>1, <3>2
  <2>. QED  BY <1>1, <1>2, <2>1, <2>2, <2>3, <2>4 DEF HandlesAreHeld
<1>. QED  BY <1>5, <1>8, <1>9, <1>10 DEF HostInv

-----------------------------------------------------------------------------
(* ~ScriptVm frees the libraries of its handles, one after the other.      *)

\* One handle less is one element less: those behind it move up by one.
LEMMA HandleFreed ==
    ASSUME HandlesAreHeld, NEW v \in Vms, handles[v] # <<>>,
           handles' = [handles EXCEPT ![v] = Tail(@)]
    PROVE  /\ handles' \in [Vms -> Seq(Modules)]
           /\ Head(handles[v]) \in Modules /\ Len(handles'[v]) <= MaxHandles
           /\ \A n \in Modules :
                Cardinality(Handled(n)) =
                  Cardinality(Handled(n)') + (IF n = Head(handles[v]) THEN 1 ELSE 0)
<1>. DEFINE h == handles[v]
            t == Tail(handles[v])
<1>1. /\ handles \in [Vms -> Seq(Modules)] /\ h \in Seq(Modules)
      /\ Len(h) <= MaxHandles /\ MaxHandles \in Nat
  BY HostAssumption DEF HandlesAreHeld
<1>2. /\ t \in Seq(Modules) /\ Len(t) = Len(h) - 1 /\ Len(h) \in Nat /\ Len(h) >= 1
      /\ Head(h) \in Modules /\ Head(h) = h[1]
      /\ \A k \in 1..(Len(h) - 1) : t[k] = h[k + 1]
  BY <1>1, HeadTailProperties, LenProperties, EmptySeq
<1>3. /\ handles' \in [Vms -> Seq(Modules)] /\ handles'[v] = t
      /\ \A u \in Vms : u # v => handles'[u] = handles[u]
  BY <1>1, <1>2
<1>. HIDE DEF h, t
<1>4. ASSUME NEW n \in Modules
      PROVE  Cardinality(Handled(n)) = Cardinality(Handled(n)') + (IF n = Head(h) THEN 1 ELSE 0)
  <2>. DEFINE S == Handled(n)'
              T == Handled(n) \ {<<v, 1>>}
              F == [x \in S |-> IF x[1] = v THEN <<v, x[2] + 1>> ELSE x]
  <2>1. \A x : x \in S <=> /\ x \in Vms \X (1..MaxHandles)
                           /\ x[2] <= Len(handles'[x[1]]) /\ handles'[x[1]][x[2]] = n
    BY DEF Handled
  <2>2. \A x : x \in T <=> /\ x \in Vms \X (1..MaxHandles) /\ x # <<v, 1>>
                           /\ x[2] <= Len(handles[x[1]]) /\ handles[x[1]][x[2]] = n
    BY DEF Handled
  <2>. HIDE DEF S, T
  <2>3. ASSUME NEW x \in S
        PROVE  F[x] \in T
    <3>1. x = <<x[1], x[2]>> /\ x[1] \in Vms /\ x[2] \in 1..MaxHandles
      BY <2>1
    <3>2. CASE x[1] = v
      <4>1. x[2] \in 1..(Len(h) - 1) /\ h[x[2] + 1] = n
        BY <1>2, <1>3, <2>1, <3>1, <3>2
      <4>2. x[2] + 1 \in 1..MaxHandles /\ x[2] + 1 <= Len(h) /\ x[2] + 1 # 1
        BY <1>1, <1>2, <4>1
      <4>3. <<v, x[2] + 1>> \in T
        BY <2>2, <4>1, <4>2 DEF h
      <4>. QED  BY <3>2, <4>3
    <3>3. CASE x[1] # v
      BY <1>3, <2>1, <2>2, <3>1, <3>3
    <3>. QED  BY <3>2, <3>3
  <2>4. \A x, y \in S : F[x] = F[y] => x = y
    <3>1. \A x \in S : x = <<x[1], x[2]>> /\ x[2] \in Int
      BY <2>1
    <3>. QED  BY <3>1
  <2>5. ASSUME NEW y \in T
        PROVE  \E x \in S : F[x] = y
    <3>1. y = <<y[1], y[2]>> /\ y[1] \in Vms /\ y[2] \in 1..MaxHandles /\ y # <<v, 1>>
      BY <2>2
    <3>2. CASE y[1] = v
      <4>1. y[2] \in 2..Len(h) /\ h[y[2]] = n
        BY <1>2, <2>2, <3>1, <3>2 DEF h
      <4>2. y[2] - 1 \in 1..(Len(h) - 1) /\ (y[2] - 1) + 1 = y[2] /\ y[2] - 1 \in 1..MaxHandles
        BY <1>1, <1>2, <4>1
      <4>3. <<v, y[2] - 1>> \in S
        <5>1. t[y[2] - 1] = n /\ y[2] - 1 <= Len(t)
          BY <1>2, <4>1, <4>2
        <5>2. y[2] - 1 <= Len(handles'[v]) /\ handles'[v][y[2] - 1] = n
          BY <1>3, <5>1
        <5>. QED  BY <2>1, <4>2, <5>2
      <4>4. F[<<v, y[2] - 1>>] = y
        BY <3>1, <3>2, <4>2, <4>3
      <4>. QED  BY <4>3, <4>4
    <3>3. CASE y[1] # v
      BY <1>3, <2>1, <2>2, <3>1, <3>3
    <3>. QED  BY <3>2, <3>3
  <2>6. F \in [S -> T]
    BY <2>3
  <2>. HIDE DEF F
  <2>7. F \in Bijection(S, T)
    BY <2>4, <2>5, <2>6, Fun_IsBij
  <2>8. /\ IsFiniteSet(S) /\ Cardinality(S) \in Nat
        /\ IsFiniteSet(Handled(n)) /\ Cardinality(Handled(n)) \in Nat
    BY HandledIsFinite DEF S
  <2>9. Cardinality(T) = Cardinality(S)
    BY <2>7, <2>8, FS_Bijection DEF ExistsBijection
  <2>10. <<v, 1>> \in Handled(n) <=> n = Head(h)
    <3>1. <<v, 1>> \in Vms \X (1..MaxHandles)
      BY <1>1, <1>2
    <3>. QED  BY <1>2, <3>1 DEF Handled, h
  <2>11. Cardinality(T) = IF <<v, 1>> \in Handled(n) THEN Cardinality(Handled(n)) - 1
                          ELSE Cardinality(Handled(n))
    BY <2>8, FS_RemoveElement DEF T
  <2>12. CASE n = Head(h)
    BY <2>8, <2>9, <2>10, <2>11, <2>12 DEF S
  <2>13. CASE n # Head(h)
    BY <2>8, <2>9, <2>10, <2>11, <2>13 DEF S
  <2>. QED  BY <2>12, <2>13
<1>5. Len(handles'[v]) <= MaxHandles
  BY <1>1, <1>2, <1>3
<1>. QED  BY <1>2, <1>3, <1>4, <1>5 DEF h

LEMMA FreeLibrariesInv ==
    ASSUME HostInv, NEW v \in Vms, FreeLibraries(v)
    PROVE  HostInv'
<1>1. /\ stack # <<>> /\ Top.do = "free" /\ Top.do \in Life /\ Top.vm = v
      /\ UNCHANGED host /\ UNCHANGED <<scripts, alive, linked>> /\ up' = up
  BY DEF FreeLibraries, Running, Life
<1>2. /\ CallsNest /\ StatesAreKnown /\ HandlesAreHeld /\ FrameFits(1) /\ Top = stack[1]
      /\ up \in BOOLEAN /\ Len(stack) \in 1..2
      /\ \A u : InLife(u) <=> u = v
  BY <1>1, LifeUnder
<1>3. v \notin alive /\ linked[v] = {}
  BY <1>1, <1>2 DEF FrameFits, HandlesAreHeld
<1>4. CASE /\ handles[v] # <<>>
           /\ libs' = FreeOnce(libs, Head(handles[v]))
           /\ handles' = [handles EXCEPT ![v] = Tail(@)]
           /\ UNCHANGED stack
  <2>. DEFINE m == Head(handles[v])
  <2>1. /\ handles' \in [Vms -> Seq(Modules)] /\ m \in Modules
        /\ Len(handles'[v]) <= MaxHandles
        /\ \A n \in Modules :
             Cardinality(Handled(n)) =
               Cardinality(Handled(n)') + (IF n = m THEN 1 ELSE 0)
    BY <1>2, <1>4, HandleFreed
  <2>. HIDE DEF m
  <2>2. \A n \in Modules : Opening(n) = 0 /\ Opening(n)' = 0
    BY <1>1, <1>2, <1>4, NoOpening DEF Opening
  <2>3. ASSUME NEW n \in Modules
        PROVE  libs'[n] \in Nat /\ libs'[n] = Cardinality(Handled(n)') + Opening(n)'
    <3>1. /\ libs \in [Modules -> Nat] /\ libs[n] = Cardinality(Handled(n)) + Opening(n)
          /\ Cardinality(Handled(n)) \in Nat /\ Cardinality(Handled(n)') \in Nat
      BY <1>2, HandledIsFinite DEF HandlesAreHeld
    <3>2. libs' = [libs EXCEPT ![m] = libs[m] - 1]
      BY <1>4 DEF FreeOnce, m
    <3>3. CASE n = m
      BY <2>1, <2>2, <3>1, <3>2, <3>3
    <3>4. CASE n # m
      BY <2>1, <2>2, <3>1, <3>2, <3>4
    <3>. QED  BY <3>3, <3>4
  <2>4. libs' \in [Modules -> Nat]
    BY <1>2, <1>4, <2>3 DEF FreeOnce, HandlesAreHeld
  <2>5. ASSUME NEW u \in Vms
        PROVE  /\ Len(handles'[u]) <= MaxHandles
               /\ \A n \in linked'[u] : \E k \in 1..Len(handles'[u]) : handles'[u][k] = n
               /\ u \notin alive' => linked'[u] = {}
               /\ u \notin alive' /\ ~InLife(u)' => handles'[u] = <<>>
    <3>1. InLife(u)' <=> u = v
      BY <1>2, <1>4 DEF InLife
    <3>2. CASE u = v
      BY <1>1, <1>3, <2>1, <3>1, <3>2
    <3>3. CASE u # v
      BY <1>1, <1>2, <1>4, <3>1, <3>3 DEF HandlesAreHeld
    <3>. QED  BY <3>2, <3>3
  <2>6. HandlesAreHeld'
    BY <1>1, <1>2, <2>1, <2>3, <2>4, <2>5 DEF HandlesAreHeld
  <2>7. CallsNest'
    <3>1. \A i \in 1..Len(stack) : FrameFits(i)'
      <4>1. ASSUME NEW i \in 1..Len(stack)
            PROVE  FrameFits(i)'
        <5>1. stack[i].do # "open"
          BY <1>1, <1>2, <4>1 DEF CallsNest, FrameFits
        <5>2. FrameFits(i)
          BY <1>2 DEF CallsNest
        <5>. QED  BY <1>1, <1>4, <5>1, <5>2 DEF FrameFits, host
      <4>. QED  BY <4>1
    <3>. QED  BY <1>2, <1>4, <3>1 DEF CallsNest
  <2>8. HostPhase'
    BY <1>1, <1>4 DEF HostInv, HostPhase, host, Under, Outermost, BeforeLoadStep,
       BeforeUnloadStep
  <2>9. StatesAreKnown'
    BY <1>1, <1>2, <1>4 DEF StatesAreKnown, InLife, Listed, Gone, Under, Outermost
  <2>. QED  BY <2>6, <2>7, <2>8, <2>9 DEF HostInv
<1>5. CASE handles[v] = <<>> /\ Return /\ UNCHANGED <<libs, handles>>
  <2>1. /\ CallsNest' /\ HostPhase'
        /\ \A u : ~InLife(u)'
        /\ \A n : Opening(n)' = 0 /\ Opening(n) = 0
        /\ Len(stack') = Len(stack) - 1
        /\ \A do \in {"load", "unload", "erase"} :
             (Under(do)' <=> Under(do)) /\ (Under(do) => Outermost' = Outermost)
    BY <1>1, <1>5, LifeReturns, LifeAlone
  <2>2. StatesAreKnown'
    <3>1. /\ Under("erase")' <=> Under("erase")
          /\ Under("unload")' <=> Under("unload")
          /\ Under("erase") => Gone' = Gone
      BY <1>1, <2>1 DEF Gone
    <3>2. \A u \in alive : Listed(u)'
      BY <1>1, <1>2, <1>3 DEF StatesAreKnown, Listed
    <3>3. Under("erase") => scripts[Gone] \notin alive
      BY <1>2, <1>3 DEF StatesAreKnown
    <3>4. ~(Len(stack') > 1)
      BY <1>2, <2>1
    <3>. QED  BY <1>1, <1>2, <2>1, <3>1, <3>2, <3>3, <3>4 DEF StatesAreKnown
  <2>3. HandlesAreHeld'
    <3>1. \A n \in Modules : Handled(n)' = Handled(n)
      BY <1>5 DEF Handled
    <3>2. \A u \in Vms : u \notin alive' /\ ~InLife(u)' => handles'[u] = <<>>
      BY <1>1, <1>2, <1>5 DEF HandlesAreHeld
    <3>. QED  BY <1>1, <1>2, <1>5, <2>1, <3>1, <3>2 DEF HandlesAreHeld
  <2>. QED  BY <2>1, <2>2, <2>3 DEF HostInv
<1>. QED  BY <1>4, <1>5 DEF FreeLibraries
-----------------------------------------------------------------------------
(* The theorems.                                                           *)

LEMMA InitInv == Init => HostInv
<1>. SUFFICES ASSUME Init
              PROVE  HostInv
  OBVIOUS
<1>1. stack \in Seq(Calls) /\ Len(stack) = 0 /\ scripts \in Seq(Vms \cup {Null}) /\ Len(scripts) = 0
  BY EmptySeq DEF Init
<1>2. CallsNest
  BY <1>1, HostAssumption DEF CallsNest
<1>3. HostPhase
  <2>1. BeforeLoadStep(1) /\ ~loaded /\ stack = <<>>
    BY DEF Init, BeforeLoadStep
  <2>. QED  BY <2>1 DEF Init, HostPhase, Under
<1>4. StatesAreKnown
  BY <1>1 DEF Init, StatesAreKnown, Under
<1>5. HandlesAreHeld
  <2>1. \A m \in Modules : Handled(m) = {} /\ Opening(m) = 0
    BY EmptySeq DEF Init, Handled, Opening
  <2>2. handles \in [Vms -> Seq(Modules)] /\ \A v \in Vms : Len(handles[v]) = 0
    BY EmptySeq DEF Init
  <2>3. \A m \in Modules : libs[m] = Cardinality(Handled(m)) + Opening(m)
    <3>1. \A m \in Modules : Cardinality(Handled(m)) = 0 /\ libs[m] = 0
      BY <2>1, FS_EmptySet DEF Init
    <3>. QED  BY <2>1, <3>1
  <2>4. \A v \in Vms : Len(handles[v]) <= MaxHandles /\ handles[v] = <<>> /\ linked[v] = {}
    BY <2>2, HostAssumption DEF Init
  <2>5. libs \in [Modules -> Nat] /\ linked \in [Vms -> SUBSET Modules]
    BY DEF Init
  <2>. QED  BY <2>2, <2>3, <2>4, <2>5 DEF HandlesAreHeld
<1>. QED  BY <1>2, <1>3, <1>4, <1>5 DEF HostInv

LEMMA StepInv == HostInv /\ [Next]_vars => HostInv'
<1>. SUFFICES ASSUME HostInv, [Next]_vars
              PROVE  HostInv'
  OBVIOUS
<1>1. CASE \/ MetamodLoad \/ PreloadLua \/ InitializeApi \/ InitializeRuntime
           \/ RegisterCommand \/ InstallHooks \/ LoadsPlugins
  BY <1>1, MetamodLoadInv, PreloadLuaInv, InitializeApiInv, InitializeRuntimeInv,
     RegisterCommandInv, InstallHooksInv, LoadsPluginsInv
<1>2. CASE \/ MetamodUnload \/ RemoveHooks \/ UnregisterCommand \/ ClearPointer
           \/ ShutdownRuntime \/ ShutdownApi \/ ReleaseLua
  BY <1>2, MetamodUnloadInv, RemoveHooksInv, UnregisterCommandInv, ClearPointerInv,
     ShutdownRuntimeInv, ShutdownApiInv, ReleaseLuaInv
<1>3. CASE \/ StartReturns \/ StartFails \/ EraseEnds
           \/ \E v \in Vms : ConsoleLoad(v) \/ LuaClosed(v) \/ FreeLibraries(v)
           \/ \E i \in DOMAIN scripts : ConsoleUnload(i)
  BY <1>3, StartReturnsInv, StartFailsInv, EraseEndsInv, ConsoleLoadInv, LuaClosedInv,
     FreeLibrariesInv, ConsoleUnloadInv
<1>4. CASE \/ \E v \in Vms, m \in Modules : LoadModule(v, m)
           \/ OpenReturns \/ OpenFails \/ EngineFires \/ WalkNext \/ CallReturns
  BY <1>4, LoadModuleInv, OpenReturnsInv, OpenFailsInv, EngineFiresInv, WalkNextInv,
     CallReturnsInv
<1>5. CASE UNCHANGED vars
  <2>1. /\ CallsNest' <=> CallsNest
        /\ HostPhase' <=> HostPhase
        /\ StatesAreKnown' <=> StatesAreKnown
    BY <1>5 DEF vars, CallsNest, FrameFits, HostPhase, StatesAreKnown, Under, Outermost,
       BeforeLoadStep, BeforeUnloadStep, InLife, Listed, Gone
  <2>2. HandlesAreHeld'
    BY <1>5, HandlesUnchanged DEF vars, Opening, InLife
  <2>. QED  BY <2>1, <2>2 DEF HostInv
<1>. QED  BY <1>1, <1>2, <1>3, <1>4, <1>5 DEF Next

\* The inductive invariant holds: whatever plugin code does while it starts, is
\* called or closes, the host, scripts_ and the handles are as HostInv says.
THEOREM Invariance == Spec => []HostInv
BY InitInv, StepInv, PTL DEF Spec

\* The types of all variables, and the bound on calls in progress.
THEOREM TypeCorrect == Spec => []TypeOK
<1>1. ASSUME HostInv
      PROVE  TypeOK
  <2>1. CallsNest /\ HostPhase /\ StatesAreKnown /\ HandlesAreHeld
    BY <1>1 DEF HostInv
  <2>2. DOMAIN stack = 1..Len(stack)
    BY <2>1, LenProperties DEF CallsNest
  <2>3. \A i \in DOMAIN stack :
          /\ stack[i].do \in {"load", "unload", "walk", "erase"} => stack[i].vm = Null
          /\ stack[i].do \in {"start", "call", "close", "free", "open"} => stack[i].vm \in Vms
    BY <2>1, <2>2 DEF CallsNest, FrameFits, Life
  <2>. QED  BY <2>1, <2>3 DEF TypeOK, CallsNest, HostPhase, StatesAreKnown, HandlesAreHeld
<1>. QED  BY <1>1, Invariance, PTL

\* LuaCSPlugin::Load and Unload (plugin.cpp): when LuaCS is out, after a load that
\* failed at any of its steps as after an unload, the console command, the hooks,
\* the Lua states and every native library are gone.
THEOREM NothingIsLeft == Spec => []OutLeavesNothing
<1>1. ASSUME HostInv
      PROVE  OutLeavesNothing
  <2>. SUFFICES ASSUME stack = <<>>, ~loaded
                PROVE  /\ ~lua /\ ~api /\ ~runtime /\ ~command /\ ~pointer
                       /\ hooks = {} /\ scripts = <<>> /\ alive = {}
                       /\ \A m \in Modules : libs[m] = 0
    BY DEF OutLeavesNothing
  <2>1. BeforeLoadStep(1)
    BY <1>1 DEF HostInv, HostPhase
  <2>2. \A v \in Vms : handles[v] = <<>>
    <3>1. \A v \in Vms : v \notin alive /\ ~InLife(v)
      BY <1>1, <2>1, NoLife DEF HostInv, BeforeLoadStep
    <3>. QED  BY <1>1, <3>1 DEF HostInv, HandlesAreHeld
  <2>3. \A m \in Modules : Handled(m) = {} /\ Opening(m) = 0
    <3>1. \A v \in Vms : Len(handles[v]) = 0
      BY <2>2
    <3>. QED  BY <3>1 DEF Handled, Opening
  <2>4. \A m \in Modules : libs[m] = 0
    <3>1. \A m \in Modules : libs[m] = Cardinality({}) + 0
      BY <1>1, <2>3 DEF HostInv, HandlesAreHeld
    <3>. QED  BY <3>1, FS_EmptySet
  <2>. QED  BY <2>1, <2>4 DEF BeforeLoadStep
<1>. QED  BY <1>1, Invariance, PTL

\* The order of Load and of Unload: a hook, the console command and plugin code
\* find the runtime, the game API and the Lua library they use.
THEOREM CallersHaveAHost == Spec => []CallersFindTheirHost
<1>1. ASSUME HostInv
      PROVE  CallersFindTheirHost
  <2>1. CASE stack = <<>> /\ ~loaded
    BY <1>1, <2>1 DEF HostInv, HostPhase, BeforeLoadStep, CallersFindTheirHost
  <2>2. CASE Under("load") \/ Under("unload")
    <3>1. Outermost.at \in 1..6
      <4>1. CallsNest /\ stack # <<>>
        BY <1>1, <2>2 DEF HostInv, Under
      <4>2. Len(stack) \in 1..Len(stack)
        BY <4>1, StackFacts
      <4>3. FrameFits(Len(stack))
        BY <4>1, <4>2 DEF CallsNest
      <4>. QED  BY <2>2, <4>3 DEF FrameFits, Under, Outermost
    <3>2. CASE Under("load")
      BY <1>1, <3>1, <3>2 DEF HostInv, HostPhase, BeforeLoadStep, CallersFindTheirHost
    <3>3. CASE Under("unload")
      BY <1>1, <3>1, <3>3 DEF HostInv, HostPhase, BeforeUnloadStep, CallersFindTheirHost
    <3>. QED  BY <2>2, <3>2, <3>3
  <2>3. CASE ~Under("load") /\ ~Under("unload") /\ (stack # <<>> \/ loaded)
    BY <1>1, <2>3 DEF HostInv, HostPhase, CallersFindTheirHost
  <2>. QED  BY <2>1, <2>2, <2>3
<1>. QED  BY <1>1, Invariance, PTL

\* ~ScriptVm closes the Lua state before it frees the libraries: no object of any
\* state, not even during its finalizers, points into a library that is not loaded.
THEOREM CodeStays == Spec => []CodeOutlivesObjects
<1>1. ASSUME HostInv
      PROVE  CodeOutlivesObjects
  <2>. SUFFICES ASSUME NEW v \in Vms, NEW m \in linked[v]
                PROVE  libs[m] > 0
    BY DEF CodeOutlivesObjects
  <2>1. m \in Modules /\ HandlesAreHeld
    BY <1>1 DEF HostInv, HandlesAreHeld
  <2>2. PICK k \in 1..Len(handles[v]) : handles[v][k] = m
    BY <2>1 DEF HandlesAreHeld
  <2>3. <<v, k>> \in Handled(m)
    <3>1. handles[v] \in Seq(Modules) /\ Len(handles[v]) <= MaxHandles
      BY <2>1 DEF HandlesAreHeld
    <3>2. Len(handles[v]) \in Nat /\ MaxHandles \in Nat
      BY <3>1, LenProperties, HostAssumption
    <3>3. k \in 1..MaxHandles /\ k <= Len(handles[v])
      BY <3>1, <3>2
    <3>. QED  BY <2>2, <3>3 DEF Handled
  <2>4. Cardinality(Handled(m)) > 0
    BY <2>3, HandledIsFinite, FS_EmptySet
  <2>5. libs[m] = Cardinality(Handled(m)) + Opening(m) /\ Opening(m) \in {0, 1}
    BY <2>1 DEF HandlesAreHeld, Opening
  <2>. QED  BY <2>4, <2>5, HandledIsFinite
<1>. QED  BY <1>1, Invariance, PTL

\* lua_module_loader and ~ScriptVm: LoadLibraryW and FreeLibrary are called in
\* pairs, also when a module fails to open: the process holds each library as often
\* as handles and opens in progress say.
THEOREM LibrariesAreFreed == Spec => []LibrariesAreCounted
<1>1. ASSUME HostInv
      PROVE  LibrariesAreCounted
  <2>. SUFFICES ASSUME NEW m \in Modules
                PROVE  Cardinality({i \in DOMAIN stack : stack[i].do = "open" /\ stack[i].at = m})
                         = Opening(m)
    BY <1>1 DEF LibrariesAreCounted, HostInv, HandlesAreHeld, Handled
  <2>1. CallsNest /\ DOMAIN stack = 1..Len(stack)
    BY <1>1, LenProperties DEF HostInv, CallsNest
  <2>2. \A i \in DOMAIN stack : stack[i].do = "open" => i = 1
    BY <2>1 DEF CallsNest, FrameFits
  <2>. DEFINE S == {i \in DOMAIN stack : stack[i].do = "open" /\ stack[i].at = m}
  <2>3. CASE stack # <<>> /\ stack[1].do = "open" /\ stack[1].at = m
    <3>1. 1 \in DOMAIN stack
      BY <2>1, <2>3, StackFacts
    <3>2. S = {1}
      BY <2>2, <2>3, <3>1
    <3>. QED  BY <2>3, <3>2, FS_Singleton DEF Opening
  <2>4. CASE ~(stack # <<>> /\ stack[1].do = "open" /\ stack[1].at = m)
    <3>1. S = {}
      BY <2>1, <2>2, <2>4
    <3>. QED  BY <2>4, <3>1, FS_EmptySet DEF Opening
  <2>. QED  BY <2>3, <2>4
<1>. QED  BY <1>1, Invariance, PTL

\* dispatch_game_event: while no element of scripts_ is being erased, what a walk
\* meets exists and is not closing, however its callbacks, nested events, starts
\* and finalizers interleave; during Unload no walk can begin.
THEOREM WalksMeetLiveStates == Spec => []WalksMeetLivePlugins
<1>1. ASSUME HostInv
      PROVE  WalksMeetLivePlugins
  <2>. SUFFICES ASSUME Running("walk"), Top.at <= Len(scripts),
                       \A i \in DOMAIN stack : stack[i].do # "erase"
                PROVE  scripts[Top.at] \in alive \ Dying
    BY DEF WalksMeetLivePlugins
  <2>1. CallsNest /\ stack # <<>> /\ DOMAIN stack = 1..Len(stack) /\ Len(stack) \in DOMAIN stack
    BY <1>1, StackFacts, LenProperties DEF HostInv, CallsNest, Running
  <2>2. ~Under("erase")
    BY <2>1 DEF Under, Outermost
  <2>3. scripts[Top.at] \in alive /\ ~InLife(scripts[Top.at])
    BY <1>1, <2>2, WalkMeets
  <2>4. \A v \in Dying : InLife(v)
    BY <2>1 DEF Dying, InLife, Life
  <2>. QED  BY <2>3, <2>4
<1>. QED  BY <1>1, Invariance, PTL
=============================================================================
