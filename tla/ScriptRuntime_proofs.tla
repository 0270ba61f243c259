------------------------ MODULE ScriptRuntime_proofs ------------------------
(***************************************************************************)
(* Proofs about ScriptRuntime, for any number of plugins and any depth of  *)
(* nesting: what the walks in progress hold stays good while plugin code   *)
(* runs under them, and therefore whom the runtime calls is right.         *)
(***************************************************************************)
EXTENDS ScriptRuntime, ScriptVm_proofs, WellFoundedInduction

\* A slot is free, or holds fn or what was pinned after it.
NoOlder(slot, fn) == slot = Free \/ slot >= fn

\* What makes the frame f at depth i good, apart from its neighbours.  The
\* conjuncts of CallsNest, HeldCopiesStayGood and RunsItsOwnFunction.
Good(i, f) ==
    /\ f.type = "tick" =>
         /\ i = 1 /\ f.at <= Len(scripts) /\ f.now <= clock
         /\ \A id \in f.todo :
              /\ f.at \in DOMAIN scripts /\ id < nextTimer
              /\ \A t \in TimersOf(scripts[f.at]) :
                   t.id = id /\ ~t.cancelled => t.due <= f.now
    /\ f.type = "dispatch" =>
         /\ f.at <= Len(scripts)
         /\ \A x \in f.todo :
              /\ f.at \in DOMAIN scripts /\ x.vm = scripts[f.at]
              /\ x.kind = f.kind
              /\ x.kind = "command" => x \in regs \/ x.vm \in disabled
              /\ x.fn < nextFn /\ NoOlder(slots[x.vm][x.ref], x.fn)
    /\ f.type = "lua" =>
         /\ f.vm \in mapped
         /\ f.origin \in {"startup", "unload"} => i = 1
         /\ f.origin \in {"timer", "command"} => f.fn = f.want
         /\ f.origin = "event" => f.fn >= f.want

StackGood == \A i \in DOMAIN stack : \A f : f = stack[i] => Good(i, f)

TimerNest ==
    \A i \in DOMAIN stack :
        stack[i].type = "lua" /\ stack[i].origin = "timer" =>
            i = 2 /\ stack[1].type = "tick" /\ stack[i].id \notin stack[1].todo

StackInv == stack \in Seq(Frame) /\ StackGood /\ TimerNest

\* The inductive invariant.
RuntimeInv == VmInv /\ StackInv

-----------------------------------------------------------------------------
(* The stack as a sequence. *)

LEMMA StackFacts ==
    ASSUME stack \in Seq(Frame)
    PROVE  /\ Len(stack) \in Nat /\ DOMAIN stack = 1 .. Len(stack)
           /\ \A i \in 1 .. Len(stack) : stack[i] \in Frame
           /\ stack # <<>> => Len(stack) >= 1
BY LenProperties, ElementOfSeq, EmptySeq

LEMMA BelowFacts ==
    ASSUME stack \in Seq(Frame), stack # <<>>
    PROVE  /\ Top = stack[Len(stack)] /\ Top \in Frame
           /\ Below \in Seq(Frame) /\ Len(Below) = Len(stack) - 1
           /\ DOMAIN Below = 1 .. Len(stack) - 1
           /\ \A i \in 1 .. Len(stack) - 1 : Below[i] = stack[i]
<1>1. /\ Len(stack) \in Nat /\ Len(stack) >= 1
      /\ \A i \in 1 .. Len(stack) : stack[i] \in Frame
  BY StackFacts
<1>2. Below = SubSeq(stack, 1, Len(stack) - 1)
  BY DEF Below, Front
<1>3. /\ Below \in Seq(Frame) /\ Len(Below) = Len(stack) - 1
      /\ \A i \in 1 .. Len(stack) - 1 : Below[i] = stack[i]
  <2>. DEFINE n == Len(stack) - 1
  <2>1. n \in Int /\ n >= 0 /\ \A i \in 1 .. n : stack[i] \in Frame
    BY <1>1
  <2>. HIDE DEF n
  <2>2. /\ SubSeq(stack, 1, n) \in Seq(Frame)
        /\ Len(SubSeq(stack, 1, n)) = n
        /\ \A i \in 1 .. n : SubSeq(stack, 1, n)[i] = stack[i]
    BY <2>1, SubSeqProperties
  <2>. QED  BY <2>2, <1>2 DEF n
<1>. QED  BY <1>1, <1>3, LenProperties DEF Top, Last

LEMMA AppendFacts ==
    ASSUME NEW s \in Seq(Frame), NEW g \in Frame
    PROVE  /\ Append(s, g) \in Seq(Frame)
           /\ Len(s) \in Nat
           /\ DOMAIN Append(s, g) = 1 .. Len(s) + 1
           /\ \A i \in 1 .. Len(s) : Append(s, g)[i] = s[i]
           /\ Append(s, g)[Len(s) + 1] = g
BY AppendProperties, LenProperties

LEMMA ShortStacks ==
    ASSUME NEW g \in Frame, NEW h \in Frame
    PROVE  /\ <<g>> \in Seq(Frame) /\ DOMAIN <<g>> = {1} /\ <<g>>[1] = g
           /\ Append(<<g>>, h) \in Seq(Frame) /\ DOMAIN Append(<<g>>, h) = {1, 2}
           /\ Append(<<g>>, h)[1] = g /\ Append(<<g>>, h)[2] = h
<1>1. <<g>> \in Seq(Frame) /\ Len(<<g>>) = 1 /\ DOMAIN <<g>> = {1} /\ <<g>>[1] = g
  OBVIOUS
<1>2. /\ Append(<<g>>, h) \in Seq(Frame) /\ DOMAIN Append(<<g>>, h) = 1 .. 2
      /\ Append(<<g>>, h)[1] = g /\ Append(<<g>>, h)[2] = h
  BY <1>1, AppendFacts
<1>. QED  BY <1>1, <1>2

LEMMA AdvancedDispatch ==
    ASSUME NEW f \in [type : {"dispatch"}, kind : {"event", "command"}, key : Keys,
                      post : BOOLEAN, at : Nat, todo : SUBSET RegRecord],
           NEW S \in SUBSET RegRecord
    PROVE  [f EXCEPT !.at = @ + 1, !.todo = S] \in Frame
<1>. DEFINE g == [f EXCEPT !.at = @ + 1]
<1>1. g \in [type : {"dispatch"}, kind : {"event", "command"}, key : Keys,
             post : BOOLEAN, at : Nat, todo : SUBSET RegRecord]
  OBVIOUS
<1>2. [f EXCEPT !.at = @ + 1, !.todo = S] = [g EXCEPT !.todo = S]
  OBVIOUS
<1>. HIDE DEF g
<1>3. [g EXCEPT !.todo = S] \in
        [type : {"dispatch"}, kind : {"event", "command"}, key : Keys,
         post : BOOLEAN, at : Nat, todo : SUBSET RegRecord]
  BY <1>1
<1>. QED  BY <1>2, <1>3 DEF Frame

LEMMA AdvancedTick ==
    ASSUME NEW f \in [type : {"tick"}, now : Nat, at : Nat, todo : SUBSET Nat],
           NEW S \in SUBSET Nat
    PROVE  [f EXCEPT !.at = @ + 1, !.todo = S] \in Frame
<1>. DEFINE g == [f EXCEPT !.at = @ + 1]
<1>1. g \in [type : {"tick"}, now : Nat, at : Nat, todo : SUBSET Nat]
  OBVIOUS
<1>2. [f EXCEPT !.at = @ + 1, !.todo = S] = [g EXCEPT !.todo = S]
  OBVIOUS
<1>. HIDE DEF g
<1>3. [g EXCEPT !.todo = S] \in [type : {"tick"}, now : Nat, at : Nat, todo : SUBSET Nat]
  BY <1>1
<1>. QED  BY <1>2, <1>3 DEF Frame

\* Every set of numbers has a smallest one.
LEMMA SmallestNumber ==
    ASSUME NEW S \in SUBSET Nat, S # {}
    PROVE  \E m \in S : \A k \in S : m <= k
<1>1. PICK m \in S : \A k \in S : ~(<<k, m>> \in OpToRel(<, Nat))
  BY NatLessThanWellFounded, WFMin
<1>2. \A k \in S : ~(k < m)
  BY <1>1 DEF OpToRel
<1>. QED  BY <1>2

\* The walks take the smallest id first; there is one.
LEMMA FirstIdFacts ==
    ASSUME NEW S \in SUBSET Nat, S # {}
    PROVE  FirstId(S) \in S
<1>1. PICK m \in S : \A k \in S : m <= k
  BY SmallestNumber
<1>. QED  BY <1>1 DEF FirstId

LEMMA FirstFacts ==
    ASSUME NEW S, \A x \in S : x.fn \in Nat, S # {}
    PROVE  First(S) \in S
<1>. DEFINE I == {x.fn : x \in S}
<1>1. I \in SUBSET Nat /\ I # {}
  OBVIOUS
<1>2. PICK m \in I : \A k \in I : m <= k
  BY <1>1, SmallestNumber
<1>3. PICK x \in S : x.fn = m
  OBVIOUS
<1>4. \A y \in S : x.fn <= y.fn
  BY <1>2, <1>3
<1>. QED  BY <1>4 DEF First

-----------------------------------------------------------------------------
(* What a step of the registry leaves to the frames that hold copies. *)

\* The copies of event and command records.
Stable ==
    /\ scripts' = scripts
    /\ mapped \subseteq mapped' /\ disabled \subseteq disabled'
    /\ clock <= clock' /\ nextTimer <= nextTimer' /\ nextFn <= nextFn'
    /\ \A v \in Vms, r \in Refs :
         slots'[v][r] \in {Free, slots[v][r], nextFn}
    /\ \A x \in regs : x.kind = "command" => x \in regs' \/ x.vm \in disabled'

\* The ids below nextTimer in D.
StableTimers(D) ==
    \A t \in timers' : t.id \in D /\ t.id < nextTimer /\ ~t.cancelled => t \in timers

LEMMA StableGood ==
    ASSUME VmInv, VmInv', Stable, NEW i \in Nat, NEW f \in Frame, Good(i, f),
           f.type = "tick" => StableTimers(f.todo)
    PROVE  Good(i, f)'
<1>1. /\ clock \in Nat /\ clock' \in Nat /\ nextTimer \in Nat /\ nextTimer' \in Nat
      /\ nextFn \in Nat /\ nextFn' \in Nat
      /\ slots \in [Vms -> [Refs -> Nat]]
      /\ \A t \in timers : t.id \in Nat
  BY DEF VmInv, VmTypeOK, TimerRecord
<1>2. ASSUME f.type = "tick"
      PROVE  /\ i = 1 /\ f.at <= Len(scripts') /\ f.now <= clock'
             /\ \A id \in f.todo :
                  /\ f.at \in DOMAIN scripts' /\ id < nextTimer'
                  /\ \A t \in {u \in timers' : u.vm = scripts'[f.at]} :
                       t.id = id /\ ~t.cancelled => t.due <= f.now
  <2>1. f.now \in Nat /\ f.todo \subseteq Nat
    BY <1>2 DEF Frame
  <2>2. /\ i = 1 /\ f.at <= Len(scripts) /\ f.now <= clock
        /\ \A id \in f.todo :
             /\ f.at \in DOMAIN scripts /\ id < nextTimer
             /\ \A t \in TimersOf(scripts[f.at]) :
                  t.id = id /\ ~t.cancelled => t.due <= f.now
    BY <1>2 DEF Good
  <2>3. ASSUME NEW id \in f.todo, NEW t \in timers', t.vm = scripts'[f.at],
               t.id = id, ~t.cancelled
        PROVE  t.due <= f.now
    <3>1. t \in timers
      BY <1>2, <2>2, <2>3 DEF StableTimers
    <3>. QED  BY <3>1, <2>2, <2>3 DEF Stable, TimersOf
  <2>. QED  BY <1>1, <2>1, <2>2, <2>3 DEF Stable
<1>3. ASSUME f.type = "dispatch"
      PROVE  /\ f.at <= Len(scripts')
             /\ \A x \in f.todo :
                  /\ f.at \in DOMAIN scripts' /\ x.vm = scripts'[f.at]
                  /\ x.kind = f.kind
                  /\ x.kind = "command" => x \in regs' \/ x.vm \in disabled'
                  /\ x.fn < nextFn' /\ NoOlder(slots'[x.vm][x.ref], x.fn)
  <2>1. /\ f.at <= Len(scripts')
        /\ \A x \in f.todo :
             /\ f.at \in DOMAIN scripts' /\ x.vm = scripts'[f.at]
             /\ x.kind = f.kind
             /\ x.kind = "command" => x \in regs' \/ x.vm \in disabled'
    BY <1>3 DEF Good, Stable
  <2>2. ASSUME NEW x \in f.todo
        PROVE  x.fn < nextFn' /\ NoOlder(slots'[x.vm][x.ref], x.fn)
    <3>1. x.fn \in Nat /\ x.vm \in Vms /\ x.ref \in Refs
      BY <1>3 DEF Frame, RegRecord
    <3>2. x.fn < nextFn /\ NoOlder(slots[x.vm][x.ref], x.fn)
      BY <1>3 DEF Good
    <3>3. /\ slots'[x.vm][x.ref] \in {Free, slots[x.vm][x.ref], nextFn}
          /\ nextFn <= nextFn'
      BY <3>1 DEF Stable
    <3>. QED  BY <1>1, <3>1, <3>2, <3>3 DEF NoOlder
  <2>. QED  BY <2>1, <2>2
<1>4. ASSUME f.type = "lua"
      PROVE  /\ f.vm \in mapped'
             /\ f.origin \in {"startup", "unload"} => i = 1
             /\ f.origin \in {"timer", "command"} => f.fn = f.want
             /\ f.origin = "event" => f.fn >= f.want
  BY <1>4 DEF Good, Stable
<1>. QED  BY <1>2, <1>3, <1>4 DEF Good, TimersOf

LEMMA UnchangedStable ==
    ASSUME VmInv, UNCHANGED vmVars
    PROVE  VmInv' /\ Stable /\ \A D : StableTimers(D)
BY VmNextInv DEF VmInv, VmTypeOK, vmVars, Stable, StableTimers

LEMMA ServiceStable ==
    ASSUME VmInv, NEW v \in Vms, Service(v)
    PROVE  Stable /\ \A D : StableTimers(D)
<1>. USE DEF Stable, StableTimers, ids, Pin, Unref
<1>1. nextTimer \in Nat /\ nextFn \in Nat /\ slots \in [Vms -> [Refs -> Nat]] /\ clock \in Nat /\ \A t \in timers : t \in TimerRecord
  BY DEF VmInv, VmTypeOK
<1>2. ASSUME NEW key \in Keys, NEW post \in BOOLEAN, ServiceEventOn(v, key, post)
      PROVE  Stable /\ \A D : StableTimers(D)
  BY <1>1, <1>2 DEF ServiceEventOn
<1>3. ASSUME NEW x \in RegsOf(v), ServiceEventOff(v, x.id)
      PROVE  Stable /\ \A D : StableTimers(D)
  BY <1>1, <1>3 DEF ServiceEventOff
<1>4. ASSUME NEW key \in Keys, ServiceCommandOn(v, key)
      PROVE  Stable /\ \A D : StableTimers(D)
  BY <1>1, <1>4 DEF ServiceCommandOn
<1>5. ASSUME NEW d \in Delays, NEW repeat \in BOOLEAN, ServiceTimerAdd(v, d, repeat)
      PROVE  Stable /\ \A D : StableTimers(D)
  <2>1. \A t \in timers' : t.id < nextTimer => t \in timers
    BY <1>1, <1>5 DEF ServiceTimerAdd
  <2>. QED  BY <1>1, <1>5, <2>1 DEF ServiceTimerAdd
<1>6. ASSUME NEW y \in TimersOf(v), ServiceTimerCancel(v, y.id)
      PROVE  Stable /\ \A D : StableTimers(D)
  <2>1. PICK t \in timers : timers' = (timers \ {t}) \cup {Cancelled(t)}
    BY <1>6 DEF ServiceTimerCancel, TimersOf
  <2>2. Cancelled(t).cancelled
    BY <1>1 DEF Cancelled, TimerRecord
  <2>3. \A u \in timers' : ~u.cancelled => u \in timers
    BY <2>1, <2>2
  <2>. QED  BY <1>1, <1>6, <2>3 DEF ServiceTimerCancel
<1>. QED  BY <1>2, <1>3, <1>4, <1>5, <1>6 DEF Service

LEMMA QuarantineStable ==
    ASSUME VmInv, NEW v \in Vms, Quarantine(v)
    PROVE  Stable /\ \A D : StableTimers(D)
BY DEF VmInv, VmTypeOK, Quarantine, RegsOf, Stable, StableTimers, Unref, ids

LEMMA SweepStable ==
    ASSUME VmInv, NEW v \in Vms, Sweep(v)
    PROVE  Stable /\ \A D : StableTimers(D)
BY DEF VmInv, VmTypeOK, Sweep, Stable, StableTimers, Unref, ids

\* Settling a timer disturbs only a tick that still has to serve it.
LEMMA SettleStable ==
    ASSUME VmInv, NEW v \in Vms, NEW id, NEW succeeded \in BOOLEAN, NEW now \in Nat,
           SettleTimer(v, id, succeeded, now)
    PROVE  Stable /\ \A D : id \notin D => StableTimers(D)
<1>1. nextTimer \in Nat /\ nextFn \in Nat /\ clock \in Nat /\ \A t \in timers : t \in TimerRecord
  BY DEF VmInv, VmTypeOK
<1>2. \A t \in timers' : t.id # id => t \in timers
  <2>. SUFFICES ASSUME NEW t \in timers', t.id # id PROVE t \in timers
    OBVIOUS
  <2>1. PICK u \in timers :
          t = IF u.vm = v /\ u.id = id THEN Settled(u, succeeded, now) ELSE u
    BY DEF SettleTimer
  <2>. QED  BY <1>1, <2>1, SettledFacts
<1>. QED  BY <1>1, <1>2 DEF SettleTimer, Stable, StableTimers, ids

LEMMA ElapseStable ==
    ASSUME VmInv, Elapse
    PROVE  Stable /\ \A D : StableTimers(D)
BY DEF VmInv, VmTypeOK, Elapse, Stable, StableTimers, ids

-----------------------------------------------------------------------------
(* The stack after a step: n frames stay, new ones are on top of them. *)

LEMMA StackStep ==
    ASSUME RuntimeInv, VmInv', Stable, stack' \in Seq(Frame),
           NEW n \in 0 .. Len(stack),
           \A i \in 1 .. n : i \in DOMAIN stack' /\ stack'[i] = stack[i],
           \A i \in 1 .. n : \A f :
               f = stack[i] /\ f.type = "tick" => StableTimers(f.todo),
           \A i \in DOMAIN stack' : i > n =>
               \A f : f = stack'[i] =>
                   Good(i, f)' /\ ~(f.type = "lua" /\ f.origin = "timer")
    PROVE  StackInv'
<1>. USE DEF RuntimeInv, StackInv
<1>1. /\ DOMAIN stack = 1 .. Len(stack) /\ Len(stack) \in Nat
      /\ \A i \in 1 .. Len(stack) : stack[i] \in Frame
  BY StackFacts
<1>2. DOMAIN stack' \subseteq Nat \ {0}
  BY LenProperties
<1>3. ASSUME NEW i \in DOMAIN stack', NEW f, f = stack'[i]
      PROVE  Good(i, f)'
  <2>1. CASE i > n
    BY <1>3, <2>1
  <2>2. CASE i <= n
    <3>1. i \in 1 .. n /\ i \in DOMAIN stack /\ f = stack[i] /\ f \in Frame
      BY <1>1, <1>2, <1>3, <2>2
    <3>2. Good(i, f)
      BY <3>1 DEF StackGood
    <3>3. f.type = "tick" => StableTimers(f.todo)
      BY <3>1
    <3>. QED  BY <1>2, <3>1, <3>2, <3>3, StableGood
  <2>. QED  BY <1>1, <1>2, <2>1, <2>2
<1>4. StackGood'
  BY <1>3 DEF StackGood
<1>5. TimerNest'
  <2>. SUFFICES ASSUME NEW i \in DOMAIN stack', stack'[i].type = "lua",
                       stack'[i].origin = "timer"
                PROVE  i = 2 /\ stack'[1].type = "tick"
                       /\ stack'[i].id \notin stack'[1].todo
    BY DEF TimerNest
  <2>1. i \in 1 .. n /\ i \in DOMAIN stack /\ stack'[i] = stack[i]
    BY <1>1, <1>2
  <2>2. i = 2 /\ stack[1].type = "tick" /\ stack[i].id \notin stack[1].todo
    BY <2>1 DEF TimerNest
  <2>. QED  BY <2>1, <2>2
<1>. QED  BY <1>4, <1>5

\* A call made from the top of the stack.
LEMMA PushInv ==
    ASSUME RuntimeInv, VmInv', Stable, \A D : StableTimers(D),
           NEW g \in Frame, ~(g.type = "lua" /\ g.origin = "timer"),
           stack' = Append(stack, g), NEW m, m = Len(stack) + 1, Good(m, g)'
    PROVE  StackInv'
<1>1. /\ stack' \in Seq(Frame) /\ Len(stack) \in Nat
      /\ DOMAIN stack' = 1 .. Len(stack) + 1
      /\ \A i \in 1 .. Len(stack) : stack'[i] = stack[i]
      /\ stack'[Len(stack) + 1] = g
  BY AppendFacts DEF RuntimeInv, StackInv
<1>2. ASSUME NEW i \in DOMAIN stack', i > Len(stack), NEW f, f = stack'[i]
      PROVE  Good(i, f)' /\ ~(f.type = "lua" /\ f.origin = "timer")
  <2>1. i = m /\ f = g
    BY <1>1, <1>2
  <2>. QED  BY <2>1
<1>3. /\ Len(stack) \in 0 .. Len(stack)
      /\ \A i \in 1 .. Len(stack) : i \in DOMAIN stack' /\ stack'[i] = stack[i]
  BY <1>1
<1>. QED  BY <1>1, <1>2, <1>3, StackStep

\* A walk that goes on.
LEMMA ReplaceInv ==
    ASSUME RuntimeInv, VmInv', Stable, \A D : StableTimers(D), stack # <<>>,
           NEW g \in Frame, ~(g.type = "lua" /\ g.origin = "timer"),
           stack' = Append(Below, g), NEW m, m = Len(stack), Good(m, g)'
    PROVE  StackInv'
<1>1. /\ Below \in Seq(Frame) /\ Len(Below) = Len(stack) - 1
      /\ \A i \in 1 .. Len(stack) - 1 : Below[i] = stack[i]
      /\ Len(stack) \in Nat /\ Len(stack) >= 1
  BY BelowFacts, StackFacts DEF RuntimeInv, StackInv
<1>2. /\ stack' \in Seq(Frame)
      /\ DOMAIN stack' = 1 .. Len(stack)
      /\ \A i \in 1 .. Len(stack) - 1 : stack'[i] = stack[i]
      /\ stack'[Len(stack)] = g
  BY <1>1, AppendFacts
<1>3. ASSUME NEW i \in DOMAIN stack', i > Len(stack) - 1, NEW f, f = stack'[i]
      PROVE  Good(i, f)' /\ ~(f.type = "lua" /\ f.origin = "timer")
  <2>1. i = m /\ f = g
    BY <1>1, <1>2, <1>3
  <2>. QED  BY <2>1
<1>4. /\ Len(stack) - 1 \in 0 .. Len(stack)
      /\ \A i \in 1 .. Len(stack) - 1 : i \in DOMAIN stack' /\ stack'[i] = stack[i]
  BY <1>1, <1>2
<1>. QED  BY <1>2, <1>3, <1>4, StackStep

\* A call that returns.
LEMMA PopInv ==
    ASSUME RuntimeInv, VmInv', Stable, stack # <<>>, stack' = Below,
           \A i \in 1 .. Len(stack) - 1 : \A f :
               f = stack[i] /\ f.type = "tick" => StableTimers(f.todo)
    PROVE  StackInv'
<1>1. /\ Below \in Seq(Frame) /\ DOMAIN Below = 1 .. Len(stack) - 1
      /\ \A i \in 1 .. Len(stack) - 1 : Below[i] = stack[i]
      /\ Len(stack) \in Nat /\ Len(stack) >= 1
  BY BelowFacts, StackFacts DEF RuntimeInv, StackInv
<1>2. /\ Len(stack) - 1 \in 0 .. Len(stack)
      /\ \A i \in 1 .. Len(stack) - 1 : i \in DOMAIN stack' /\ stack'[i] = stack[i]
      /\ \A i \in DOMAIN stack' : ~(i > Len(stack) - 1)
  BY <1>1
<1>. QED  BY <1>1, <1>2, StackStep

\* The outermost call returns, whatever happens to the registry.
LEMMA EmptyStackInv ==
    ASSUME stack' = <<>>
    PROVE  StackInv'
<1>1. stack' \in Seq(Frame) /\ DOMAIN stack' = {}
  BY EmptySeq
<1>. QED  BY <1>1 DEF StackInv, StackGood, TimerNest

LEMMA PopLast ==
    ASSUME StackInv, stack # <<>>, Len(stack) = 1, stack' = Below
    PROVE  StackInv'
<1>1. Below \in Seq(Frame) /\ Len(Below) = 0
  BY BelowFacts, StackFacts DEF StackInv
<1>2. stack' = <<>>
  BY <1>1, EmptySeq
<1>. QED  BY <1>2, EmptyStackInv

-----------------------------------------------------------------------------
(* Frames. *)

LEMMA TopFacts ==
    ASSUME RuntimeInv, stack # <<>>
    PROVE  /\ Len(stack) \in Nat /\ Len(stack) >= 1 /\ Len(stack) \in DOMAIN stack
           /\ Top = stack[Len(stack)] /\ Top \in Frame
           /\ Good(Len(stack), Top)
           /\ Top.type = "tick" => Len(stack) = 1
<1>1. /\ Len(stack) \in Nat /\ Len(stack) >= 1 /\ Len(stack) \in DOMAIN stack
      /\ Top = stack[Len(stack)] /\ Top \in Frame
  BY StackFacts, BelowFacts DEF RuntimeInv, StackInv
<1>2. Good(Len(stack), Top)
  BY <1>1 DEF RuntimeInv, StackInv, StackGood
<1>. QED  BY <1>1, <1>2 DEF Good

LEMMA DispatchFrameFacts ==
    ASSUME VmInv, NEW kind \in {"event", "command"}, NEW key \in Keys,
           NEW post \in BOOLEAN
    PROVE  /\ DispatchFrame(kind, key, post) \in Frame
           /\ DispatchFrame(kind, key, post).type = "dispatch"
           /\ \A i : Good(i, DispatchFrame(kind, key, post))
<1>. DEFINE f == DispatchFrame(kind, key, post)
<1>1. /\ f \in [type : {"dispatch"}, kind : {"event", "command"}, key : Keys,
                post : BOOLEAN, at : Nat, todo : SUBSET RegRecord]
      /\ f.type = "dispatch" /\ f.at = 0 /\ f.todo = {}
  BY DEF DispatchFrame
<1>. HIDE DEF f
<1>2. f \in Frame
  BY <1>1 DEF Frame
<1>3. 0 <= Len(scripts)
  BY LenProperties DEF VmInv, VmTypeOK
<1>4. \A i : Good(i, f)
  BY <1>1, <1>3 DEF Good
<1>. QED  BY <1>1, <1>2, <1>4 DEF f

LEMMA LuaFrameFacts ==
    ASSUME NEW v \in Vms, NEW id \in Nat, NEW want \in Nat, NEW fn \in Nat,
           NEW origin \in {"event", "command", "timer", "startup", "unload"}
    PROVE  /\ LuaFrame(v, origin, id, want, fn) \in Frame
           /\ LuaFrame(v, origin, id, want, fn).type = "lua"
           /\ LuaFrame(v, origin, id, want, fn).origin = origin
           /\ LuaFrame(v, origin, id, want, fn).vm = v
           /\ LuaFrame(v, origin, id, want, fn).id = id
           /\ LuaFrame(v, origin, id, want, fn).want = want
           /\ LuaFrame(v, origin, id, want, fn).fn = fn
<1>. DEFINE f == LuaFrame(v, origin, id, want, fn)
<1>1. f \in [type : {"lua"}, vm : Vms, id : Nat, want : Nat, fn : Nat,
             origin : {"event", "command", "timer", "startup", "unload"}]
  BY DEF LuaFrame
<1>2. f.type = "lua" /\ f.origin = origin /\ f.vm = v /\ f.id = id
      /\ f.want = want /\ f.fn = fn
  BY DEF LuaFrame
<1>. HIDE DEF f
<1>3. f \in Frame
  BY <1>1 DEF Frame
<1>. QED  BY <1>2, <1>3 DEF f

LEMMA DispatchTop ==
    ASSUME RuntimeInv, TopIs("dispatch")
    PROVE  Top \in [type : {"dispatch"}, kind : {"event", "command"}, key : Keys,
                    post : BOOLEAN, at : Nat, todo : SUBSET RegRecord]
BY TopFacts DEF TopIs, Frame

LEMMA TickTop ==
    ASSUME RuntimeInv, TopIs("tick")
    PROVE  /\ Top \in [type : {"tick"}, now : Nat, at : Nat, todo : SUBSET Nat]
           /\ Len(stack) = 1 /\ Good(1, Top) /\ Top.now \in 0 .. clock
<1>1. /\ Top \in [type : {"tick"}, now : Nat, at : Nat, todo : SUBSET Nat]
      /\ Len(stack) = 1 /\ Good(1, Top)
  BY TopFacts DEF TopIs, Frame
<1>2. Top.now <= clock /\ clock \in Nat
  BY <1>1 DEF Good, RuntimeInv, VmInv, VmTypeOK
<1>. QED  BY <1>1, <1>2

LEMMA LuaTop ==
    ASSUME RuntimeInv, TopIs("lua")
    PROVE  /\ Top \in [type : {"lua"}, vm : Vms, id : Nat, want : Nat, fn : Nat,
                       origin : {"event", "command", "timer", "startup", "unload"}]
           /\ Top.vm \in mapped
           /\ Top.origin \in {"startup", "unload"} => Len(stack) = 1
           /\ Top.origin = "timer" =>
                /\ Len(stack) = 2 /\ stack[1].type = "tick"
                /\ Top.id \notin stack[1].todo
<1>1. Top \in [type : {"lua"}, vm : Vms, id : Nat, want : Nat, fn : Nat,
               origin : {"event", "command", "timer", "startup", "unload"}]
  BY TopFacts DEF TopIs, Frame
<1>2. Top.vm \in mapped /\ (Top.origin \in {"startup", "unload"} => Len(stack) = 1)
  BY <1>1, TopFacts DEF TopIs, Good
<1>3. Top.origin = "timer" =>
        /\ Len(stack) = 2 /\ stack[1].type = "tick" /\ Top.id \notin stack[1].todo
  BY <1>1, TopFacts DEF TopIs, RuntimeInv, StackInv, TimerNest
<1>. QED  BY <1>1, <1>2, <1>3

\* The tick below a timer callback.
LEMMA TickBelow ==
    ASSUME RuntimeInv, TopIs("lua"), Top.origin = "timer"
    PROVE  stack[1].now \in 0 .. clock
<1>1. 1 \in DOMAIN stack /\ stack[1].type = "tick" /\ stack[1] \in Frame
  BY LuaTop, StackFacts DEF RuntimeInv, StackInv
<1>2. Good(1, stack[1])
  BY <1>1 DEF RuntimeInv, StackInv, StackGood
<1>3. stack[1].now \in Nat /\ stack[1].now <= clock /\ clock \in Nat
  BY <1>1, <1>2 DEF Frame, Good, RuntimeInv, VmInv, VmTypeOK
<1>. QED  BY <1>3

-----------------------------------------------------------------------------
(* Every step of the runtime is a step of the registry, or none. *)

LEMMA ScriptsAt ==
    ASSUME VmInv, NEW i \in DOMAIN scripts
    PROVE  scripts[i] \in Vms /\ scripts[i] \in Loaded /\ scripts[i] \in mapped
<1>1. scripts[i] \in Vms /\ scripts[i] \in Loaded
  BY ElementOfSeq, LenProperties DEF VmInv, VmTypeOK, Loaded, ToSet
<1>. QED  BY <1>1 DEF VmInv, RegistryConsistent

LEMMA StepImplementsVm ==
    ASSUME RuntimeInv, [Next]_vars
    PROVE  [VmNext]_vmVars
<1>1. CASE Host
  <2>1. ASSUME NEW v \in Vms, HostLoad(v) \/ HostUnload(v) \/ HostUnloadCallback(v)
        PROVE  [VmNext]_vmVars
    BY <2>1 DEF HostLoad, HostUnload, HostUnloadCallback, VmNext, Manage
  <2>. QED  BY <1>1, <2>1 DEF Host, HostEvent, HostCommand, HostTick, HostShutdown, VmNext
<1>2. CASE TickAdvance
  <2>1. CASE Top.at = 0
    BY <1>2, <2>1 DEF TickAdvance
  <2>2. CASE Top.at # 0
    <3>1. Top.at \in DOMAIN scripts
      BY <1>2, <2>2, TickTop, LenProperties DEF TickAdvance, Good, RuntimeInv, VmInv, VmTypeOK
    <3>2. scripts[Top.at] \in Vms
      BY <3>1, ScriptsAt DEF RuntimeInv
    <3>. QED  BY <1>2, <2>2, <3>2 DEF TickAdvance, VmNext, Manage
  <2>. QED  BY <2>1, <2>2
<1>3. CASE TickCall
  <2>. DEFINE v == scripts[Top.at]
              id == FirstId(Top.todo)
              pending == {t \in TimersOf(v) : t.id = id /\ ~t.cancelled}
  <2>1. UNCHANGED vmVars \/ (pending # {} /\ SettleTimer(v, id, FALSE, Top.now))
    BY <1>3 DEF TickCall
  <2>2. Top.at \in DOMAIN scripts
    BY <1>3, TickTop DEF TickCall, Good
  <2>3. v \in Vms
    BY <2>2, ScriptsAt DEF RuntimeInv
  <2>4. ASSUME pending # {}, SettleTimer(v, id, FALSE, Top.now)
        PROVE  VmNext
    <3>1. PICK t \in TimersOf(v) : t.id = id
      BY <2>4
    <3>2. Top.now \in 0 .. clock
      BY <1>3, TickTop DEF TickCall
    <3>. HIDE DEF v, id
    <3>3. Manage(v)
      BY <2>4, <3>1, <3>2 DEF Manage
    <3>. QED  BY <2>3, <3>3 DEF VmNext
  <2>. QED  BY <2>1, <2>4
<1>4. CASE LuaService
  BY <1>4, LuaTop DEF LuaService, VmNext
<1>5. CASE LuaReturn
  <2>1. CASE Top.origin \in {"startup", "unload"}
    BY <1>5, <2>1, LuaTop DEF LuaReturn, VmNext, Manage
  <2>2. CASE Top.origin = "timer"
    <3>. DEFINE now == stack[1].now
                v == Top.vm
                id == Top.id
    <3>1. SettleTimer(v, id, TRUE, now) /\ now \in 0 .. clock /\ v \in Vms
      <4>1. Len(stack) = 2 /\ v \in Vms
        BY <1>5, <2>2, LuaTop DEF LuaReturn
      <4>2. now \in 0 .. clock
        BY <1>5, <2>2, TickBelow DEF LuaReturn
      <4>3. SettleTimer(Top.vm, Top.id, TRUE, stack[Len(stack) - 1].now)
        BY <1>5, <2>2 DEF LuaReturn
      <4>4. stack[Len(stack) - 1] = stack[1]
        BY <4>1
      <4>. QED  BY <4>1, <4>2, <4>3, <4>4
    <3>. HIDE DEF now, v, id
    <3>2. CASE \E t \in TimersOf(v) : t.id = id
      BY <3>1, <3>2 DEF VmNext, Manage
    <3>3. CASE ~\E t \in TimersOf(v) : t.id = id
      <4>1. timers' = timers
        BY <3>1, <3>3 DEF SettleTimer, TimersOf
      <4>. QED  BY <3>1, <4>1 DEF SettleTimer, vmVars, ids
    <3>. QED  BY <3>2, <3>3
  <2>3. CASE Top.origin \notin {"startup", "unload", "timer"}
    BY <1>5, <2>3, LuaTop DEF LuaReturn
  <2>. QED  BY <2>1, <2>2, <2>3
<1>6. CASE LuaThrow
  <2>1. CASE Top.origin = "startup"
    BY <1>6, <2>1, LuaTop DEF LuaThrow, VmNext, Manage
  <2>2. CASE Top.origin # "startup"
    BY <1>6, <2>2, LuaTop DEF LuaThrow, VmNext, Manage
  <2>. QED  BY <2>1, <2>2
<1>. QED  BY <1>1, <1>2, <1>3, <1>4, <1>5, <1>6
          DEF Next, Runtime, Plugin, DispatchAdvance, DispatchCall, vars, vmVars

-----------------------------------------------------------------------------
(* One lemma per group of actions: the frames stay good. *)

LEMMA HostInv ==
    ASSUME RuntimeInv, VmInv', Host
    PROVE  StackInv'
<1>. USE DEF RuntimeInv
<1>0. VmInv /\ stack \in Seq(Frame) /\ Len(stack) \in Nat
  BY StackFacts DEF StackInv
<1>1. ASSUME NEW key \in Keys, NEW post \in BOOLEAN, HostEvent(key, post)
      PROVE  StackInv'
  <2>1. PICK g \in Frame : g = DispatchFrame("event", key, post)
    BY <1>0, DispatchFrameFacts
  <2>2. PICK m \in Nat : m = Len(stack) + 1
    BY <1>0
  <2>3. g.type = "dispatch" /\ Good(m, g)
    BY <1>0, <2>1, DispatchFrameFacts
  <2>4. Stable /\ \A D : StableTimers(D)
    BY <1>0, <1>1, UnchangedStable DEF HostEvent
  <2>5. Good(m, g)'
    BY <1>0, <2>3, <2>4, StableGood
  <2>. QED  BY <1>1, <2>1, <2>2, <2>3, <2>4, <2>5, PushInv DEF HostEvent
<1>2. ASSUME NEW key \in Keys, HostCommand(key)
      PROVE  StackInv'
  <2>1. PICK g \in Frame : g = DispatchFrame("command", key, FALSE)
    BY <1>0, DispatchFrameFacts
  <2>2. PICK h \in Frame : h = DispatchFrame("event", ClientCommand, FALSE)
    BY <1>0, DispatchFrameFacts, RuntimeAssumption
  <2>3. g.type = "dispatch" /\ \A i : Good(i, g)
    BY <1>0, <2>1, DispatchFrameFacts
  <2>4. h.type = "dispatch" /\ \A i : Good(i, h)
    BY <1>0, <2>2, DispatchFrameFacts, RuntimeAssumption
  <2>5. Stable /\ \A D : StableTimers(D)
    BY <1>0, <1>2, UnchangedStable DEF HostCommand
  <2>6. \A i \in Nat : Good(i, g)' /\ Good(i, h)'
    BY <1>0, <2>3, <2>4, <2>5, StableGood
  <2>7. /\ <<g, h>> \in Seq(Frame) /\ Len(<<g, h>>) = 2
        /\ <<g, h>>[1] = g /\ <<g, h>>[2] = h
    OBVIOUS
  <2>8. stack' = stack \o <<g, h>>
    BY <1>2, <2>1, <2>2 DEF HostCommand
  <2>9. /\ stack' \in Seq(Frame) /\ Len(stack') = Len(stack) + 2
        /\ \A i \in 1 .. Len(stack) + 2 :
             stack'[i] = IF i <= Len(stack) THEN stack[i] ELSE <<g, h>>[i - Len(stack)]
    BY <1>0, <2>7, <2>8, ConcatProperties
  <2>10. DOMAIN stack' = 1 .. Len(stack) + 2
    BY <2>9, LenProperties
  <2>11. ASSUME NEW i \in DOMAIN stack', i > Len(stack), NEW f, f = stack'[i]
         PROVE  Good(i, f)' /\ ~(f.type = "lua" /\ f.origin = "timer")
    <3>1. i - Len(stack) \in {1, 2} /\ i \in Nat
      BY <1>0, <2>10, <2>11
    <3>2. f = g \/ f = h
      BY <1>0, <2>7, <2>9, <2>10, <2>11, <3>1
    <3>. QED  BY <2>3, <2>4, <2>6, <3>1, <3>2
  <2>12. /\ Len(stack) \in 0 .. Len(stack)
         /\ \A i \in 1 .. Len(stack) : i \in DOMAIN stack' /\ stack'[i] = stack[i]
    BY <1>0, <2>9, <2>10
  <2>. QED  BY <2>5, <2>9, <2>11, <2>12, StackStep
<1>3. CASE HostTick
  <2>1. TickFrame \in [type : {"tick"}, now : Nat, at : Nat, todo : SUBSET Nat]
    BY <1>0 DEF TickFrame, VmInv, VmTypeOK
  <2>2. PICK g \in Frame : g = TickFrame
    BY <2>1 DEF Frame
  <2>3. g.type = "tick" /\ g.at = 0 /\ g.todo = {} /\ g.now = clock
    BY <2>2 DEF TickFrame
  <2>4. clock <= clock /\ 0 <= Len(scripts)
    BY <1>0, LenProperties DEF VmInv, VmTypeOK
  <2>5. Good(1, g)
    BY <2>3, <2>4 DEF Good
  <2>6. Stable /\ \A D : StableTimers(D)
    BY <1>0, <1>3, UnchangedStable DEF HostTick
  <2>7. Good(1, g)'
    BY <1>0, <2>5, <2>6, StableGood
  <2>8. stack = <<>> /\ Len(stack) = 0
    BY <1>3, EmptySeq DEF HostTick, Idle
  <2>9. stack' = Append(stack, g) /\ 1 = Len(stack) + 1
    BY <1>3, <2>2, <2>8 DEF HostTick
  <2>. QED  BY <2>3, <2>6, <2>7, <2>9, PushInv
<1>4. ASSUME NEW v \in Vms, HostLoad(v)
      PROVE  StackInv'
  <2>1. PICK g \in Frame : g = LuaFrame(v, "startup", 0, 0, 0)
    BY LuaFrameFacts
  <2>2. g.type = "lua" /\ g.origin = "startup" /\ g.vm = v
    BY <2>1, LuaFrameFacts
  <2>3. v \in mapped'
    BY <1>4 DEF HostLoad, CreateState
  <2>4. Good(1, g)'
    BY <2>2, <2>3 DEF Good
  <2>5. Stable /\ \A D : StableTimers(D)
    BY <1>0, <1>4 DEF HostLoad, CreateState, Stable, StableTimers, VmInv, VmTypeOK, ids
  <2>6. stack = <<>> /\ Len(stack) = 0
    BY <1>4, EmptySeq DEF HostLoad, Idle
  <2>7. stack' = Append(stack, g) /\ 1 = Len(stack) + 1
    BY <1>4, <2>1, <2>6 DEF HostLoad
  <2>. QED  BY <2>2, <2>4, <2>5, <2>7, PushInv
<1>5. ASSUME NEW v \in Vms, HostUnloadCallback(v)
      PROVE  StackInv'
  <2>1. PICK g \in Frame : g = LuaFrame(v, "unload", 0, 0, 0)
    BY LuaFrameFacts
  <2>2. g.type = "lua" /\ g.origin = "unload" /\ g.vm = v
    BY <2>1, LuaFrameFacts
  <2>3. v \in mapped'
    BY <1>0, <1>5 DEF HostUnloadCallback, VmInv, RegistryConsistent, vmVars
  <2>4. Good(1, g)'
    BY <2>2, <2>3 DEF Good
  <2>5. Stable /\ \A D : StableTimers(D)
    BY <1>0, <1>5, UnchangedStable DEF HostUnloadCallback
  <2>6. stack = <<>> /\ Len(stack) = 0
    BY <1>5, EmptySeq DEF HostUnloadCallback, Idle
  <2>7. stack' = Append(stack, g) /\ 1 = Len(stack) + 1
    BY <1>5, <2>1, <2>6 DEF HostUnloadCallback
  <2>. QED  BY <2>2, <2>4, <2>5, <2>7, PushInv
<1>6. CASE HostShutdown \/ \E v \in Vms : HostUnload(v)
  BY <1>6, EmptyStackInv DEF HostShutdown, HostUnload, Idle
<1>7. CASE Elapse /\ UNCHANGED stack
  <2>1. Stable /\ \A D : StableTimers(D)
    BY <1>0, <1>7, ElapseStable
  <2>2. DOMAIN stack = 1 .. Len(stack)
    BY <1>0, StackFacts
  <2>3. \A i \in 1 .. Len(stack) : i \in DOMAIN stack' /\ stack'[i] = stack[i]
    BY <1>7, <2>2
  <2>4. /\ Len(stack) \in 0 .. Len(stack) /\ stack' \in Seq(Frame)
        /\ \A i \in DOMAIN stack' : ~(i > Len(stack))
    BY <1>0, <1>7, <2>2
  <2>. QED  BY <2>1, <2>3, <2>4, StackStep
<1>. QED  BY <1>1, <1>2, <1>3, <1>4, <1>5, <1>6, <1>7 DEF Host

LEMMA DispatchAdvanceInv ==
    ASSUME RuntimeInv, VmInv', DispatchAdvance
    PROVE  StackInv'
<1>0. /\ VmInv /\ stack # <<>> /\ TopIs("dispatch") /\ Len(stack) \in Nat
      /\ Len(scripts) \in Nat /\ DOMAIN scripts = 1 .. Len(scripts)
  BY StackFacts, LenProperties
  DEF DispatchAdvance, TopIs, RuntimeInv, StackInv, VmInv, VmTypeOK
<1>1. Stable /\ \A D : StableTimers(D)
  BY <1>0, UnchangedStable DEF DispatchAdvance
<1>2. CASE Top.at < Len(scripts)
  <2>. DEFINE next == [Top EXCEPT !.at = @ + 1,
                                  !.todo = Snapshot(scripts[Top.at + 1], Top)]
  <2>1. Snapshot(scripts[Top.at + 1], Top) \subseteq RegRecord
    BY <1>0 DEF Snapshot, RegsOf, VmInv, VmTypeOK
  <2>2. next \in Frame
    BY <1>0, <2>1, DispatchTop, AdvancedDispatch
  <2>3. /\ next.type = "dispatch" /\ next.at = Top.at + 1
        /\ next.kind = Top.kind
        /\ next.todo = Snapshot(scripts[Top.at + 1], Top)
    BY <1>0, DispatchTop
  <2>4. Top.at \in Nat
    BY <1>0, DispatchTop
  <2>. PICK g \in Frame : g = next
    BY <2>2
  <2>5. g.at <= Len(scripts) /\ g.at \in DOMAIN scripts
    BY <1>0, <1>2, <2>3, <2>4
  <2>6. \A x \in g.todo : x.vm = scripts[g.at] /\ x.kind = g.kind /\ x \in regs
    BY <2>3 DEF Snapshot, RegsOf
  <2>. HIDE DEF next
  <2>11. \A x \in g.todo : x.fn < nextFn /\ NoOlder(slots[x.vm][x.ref], x.fn)
    BY <1>0, <2>6 DEF VmInv, VmTypeOK, RegRecord, Numbered, OwnsItsSlot, NoOlder
  <2>7. \A m : Good(m, g)
    BY <2>3, <2>5, <2>6, <2>11 DEF Good
  <2>8. \A m \in Nat : Good(m, g)'
    BY <1>0, <1>1, <2>3, <2>7, StableGood
  <2>9. stack' = Append(Below, g)
    BY <1>2 DEF DispatchAdvance, next
  <2>10. PICK m \in Nat : m = Len(stack)
    BY <1>0
  <2>. QED  BY <1>0, <1>1, <2>3, <2>8, <2>9, <2>10, ReplaceInv
<1>3. CASE ~(Top.at < Len(scripts))
  BY <1>0, <1>1, <1>3, PopInv DEF DispatchAdvance
<1>. QED  BY <1>2, <1>3

\* The record a dispatch calls is one it copied.
LEMMA DispatchFirst ==
    ASSUME RuntimeInv, TopIs("dispatch"), Top.todo # {}
    PROVE  /\ First(Top.todo) \in Top.todo /\ First(Top.todo) \in RegRecord
           /\ \A x \in Top.todo :
                /\ Top.at \in DOMAIN scripts /\ x.vm = scripts[Top.at]
                /\ x.kind = Top.kind
                /\ x.kind = "command" => x \in regs \/ x.vm \in disabled
                /\ x.vm \in mapped /\ x.vm \in Vms
<1>1. Top.todo \subseteq RegRecord /\ stack # <<>>
  BY DispatchTop DEF TopIs
<1>2. First(Top.todo) \in Top.todo
  BY <1>1, FirstFacts DEF RegRecord
<1>3. \A x \in Top.todo :
        /\ Top.at \in DOMAIN scripts /\ x.vm = scripts[Top.at]
        /\ x.kind = Top.kind
        /\ x.kind = "command" => x \in regs \/ x.vm \in disabled
  BY <1>1, TopFacts DEF TopIs, Good
<1>. QED  BY <1>1, <1>2, <1>3, ScriptsAt DEF RuntimeInv

\* What a dispatch calls for a command is that command's function.
LEMMA DispatchCalls ==
    ASSUME RuntimeInv, TopIs("dispatch"), NEW x \in Top.todo,
           CanCall(x.vm, slots[x.vm][x.ref])
    PROVE  /\ slots[x.vm][x.ref] \in Nat
           /\ x \in regs => slots[x.vm][x.ref] = x.fn
           /\ x.kind = "command" => slots[x.vm][x.ref] = x.fn
           /\ slots[x.vm][x.ref] >= x.fn
<1>1. x \in RegRecord /\ x.vm \in Vms /\ x.ref \in Refs
  BY DispatchTop DEF RegRecord
<1>2. slots[x.vm][x.ref] \in Nat
  BY <1>1 DEF RuntimeInv, VmInv, VmTypeOK
<1>3. x \in regs => slots[x.vm][x.ref] = x.fn
  BY DEF RuntimeInv, VmInv, OwnsItsSlot
<1>4. x.kind = "command" => x \in regs
  BY DispatchFirst DEF CanCall
<1>5. slots[x.vm][x.ref] >= x.fn
  BY TopFacts DEF TopIs, Good, NoOlder, CanCall
<1>. QED  BY <1>2, <1>3, <1>4, <1>5

LEMMA DispatchCallInv ==
    ASSUME RuntimeInv, VmInv', DispatchCall
    PROVE  StackInv'
<1>0. /\ VmInv /\ stack # <<>> /\ TopIs("dispatch") /\ Top.todo # {}
      /\ Len(stack) \in Nat /\ Len(stack) >= 1
  BY StackFacts DEF DispatchCall, TopIs, RuntimeInv, StackInv
<1>1. Stable /\ \A D : StableTimers(D)
  BY <1>0, UnchangedStable DEF DispatchCall
<1>. PICK x \in RegRecord : x = First(Top.todo)
  BY <1>0, DispatchFirst
<1>. DEFINE fn == slots[x.vm][x.ref]
            left == [Top EXCEPT !.todo = @ \ {x}]
<1>2. /\ left \in Frame /\ left.type = "dispatch" /\ left.at = Top.at
      /\ left.kind = Top.kind /\ left.todo = Top.todo \ {x}
  BY <1>0, DispatchTop DEF Frame
<1>. PICK m \in Nat : m = Len(stack)
  BY <1>0
<1>3. Good(m, Top)
  BY <1>0, TopFacts
<1>. PICK g \in Frame : g = left
  BY <1>2
<1>4. g.type = "dispatch" /\ Good(m, g)
  BY <1>0, <1>2, <1>3 DEF Good, TopIs
<1>5. Good(m, g)'
  BY <1>0, <1>1, <1>4, StableGood
<1>6. stack' = IF CanCall(x.vm, fn)
               THEN Append(Append(Below, g), LuaFrame(x.vm, x.kind, x.id, x.fn, fn))
               ELSE Append(Below, g)
  BY DEF DispatchCall
<1>. HIDE DEF left
<1>7. CASE ~CanCall(x.vm, fn)
  BY <1>0, <1>1, <1>4, <1>5, <1>6, <1>7, ReplaceInv
<1>8. CASE CanCall(x.vm, fn)
  <2>1. fn \in Nat /\ (x.kind = "command" => fn = x.fn) /\ fn >= x.fn
    BY <1>0, <1>8, DispatchFirst, DispatchCalls
  <2>2. x.vm \in Vms /\ x.id \in Nat /\ x.fn \in Nat /\ x.kind \in {"event", "command"} /\ x.vm \in mapped
    BY <1>0, DispatchFirst DEF RegRecord
  <2>3. PICK n \in Nat : n = fn
    BY <2>1
  <2>4. PICK h \in Frame : h = LuaFrame(x.vm, x.kind, x.id, x.fn, n)
    BY <2>2 DEF LuaFrame, Frame
  <2>5. /\ h.type = "lua" /\ h.vm = x.vm /\ h.origin = x.kind /\ h.want = x.fn
        /\ h.fn = n
    BY <2>4 DEF LuaFrame
  <2>6. \A i : Good(i, h)
    BY <2>1, <2>2, <2>3, <2>5 DEF Good
  <2>7. \A i \in Nat : Good(i, h)'
    BY <1>0, <1>1, <2>5, <2>6, StableGood
  <2>8. stack' = Append(Append(Below, g), h)
    BY <1>6, <1>8, <2>3, <2>4
  <2>9. /\ Below \in Seq(Frame) /\ Len(Below) = m - 1
        /\ \A i \in 1 .. m - 1 : Below[i] = stack[i]
    BY <1>0, BelowFacts DEF RuntimeInv, StackInv
  <2>10. /\ Append(Below, g) \in Seq(Frame)
         /\ \A i \in 1 .. m - 1 : Append(Below, g)[i] = stack[i]
         /\ Append(Below, g)[m] = g
         /\ Len(Append(Below, g)) = m
    BY <1>0, <2>9, AppendFacts, AppendProperties
  <2>11. /\ stack' \in Seq(Frame) /\ DOMAIN stack' = 1 .. m + 1
         /\ \A i \in 1 .. m - 1 : stack'[i] = stack[i]
         /\ stack'[m] = g /\ stack'[m + 1] = h
    BY <1>0, <2>8, <2>10, AppendFacts
  <2>12. ASSUME NEW i \in DOMAIN stack', i > m - 1, NEW f, f = stack'[i]
         PROVE  Good(i, f)' /\ ~(f.type = "lua" /\ f.origin = "timer")
    <3>1. (i = m /\ f = g) \/ (i = m + 1 /\ f = h)
      BY <1>0, <2>11, <2>12
    <3>. QED  BY <1>4, <1>5, <2>2, <2>5, <2>7, <3>1
  <2>13. /\ m - 1 \in 0 .. Len(stack)
         /\ \A i \in 1 .. m - 1 : i \in DOMAIN stack' /\ stack'[i] = stack[i]
    BY <1>0, <2>11
  <2>. QED  BY <1>1, <2>11, <2>12, <2>13, StackStep
<1>. QED  BY <1>7, <1>8

LEMMA TickAdvanceInv ==
    ASSUME RuntimeInv, VmInv', TickAdvance
    PROVE  StackInv'
<1>0. /\ VmInv /\ stack # <<>> /\ TopIs("tick") /\ Len(stack) = 1
      /\ Len(scripts) \in Nat /\ DOMAIN scripts = 1 .. Len(scripts)
      /\ Top.at \in Nat /\ Top.at <= Len(scripts) /\ Top.now \in Nat
  BY TickTop, LenProperties DEF TickAdvance, TopIs, Good, RuntimeInv, VmInv, VmTypeOK
<1>1. Stable /\ \A D : StableTimers(D)
  <2>1. CASE Top.at = 0
    BY <1>0, <2>1, UnchangedStable DEF TickAdvance
  <2>2. CASE Top.at # 0
    <3>1. Top.at \in DOMAIN scripts
      BY <1>0, <2>2
    <3>2. scripts[Top.at] \in Vms /\ Sweep(scripts[Top.at])
      BY <1>0, <2>2, <3>1, ScriptsAt DEF TickAdvance
    <3>. QED  BY <1>0, <3>2, SweepStable
  <2>. QED  BY <2>1, <2>2
<1>2. CASE Top.at < Len(scripts)
  <2>. PICK v \in Vms : v = scripts[Top.at + 1]
    BY <1>0, <1>2, ScriptsAt
  <2>. DEFINE next == [Top EXCEPT !.at = @ + 1, !.todo = DueIds(v, Top.now)]
  <2>1. DueIds(v, Top.now) \in SUBSET Nat
    BY <1>0 DEF DueIds, TimersOf, VmInv, VmTypeOK, TimerRecord
  <2>2. next \in Frame
    BY <1>0, <2>1, TickTop, AdvancedTick
  <2>3. /\ next.type = "tick" /\ next.at = Top.at + 1 /\ next.now = Top.now
        /\ next.todo = DueIds(v, Top.now)
    BY <1>0, TickTop
  <2>. PICK g \in Frame : g = next
    BY <2>2
  <2>. HIDE DEF next
  <2>4. /\ g.at <= Len(scripts) /\ g.at \in DOMAIN scripts /\ v = scripts[g.at]
        /\ g.now <= clock
    BY <1>0, <1>2, <2>3, TickTop
  <2>5. ASSUME NEW id \in g.todo
        PROVE  /\ id < nextTimer
               /\ \A t \in TimersOf(v) : t.id = id /\ ~t.cancelled => t.due <= g.now
    <3>1. PICK u \in TimersOf(v) : u.id = id /\ u.due <= g.now
      BY <2>3 DEF DueIds
    <3>2. \A t \in TimersOf(v) : t.id = id => t = u
      BY <1>0, <3>1 DEF VmInv, Numbered, TimersOf
    <3>. QED  BY <1>0, <3>1, <3>2 DEF VmInv, Numbered, TimersOf
  <2>6. Good(1, g)
    BY <2>3, <2>4, <2>5 DEF Good
  <2>7. Good(1, g)'
    BY <1>0, <1>1, <2>6, StableGood
  <2>8. stack' = <<g>>
    BY <1>2 DEF TickAdvance, next
  <2>9. stack' \in Seq(Frame) /\ DOMAIN stack' = {1} /\ stack'[1] = g
    BY <2>8, ShortStacks
  <2>10. 0 \in 0 .. Len(stack) /\ 1 .. 0 = {}
    BY <1>0
  <2>. QED  BY <1>1, <2>3, <2>7, <2>9, <2>10, StackStep
<1>3. CASE ~(Top.at < Len(scripts))
  <2>. PICK g \in Frame : g = DispatchFrame("event", GameFrame, FALSE)
    BY <1>0, DispatchFrameFacts, RuntimeAssumption
  <2>1. g.type = "dispatch" /\ Good(1, g)
    BY <1>0, DispatchFrameFacts, RuntimeAssumption
  <2>2. Good(1, g)'
    BY <1>0, <1>1, <2>1, StableGood
  <2>3. stack' = <<g>>
    BY <1>3 DEF TickAdvance
  <2>4. stack' \in Seq(Frame) /\ DOMAIN stack' = {1} /\ stack'[1] = g
    BY <2>3, ShortStacks
  <2>5. 0 \in 0 .. Len(stack) /\ 1 .. 0 = {}
    BY <1>0
  <2>. QED  BY <1>1, <2>1, <2>2, <2>4, <2>5, StackStep
<1>. QED  BY <1>2, <1>3

\* A timer that tick starts is live, due and holds its own function.
LEMMA TickCalls ==
    ASSUME RuntimeInv, TopIs("tick"), NEW id \in Top.todo,
           NEW t \in TimersOf(scripts[Top.at]), t.id = id, ~t.cancelled
    PROVE  /\ slots[scripts[Top.at]][t.ref] = t.fn /\ t.fn \in Nat
           /\ t.due <= Top.now /\ t.due <= clock
<1>1. /\ Top.at \in DOMAIN scripts
      /\ \A u \in TimersOf(scripts[Top.at]) :
           u.id = id /\ ~u.cancelled => u.due <= Top.now
  BY TickTop DEF TopIs, Good
<1>2. slots[t.vm][t.ref] = t.fn /\ t.fn \in Nat /\ t.vm = scripts[Top.at]
  BY DEF RuntimeInv, VmInv, VmTypeOK, TimerRecord, OwnsItsSlot, TimersOf
<1>3. t.due <= Top.now
  BY <1>1
<1>4. t.due \in Nat /\ Top.now \in Nat /\ clock \in Nat /\ Top.now <= clock
  BY TickTop DEF RuntimeInv, VmInv, VmTypeOK, TimersOf, TimerRecord
<1>. QED  BY <1>2, <1>3, <1>4

LEMMA TickCallInv ==
    ASSUME RuntimeInv, VmInv', TickCall
    PROVE  StackInv'
<1>0. /\ VmInv /\ stack # <<>> /\ TopIs("tick") /\ Len(stack) = 1
      /\ Top.todo # {} /\ Top.todo \in SUBSET Nat /\ Good(1, Top)
  BY TickTop DEF TickCall, TopIs, RuntimeInv
<1>. PICK id \in Nat : id = FirstId(Top.todo) /\ id \in Top.todo
  BY <1>0, FirstIdFacts
<1>1. Top.at \in DOMAIN scripts
  BY <1>0 DEF Good, TopIs
<1>. PICK v \in Vms : v = scripts[Top.at] /\ v \in mapped
  BY <1>0, <1>1, ScriptsAt
<1>. DEFINE left == [Top EXCEPT !.todo = @ \ {id}]
            pending == {t \in TimersOf(v) : t.id = id /\ ~t.cancelled}
            fn == slots[v][First(pending).ref]
<1>2. /\ left \in [type : {"tick"}, now : Nat, at : Nat, todo : SUBSET Nat]
      /\ left.type = "tick" /\ left.at = Top.at /\ left.now = Top.now
      /\ left.todo = Top.todo \ {id}
  BY <1>0, TickTop
<1>. PICK g \in Frame : g = left
  BY <1>2 DEF Frame
<1>3. g.type = "tick" /\ id \notin g.todo /\ Good(1, g)
  BY <1>0, <1>2 DEF Good, TopIs
<1>4. \/ stack' = <<g>> /\ UNCHANGED vmVars
      \/ stack' = <<g>> /\ SettleTimer(v, id, FALSE, Top.now)
      \/ /\ pending # {}
         /\ stack' = Append(<<g>>, LuaFrame(v, "timer", id, First(pending).fn, fn))
         /\ UNCHANGED vmVars
  BY DEF TickCall
<1>5. 0 \in 0 .. Len(stack) /\ 1 .. 0 = {}
  BY <1>0
<1>6. CASE stack' = <<g>> /\ (UNCHANGED vmVars \/ SettleTimer(v, id, FALSE, Top.now))
  <2>1. Top.now \in Nat
    BY <1>0, TickTop
  <2>. PICK now \in Nat : now = Top.now
    BY <2>1
  <2>2. Stable /\ StableTimers(g.todo)
    BY <1>0, <1>3, <1>6, UnchangedStable, SettleStable
  <2>3. Good(1, g)'
    BY <1>0, <1>3, <2>2, StableGood
  <2>4. stack' \in Seq(Frame) /\ DOMAIN stack' = {1} /\ stack'[1] = g
    BY <1>6, ShortStacks
  <2>5. \A i \in DOMAIN stack' : \A f : f = stack'[i] =>
          Good(i, f)' /\ ~(f.type = "lua" /\ f.origin = "timer")
    BY <1>3, <2>3, <2>4
  <2>6. RuntimeInv /\ VmInv'
    OBVIOUS
  <2>. HIDE DEF left, pending, fn
  <2>. QED  BY <1>5, <2>2, <2>4, <2>5, <2>6, StackStep
<1>7. CASE /\ pending # {}
           /\ stack' = Append(<<g>>, LuaFrame(v, "timer", id, First(pending).fn, fn))
           /\ UNCHANGED vmVars
  <2>1. Stable /\ \A D : StableTimers(D)
    BY <1>0, <1>7, UnchangedStable
  <2>2. First(pending) \in pending
    <3>1. \A t \in pending : t.fn \in Nat
      BY <1>0 DEF VmInv, VmTypeOK, TimersOf, TimerRecord
    <3>. QED  BY <1>7, <3>1, FirstFacts
  <2>3. fn = First(pending).fn /\ fn \in Nat
    BY <1>0, <2>2, TickCalls
  <2>. PICK n \in Nat : n = fn
    BY <2>3
  <2>4. PICK h \in Frame : h = LuaFrame(v, "timer", id, n, n)
    BY DEF LuaFrame, Frame
  <2>5. /\ h.type = "lua" /\ h.vm = v /\ h.origin = "timer"
        /\ h.id = id /\ h.want = n /\ h.fn = n
    BY <2>4 DEF LuaFrame
  <2>. HIDE DEF pending, fn
  <2>6. Good(2, h)
    BY <2>5 DEF Good
  <2>7. Good(1, g)' /\ Good(2, h)'
    BY <1>0, <1>3, <2>1, <2>5, <2>6, StableGood
  <2>8. stack' = Append(<<g>>, h)
    BY <1>7, <2>3, <2>4
  <2>9. /\ stack' \in Seq(Frame) /\ DOMAIN stack' = {1, 2}
        /\ stack'[1] = g /\ stack'[2] = h
    BY <2>8, ShortStacks
  <2>10. StackGood'
    BY <2>7, <2>9 DEF StackGood
  <2>11. TimerNest'
    BY <1>3, <2>5, <2>9 DEF TimerNest
  <2>. QED  BY <2>9, <2>10, <2>11 DEF StackInv
<1>. QED  BY <1>4, <1>6, <1>7

LEMMA PluginInv ==
    ASSUME RuntimeInv, VmInv', Plugin
    PROVE  StackInv'
<1>0. /\ VmInv /\ stack \in Seq(Frame) /\ StackInv /\ stack # <<>> /\ TopIs("lua")
      /\ Top.vm \in Vms /\ Top.id \in Nat
  BY LuaTop DEF Plugin, LuaService, LuaReturn, LuaThrow, TopIs, RuntimeInv, StackInv
<1>1. CASE LuaService
  <2>1. Stable /\ \A D : StableTimers(D)
    BY <1>0, <1>1, ServiceStable DEF LuaService
  <2>2. DOMAIN stack = 1 .. Len(stack) /\ Len(stack) \in Nat
    BY <1>0, StackFacts
  <2>3. /\ \A i \in 1 .. Len(stack) : i \in DOMAIN stack' /\ stack'[i] = stack[i]
        /\ Len(stack) \in 0 .. Len(stack) /\ stack' \in Seq(Frame)
        /\ \A i \in DOMAIN stack' : ~(i > Len(stack))
    BY <1>0, <1>1, <2>2 DEF LuaService
  <2>. QED  BY <2>1, <2>3, StackStep
<1>2. ASSUME Stable, \A D : StableTimers(D), stack' = Below
      PROVE  StackInv'
  BY <1>0, <1>2, PopInv
<1>3. CASE LuaReturn
  <2>1. CASE Top.origin \in {"startup", "unload"}
    BY <1>0, <1>3, <2>1, LuaTop, PopLast DEF LuaReturn
  <2>2. CASE Top.origin = "timer"
    <3>1. Len(stack) = 2 /\ Top.id \notin stack[1].todo /\ stack[1].now \in Nat
      BY <1>0, <2>2, LuaTop, TickBelow DEF VmInv, VmTypeOK
    <3>. PICK v \in Vms : v = Top.vm
      BY <1>0
    <3>. PICK id \in Nat : id = Top.id
      BY <1>0
    <3>. PICK now \in Nat : now = stack[1].now
      BY <3>1
    <3>2. SettleTimer(Top.vm, Top.id, TRUE, stack[Len(stack) - 1].now)
      BY <1>3, <2>2 DEF LuaReturn
    <3>3. SettleTimer(v, id, TRUE, now)
      <4>1. stack[Len(stack) - 1] = stack[1]
        BY <3>1
      <4>. QED  BY <3>2, <4>1
    <3>4. Stable /\ \A D : id \notin D => StableTimers(D)
      BY <1>0, <3>3, SettleStable
    <3>5. \A i \in 1 .. Len(stack) - 1 : \A f :
            f = stack[i] /\ f.type = "tick" => StableTimers(f.todo)
      BY <3>1, <3>4
    <3>. QED  BY <1>0, <1>3, <3>4, <3>5, PopInv DEF LuaReturn
  <2>3. CASE Top.origin \notin {"startup", "unload", "timer"}
    <3>1. UNCHANGED vmVars
      BY <1>0, <1>3, <2>3, LuaTop DEF LuaReturn
    <3>. QED  BY <1>0, <1>2, <1>3, <3>1, UnchangedStable DEF LuaReturn
  <2>. QED  BY <2>1, <2>2, <2>3
<1>4. CASE LuaThrow
  <2>1. CASE Top.origin = "startup"
    BY <1>0, <1>4, <2>1, LuaTop, PopLast DEF LuaThrow
  <2>2. CASE Top.origin # "startup"
    <3>1. Quarantine(Top.vm) \/ UNCHANGED vmVars
      BY <1>4, <2>2 DEF LuaThrow
    <3>2. Stable /\ \A D : StableTimers(D)
      BY <1>0, <3>1, QuarantineStable, UnchangedStable
    <3>. QED  BY <1>2, <1>4, <3>2 DEF LuaThrow
  <2>. QED  BY <2>1, <2>2
<1>. QED  BY <1>1, <1>3, <1>4 DEF Plugin

LEMMA RuntimeInit == Init => RuntimeInv
<1>1. ASSUME Init PROVE StackInv
  <2>1. stack \in Seq(Frame) /\ DOMAIN stack = {}
    BY <1>1, EmptySeq DEF Init
  <2>. QED  BY <2>1 DEF StackInv, StackGood, TimerNest
<1>. QED  BY <1>1, VmInitInv DEF Init, RuntimeInv

LEMMA RuntimeNext == RuntimeInv /\ [Next]_vars => RuntimeInv'
<1>. SUFFICES ASSUME RuntimeInv, [Next]_vars PROVE RuntimeInv'
  OBVIOUS
<1>1. VmInv'
  BY StepImplementsVm, VmNextInv DEF RuntimeInv
<1>2. CASE Next
  BY <1>1, <1>2, HostInv, DispatchAdvanceInv, DispatchCallInv, TickAdvanceInv,
     TickCallInv, PluginInv DEF Next, Runtime, RuntimeInv
<1>3. CASE UNCHANGED vars
  <2>1. StackGood'
    BY <1>3 DEF vars, RuntimeInv, StackInv, StackGood, Good, TimersOf
  <2>2. TimerNest'
    BY <1>3 DEF vars, RuntimeInv, StackInv, TimerNest
  <2>. QED  BY <1>1, <1>3, <2>1, <2>2 DEF vars, RuntimeInv, StackInv
<1>. QED  BY <1>2, <1>3

-----------------------------------------------------------------------------
(* The theorems. *)

LEMMA RuntimeInvHolds == Spec => []RuntimeInv
BY RuntimeInit, RuntimeNext, PTL DEF Spec

\* What the runtime does to the plugins' records is a sequence of operations of
\* ScriptVm, as its actions say; this carries the theorems of ScriptVm over.
LEMMA RuntimeImplementsVm == Spec => VmSpec
<1>1. Init => VmInit
  BY DEF Init
<1>. QED  BY <1>1, RuntimeInvHolds, StepImplementsVm, PTL DEF Spec, VmSpec

\* The registry invariants hold of the runtime with any nesting of calls.
THEOREM RuntimeKeepsRegistry == Spec => [](OwnsItsSlot /\ NoLostReference)
<1>1. RuntimeInv => OwnsItsSlot /\ NoLostReference
  BY DEF RuntimeInv, VmInv
<1>. QED  BY <1>1, RuntimeInvHolds, PTL

\* Calls nest as the single server thread makes them.
THEOREM TypeCorrect == Spec => []TypeOK
<1>1. ASSUME RuntimeInv PROVE TypeOK
  <2>1. ASSUME NEW i \in DOMAIN stack
        PROVE  LET f == stack[i] IN
               /\ f.type = "tick" => i = 1 /\ f.at <= Len(scripts) /\ f.now <= clock
               /\ f.type = "dispatch" => f.at <= Len(scripts)
               /\ f.type = "lua" =>
                    /\ f.vm \in mapped
                    /\ f.origin \in {"startup", "unload"} => i = 1
                    /\ f.origin = "timer" =>
                         i = 2 /\ stack[1].type = "tick" /\ f.id \notin stack[1].todo
    <3>1. Good(i, stack[i])
      BY <1>1 DEF RuntimeInv, StackInv, StackGood
    <3>. QED  BY <1>1, <3>1 DEF Good, RuntimeInv, StackInv, TimerNest
  <2>. QED  BY <1>1, <2>1 DEF TypeOK, CallsNest, RuntimeInv, VmInv, StackInv
<1>. QED  BY <1>1, RuntimeInvHolds, PTL

\* The copies and due ids a walk holds are good when it comes back to them.
THEOREM CopiesStayGood == Spec => []HeldCopiesStayGood
<1>1. ASSUME RuntimeInv PROVE HeldCopiesStayGood
  <2>1. \A i \in DOMAIN stack : Good(i, stack[i])
    BY <1>1 DEF RuntimeInv, StackInv, StackGood
  <2>. QED  BY <2>1 DEF Good, HeldCopiesStayGood
<1>. QED  BY <1>1, RuntimeInvHolds, PTL

\* A timer or a command is called back with the function registered for it, an
\* event with that or, in the place of a removed subscription, a later one.
THEOREM CallsItsOwnFunction == Spec => []RunsItsOwnFunction
<1>1. ASSUME RuntimeInv PROVE RunsItsOwnFunction
  <2>1. \A i \in DOMAIN stack : Good(i, stack[i])
    BY <1>1 DEF RuntimeInv, StackInv, StackGood
  <2>. QED  BY <2>1 DEF Good, RunsItsOwnFunction
<1>. QED  BY <1>1, RuntimeInvHolds, PTL

-----------------------------------------------------------------------------
(* Whom the runtime calls. *)

LEMMA PushedLast ==
    ASSUME NEW s \in Seq(Frame), NEW g \in Frame
    PROVE  Last(Append(s, g)) = g /\ Len(Append(s, g)) = Len(s) + 1
BY AppendProperties, LenProperties DEF Last

\* The four ways plugin code starts.
LoadStarts == \E v \in Vms : HostLoad(v) /\ Started.vm = v /\ Started.origin = "startup"

UnloadStarts ==
    \E v \in Vms : HostUnloadCallback(v) /\ Started.vm = v /\ Started.origin = "unload"

DispatchStarts ==
    /\ DispatchCall
    /\ LET x == First(Top.todo) IN
       /\ CanCall(x.vm, slots[x.vm][x.ref])
       /\ Started = LuaFrame(x.vm, x.kind, x.id, x.fn, slots[x.vm][x.ref])
       /\ Started.vm = x.vm /\ Started.origin = x.kind
       /\ Started.fn = slots[x.vm][x.ref]

TickStarts ==
    /\ TickCall
    /\ \E t \in TimersOf(scripts[Top.at]) :
         /\ t.id \in Top.todo /\ ~t.cancelled
         /\ Started.vm = scripts[Top.at] /\ Started.origin = "timer"
         /\ Started.id = t.id /\ Started.fn = t.fn
         /\ Started.vm \notin disabled

LEMMA HowCodeStarts ==
    ASSUME RuntimeInv, RuntimeInv', [Next]_vars, Starts
    PROVE  LoadStarts \/ UnloadStarts \/ DispatchStarts \/ TickStarts
<1>0. /\ stack \in Seq(Frame) /\ stack' \in Seq(Frame) /\ Len(stack) \in Nat
      /\ stack' # stack /\ Started.type = "lua" /\ Len(stack') > Len(stack)
  BY StackFacts DEF RuntimeInv, StackInv, Starts, Started
<1>1. ASSUME NEW key \in Keys, NEW post \in BOOLEAN, HostEvent(key, post)
      PROVE  FALSE
  <2>1. /\ DispatchFrame("event", key, post) \in Frame
        /\ DispatchFrame("event", key, post).type = "dispatch"
    BY DispatchFrameFacts DEF RuntimeInv
  <2>. QED  BY <1>0, <1>1, <2>1, PushedLast DEF HostEvent, Started
<1>2. ASSUME NEW key \in Keys, HostCommand(key)
      PROVE  FALSE
  <2>. DEFINE g == DispatchFrame("command", key, FALSE)
              h == DispatchFrame("event", ClientCommand, FALSE)
  <2>1. g \in Frame /\ h \in Frame /\ h.type = "dispatch"
    BY DispatchFrameFacts, RuntimeAssumption DEF RuntimeInv
  <2>2. stack' = stack \o <<g, h>>
    BY <1>2 DEF HostCommand
  <2>. HIDE DEF g, h
  <2>3. /\ <<g, h>> \in Seq(Frame) /\ Len(<<g, h>>) = 2 /\ <<g, h>>[2] = h
    BY <2>1
  <2>4. /\ Len(stack') = Len(stack) + 2
        /\ stack'[Len(stack) + 2] = <<g, h>>[2]
    BY <1>0, <2>2, <2>3, ConcatProperties
  <2>. QED  BY <1>0, <2>1, <2>3, <2>4 DEF Started, Last
<1>3. CASE HostTick
  <2>1. stack' = <<TickFrame>> /\ Last(stack') = TickFrame
    BY <1>3 DEF HostTick, Last
  <2>. QED  BY <1>0, <2>1 DEF Started, TickFrame
<1>4. ASSUME NEW v \in Vms, HostLoad(v)
      PROVE  LoadStarts
  <2>1. LuaFrame(v, "startup", 0, 0, 0).vm = v /\ LuaFrame(v, "startup", 0, 0, 0).origin = "startup"
    BY LuaFrameFacts
  <2>2. stack' = <<LuaFrame(v, "startup", 0, 0, 0)>>
    BY <1>4 DEF HostLoad
  <2>3. Started = LuaFrame(v, "startup", 0, 0, 0)
    BY <2>2 DEF Started, Last
  <2>. QED  BY <1>4, <2>1, <2>3 DEF LoadStarts
<1>5. ASSUME NEW v \in Vms, HostUnloadCallback(v)
      PROVE  UnloadStarts
  <2>1. LuaFrame(v, "unload", 0, 0, 0).vm = v /\ LuaFrame(v, "unload", 0, 0, 0).origin = "unload"
    BY LuaFrameFacts
  <2>2. stack' = <<LuaFrame(v, "unload", 0, 0, 0)>>
    BY <1>5 DEF HostUnloadCallback
  <2>3. Started = LuaFrame(v, "unload", 0, 0, 0)
    BY <2>2 DEF Started, Last
  <2>. QED  BY <1>5, <2>1, <2>3 DEF UnloadStarts
<1>6. CASE DispatchCall
  <2>1. /\ TopIs("dispatch") /\ Top.todo # {} /\ stack # <<>>
    BY <1>6 DEF DispatchCall, TopIs
  <2>. PICK x \in RegRecord : x = First(Top.todo) /\ x \in Top.todo
    BY <2>1, DispatchFirst
  <2>. DEFINE fn == slots[x.vm][x.ref]
              left == [Top EXCEPT !.todo = @ \ {x}]
              lua == LuaFrame(x.vm, x.kind, x.id, x.fn, fn)
  <2>2. left \in Frame
    BY <2>1, DispatchTop DEF Frame
  <2>3. /\ Below \in Seq(Frame) /\ Len(Below) = Len(stack) - 1
    BY <1>0, <2>1, BelowFacts
  <2>4. stack' = IF CanCall(x.vm, fn) THEN Append(Append(Below, left), lua)
                                      ELSE Append(Below, left)
    BY <1>6 DEF DispatchCall
  <2>5. Append(Below, left) \in Seq(Frame) /\ Len(Append(Below, left)) = Len(stack)
    BY <1>0, <2>2, <2>3, AppendProperties
  <2>6. CanCall(x.vm, fn)
    BY <1>0, <2>4, <2>5
  <2>7. x.vm \in Vms /\ x.kind \in {"event", "command"} /\ x.id \in Nat /\ x.fn \in Nat
        /\ fn \in Nat
    BY <2>1, <2>6, DispatchCalls DEF RegRecord
  <2>8. lua \in Frame /\ lua.vm = x.vm /\ lua.origin = x.kind /\ lua.fn = fn
    <3>. HIDE DEF fn
    <3>. QED  BY <2>7 DEF LuaFrame, Frame
  <2>9. Started = lua
    BY <2>4, <2>5, <2>6, <2>8, PushedLast DEF Started
  <2>. QED  BY <1>6, <2>6, <2>8, <2>9 DEF DispatchStarts
<1>7. CASE TickCall
  <2>1. /\ TopIs("tick") /\ Top.todo # {} /\ Top.todo \in SUBSET Nat
        /\ Len(stack) = 1 /\ Good(1, Top)
    BY <1>7, TickTop DEF TickCall
  <2>. PICK id \in Nat : id = FirstId(Top.todo) /\ id \in Top.todo
    BY <2>1, FirstIdFacts
  <2>. PICK v \in Vms : v = scripts[Top.at]
    BY <2>1, ScriptsAt DEF RuntimeInv, Good, TopIs
  <2>. DEFINE pending == {t \in TimersOf(v) : t.id = id /\ ~t.cancelled}
              left == [Top EXCEPT !.todo = @ \ {id}]
              fn == slots[v][First(pending).ref]
  <2>2. left \in [type : {"tick"}, now : Nat, at : Nat, todo : SUBSET Nat]
    BY <2>1, TickTop
  <2>. PICK g \in Frame : g = left
    BY <2>2 DEF Frame
  <2>3. \/ stack' = <<g>>
        \/ /\ pending # {} /\ CanCall(v, fn)
           /\ stack' = Append(<<g>>, LuaFrame(v, "timer", id, First(pending).fn, fn))
    BY <1>7 DEF TickCall
  <2>. HIDE DEF left
  <2>4. /\ pending # {} /\ CanCall(v, fn)
        /\ stack' = Append(<<g>>, LuaFrame(v, "timer", id, First(pending).fn, fn))
    <3>1. ASSUME stack' = <<g>> PROVE FALSE
      <4>1. Len(stack') = 1
        BY <3>1
      <4>. QED  BY <1>0, <2>1, <4>1
    <3>. QED  BY <2>3, <3>1
  <2>5. First(pending) \in pending
    <3>1. \A t \in pending : t.fn \in Nat
      BY DEF RuntimeInv, VmInv, VmTypeOK, TimersOf, TimerRecord
    <3>. QED  BY <2>4, <3>1, FirstFacts
  <2>6. fn = First(pending).fn /\ fn \in Nat
    BY <2>1, <2>5, TickCalls
  <2>. PICK n \in Nat : n = fn
    BY <2>6
  <2>7. /\ LuaFrame(v, "timer", id, n, n) \in Frame
        /\ LuaFrame(v, "timer", id, n, n).vm = v
        /\ LuaFrame(v, "timer", id, n, n).origin = "timer"
        /\ LuaFrame(v, "timer", id, n, n).id = id
        /\ LuaFrame(v, "timer", id, n, n).fn = n
    BY LuaFrameFacts
  <2>9. <<g>> \in Seq(Frame)
    OBVIOUS
  <2>10. Started = LuaFrame(v, "timer", id, n, n)
    BY <2>4, <2>6, <2>7, <2>9, PushedLast DEF Started
  <2>11. v \notin disabled
    BY <2>4 DEF CanCall
  <2>. QED  BY <1>7, <2>5, <2>6, <2>7, <2>10, <2>11 DEF TickStarts
<1>8. ASSUME stack # <<>>, stack' = Below
      PROVE  FALSE
  <2>1. Len(Below) = Len(stack) - 1
    BY <1>0, <1>8, BelowFacts
  <2>. QED  BY <1>0, <1>8, <2>1
<1>9. CASE DispatchAdvance
  <2>1. stack # <<>> /\ TopIs("dispatch")
    BY <1>9 DEF DispatchAdvance, TopIs
  <2>2. Len(Below) = Len(stack) - 1 /\ Below \in Seq(Frame)
    BY <1>0, <2>1, BelowFacts
  <2>3. \A g : Len(Append(Below, g)) = Len(stack)
    BY <1>0, <2>2, AppendProperties
  <2>. QED  BY <1>0, <1>8, <1>9, <2>1, <2>3 DEF DispatchAdvance
<1>10. CASE TickAdvance
  <2>1. Len(stack) = 1
    BY <1>10, TickTop DEF TickAdvance
  <2>2. \E g : stack' = <<g>>
    BY <1>10 DEF TickAdvance
  <2>. QED  BY <1>0, <2>1, <2>2
<1>. QED  BY <1>0, <1>1, <1>2, <1>3, <1>4, <1>5, <1>6, <1>7, <1>8, <1>9, <1>10
          DEF Next, Host, HostUnload, HostShutdown, Runtime, Plugin, LuaService,
              LuaReturn, LuaThrow, TopIs, vars

\* No function of a quarantined plugin is ever started.
THEOREM QuarantineSilences == Spec => QuarantinedNeverRuns
<1>1. ASSUME RuntimeInv, RuntimeInv', [Next]_vars, Starts
      PROVE  Started.vm \notin disabled
  <2>1. CASE LoadStarts
    BY <1>1, <2>1 DEF LoadStarts, HostLoad, CreateState, RuntimeInv, VmInv,
       RegistryConsistent
  <2>2. CASE UnloadStarts
    BY <2>2 DEF UnloadStarts, HostUnloadCallback
  <2>3. CASE DispatchStarts
    BY <2>3 DEF DispatchStarts, CanCall
  <2>4. CASE TickStarts
    BY <2>4 DEF TickStarts
  <2>. QED  BY <1>1, <2>1, <2>2, <2>3, <2>4, HowCodeStarts
<1>2. RuntimeInv /\ RuntimeInv' /\ [Next]_vars =>
        [Starts => Started.vm \notin disabled]_vars
  BY <1>1
<1>. QED  BY <1>2, RuntimeInvHolds, PTL DEF Spec, QuarantinedNeverRuns

\* Only a timer that is live and due is started by a tick.
THEOREM TimersStartWhenDue == Spec => OnlyDueTimersStart
<1>1. ASSUME RuntimeInv, RuntimeInv', [Next]_vars, Starts, Started.origin = "timer"
      PROVE  \E t \in TimersOf(Started.vm) :
                 t.id = Started.id /\ ~t.cancelled /\ t.due <= clock
  <2>1. ~LoadStarts /\ ~UnloadStarts
    BY <1>1 DEF LoadStarts, UnloadStarts
  <2>2. ~DispatchStarts
    <3>1. ASSUME DispatchStarts PROVE FALSE
      <4>1. Started.origin \in {"event", "command"}
        BY <1>1, <3>1, DispatchFirst DEF DispatchStarts, DispatchCall, RegRecord
      <4>. QED  BY <1>1, <4>1
    <3>. QED  BY <3>1
  <2>3. TickStarts
    BY <1>1, <2>1, <2>2, HowCodeStarts
  <2>4. PICK t \in TimersOf(scripts[Top.at]) :
          /\ t.id \in Top.todo /\ ~t.cancelled
          /\ Started.vm = scripts[Top.at] /\ Started.id = t.id
    BY <2>3 DEF TickStarts
  <2>5. t.due <= clock
    BY <1>1, <2>3, <2>4, TickCalls DEF TickStarts, TickCall
  <2>. QED  BY <2>4, <2>5
<1>2. RuntimeInv /\ RuntimeInv' /\ [Next]_vars =>
        [Starts /\ Started.origin = "timer" =>
           \E t \in TimersOf(Started.vm) :
               t.id = Started.id /\ ~t.cancelled /\ t.due <= clock]_vars
  BY <1>1
<1>. QED  BY <1>2, RuntimeInvHolds, PTL DEF Spec, OnlyDueTimersStart

\* What a walk starts is registered at that moment, whatever happened to the
\* record whose copy it holds.
THEOREM OnlyRegisteredRun == Spec => UnregisteredNeverRuns
<1>1. ASSUME RuntimeInv, RuntimeInv', [Next]_vars, Starts,
             Started.origin \in {"event", "command", "timer"}
      PROVE  \E x \in regs \cup timers : x.vm = Started.vm /\ x.fn = Started.fn
  <2>1. CASE DispatchStarts
    <3>. PICK x \in RegRecord : x = First(Top.todo)
      BY <1>1, <2>1, DispatchFirst DEF DispatchStarts, DispatchCall
    <3>1. /\ Started.vm = x.vm /\ Started.fn = slots[x.vm][x.ref]
          /\ slots[x.vm][x.ref] # Free
      BY <2>1 DEF DispatchStarts, CanCall
    <3>2. PICK y \in regs \cup timers : y.vm = x.vm /\ y.ref = x.ref
      BY <1>1, <3>1 DEF RegRecord, RuntimeInv, VmInv, NoLostReference
    <3>3. slots[y.vm][y.ref] = y.fn
      BY <1>1 DEF RuntimeInv, VmInv, OwnsItsSlot
    <3>. QED  BY <3>1, <3>2, <3>3
  <2>2. CASE TickStarts
    BY <2>2 DEF TickStarts, TimersOf
  <2>3. ~LoadStarts /\ ~UnloadStarts
    BY <1>1 DEF LoadStarts, UnloadStarts
  <2>. QED  BY <1>1, <2>1, <2>2, <2>3, HowCodeStarts
<1>2. RuntimeInv /\ RuntimeInv' /\ [Next]_vars =>
        [Starts /\ Started.origin \in {"event", "command", "timer"} =>
           \E x \in regs \cup timers :
               x.vm = Started.vm /\ x.fn = Started.fn]_vars
  BY <1>1
<1>. QED  BY <1>2, RuntimeInvHolds, PTL DEF Spec, UnregisteredNeverRuns

\* scripts_ never changes under a walk.
THEOREM WalksAreUndisturbed == Spec => NoWalkOverChangingScripts
<1>1. ASSUME RuntimeInv, [Next]_vars, scripts' # scripts
      PROVE  \A i \in DOMAIN stack : stack[i].type = "lua"
  <2>1. CASE Host
    <3>1. stack = <<>>
      BY <1>1, <2>1 DEF Host, HostEvent, HostCommand, HostTick, HostLoad, CreateState,
         HostUnload, HostUnloadCallback, HostShutdown, Elapse, Idle, vmVars
    <3>. QED  BY <3>1
  <2>2. CASE Runtime
    <3>1. UNCHANGED scripts
      BY <2>2 DEF Runtime, DispatchAdvance, DispatchCall, TickAdvance, TickCall,
         Sweep, SettleTimer, vmVars
    <3>. QED  BY <1>1, <3>1
  <2>3. CASE Plugin
    <3>1. TopIs("lua") /\ Top.origin \in {"startup", "unload"}
      <4>1. CASE LuaService
        <5>1. scripts' = scripts
          BY <4>1 DEF LuaService, Service, ServiceEventOn, ServiceEventOff,
             ServiceCommandOn, ServiceTimerAdd, ServiceTimerCancel
        <5>. QED  BY <1>1, <5>1
      <4>2. CASE LuaReturn
        BY <1>1, <4>2, LuaTop DEF LuaReturn, SettleTimer, vmVars
      <4>3. CASE LuaThrow
        BY <1>1, <4>3, LuaTop DEF LuaThrow, Quarantine, vmVars
      <4>. QED  BY <2>3, <4>1, <4>2, <4>3 DEF Plugin
    <3>2. Len(stack) = 1 /\ Top.type = "lua" /\ Top = stack[Len(stack)]
      BY <1>1, <3>1, LuaTop, TopFacts DEF TopIs
    <3>3. DOMAIN stack = 1 .. Len(stack)
      BY <1>1, StackFacts DEF RuntimeInv, StackInv
    <3>. QED  BY <3>2, <3>3
  <2>. QED  BY <1>1, <2>1, <2>2, <2>3 DEF Next, vars
<1>2. RuntimeInv /\ [Next]_vars =>
        [scripts' # scripts => \A i \in DOMAIN stack : stack[i].type = "lua"]_vars
  BY <1>1
<1>. QED  BY <1>2, RuntimeInvHolds, PTL DEF Spec, NoWalkOverChangingScripts

\* A walk never passes over a record that is still registered.
LEMMA NotPassedOver ==
    ASSUME RuntimeInv, RuntimeInv', [Next]_vars, TopIs("dispatch"),
           NEW x \in Top.todo, x \in regs, x.vm \notin disabled
    PROVE  \/ Len(stack) \in DOMAIN stack' /\ x \in stack'[Len(stack)].todo
           \/ Starts /\ Started = LuaFrame(x.vm, x.kind, x.id, x.fn, x.fn)
<1>0. /\ stack # <<>> /\ Top = stack[Len(stack)] /\ Len(stack) \in DOMAIN stack
      /\ stack \in Seq(Frame) /\ Len(stack) \in Nat /\ Len(stack) >= 1
      /\ Top.type = "dispatch"
  BY TopFacts DEF TopIs, RuntimeInv, StackInv
<1>1. CASE stack' = stack
  BY <1>0, <1>1
<1>2. CASE DispatchCall
  <2>. PICK y \in RegRecord : y = First(Top.todo) /\ y \in Top.todo
    BY DispatchFirst
  <2>. DEFINE fn == slots[y.vm][y.ref]
              left == [Top EXCEPT !.todo = @ \ {y}]
              lua == LuaFrame(y.vm, y.kind, y.id, y.fn, fn)
  <2>1. left \in Frame /\ left.todo = Top.todo \ {y}
    BY DispatchTop DEF Frame
  <2>2. Below \in Seq(Frame) /\ Len(Below) = Len(stack) - 1
    BY <1>0, BelowFacts
  <2>3. stack' = IF CanCall(y.vm, fn) THEN Append(Append(Below, left), lua)
                                      ELSE Append(Below, left)
    BY <1>2 DEF DispatchCall
  <2>4. /\ Append(Below, left) \in Seq(Frame) /\ Len(Append(Below, left)) = Len(stack)
        /\ Append(Below, left)[Len(stack)] = left
    BY <1>0, <2>1, <2>2, AppendProperties
  <2>5. CASE CanCall(y.vm, fn)
    <3>1. y.vm \in Vms /\ y.kind \in {"event", "command"} /\ y.id \in Nat
          /\ y.fn \in Nat /\ fn \in Nat
      BY <2>5, DispatchFirst, DispatchCalls DEF RegRecord
    <3>2. lua \in Frame /\ lua.type = "lua"
      <4>. HIDE DEF fn
      <4>. QED  BY <3>1 DEF LuaFrame, Frame
    <3>3. /\ Last(stack') = lua /\ Len(stack') = Len(stack) + 1
          /\ Len(stack) \in DOMAIN stack' /\ stack'[Len(stack)] = left
      <4>. DEFINE s == Append(Below, left)
      <4>. HIDE DEF s, lua, left
      <4>1. stack' = Append(s, lua)
        BY <2>3, <2>5 DEF s
      <4>2. s \in Seq(Frame) /\ Len(s) = Len(stack) /\ s[Len(stack)] = left
        BY <2>4 DEF s
      <4>3. Last(stack') = lua /\ Len(stack') = Len(s) + 1
        BY <3>2, <4>1, <4>2, PushedLast
      <4>4. DOMAIN stack' = 1 .. Len(s) + 1 /\ \A i \in 1 .. Len(s) : stack'[i] = s[i]
        BY <3>2, <4>1, <4>2, AppendFacts
      <4>. QED  BY <1>0, <4>2, <4>3, <4>4
    <3>4. CASE x = y
      <4>1. fn = x.fn
        BY <2>5, <3>4, DispatchCalls
      <4>. QED  BY <1>0, <3>2, <3>3, <3>4, <4>1 DEF Starts, Started
    <3>5. CASE x # y
      BY <2>1, <3>3, <3>5
    <3>. QED  BY <3>4, <3>5
  <2>6. CASE ~CanCall(y.vm, fn)
    <3>1. x # y
      <4>1. ASSUME x = y PROVE FALSE
        <5>1. fn = x.fn /\ x.fn # 0
          BY <4>1 DEF RuntimeInv, VmInv, OwnsItsSlot, RegRecord
        <5>. QED  BY <2>6, <4>1, <5>1 DEF CanCall, Free
      <4>. QED  BY <4>1
    <3>2. stack' = Append(Below, left)
      BY <2>3, <2>6
    <3>. QED  BY <1>0, <2>1, <2>4, <3>1, <3>2, LenProperties
  <2>. QED  BY <2>5, <2>6
<1>. QED  BY <1>0, <1>1, <1>2
          DEF Next, Host, HostEvent, HostCommand, HostTick, HostLoad, HostUnload,
              HostUnloadCallback, HostShutdown, HostMayCall, Idle, TopIs, Runtime,
              DispatchAdvance, TickAdvance, TickCall, Plugin, LuaService,
              LuaReturn, LuaThrow, vars

THEOREM EverySubscriberIsCalled == Spec => SubscriberIsCalled
<1>1. RuntimeInv /\ RuntimeInv' /\ [Next]_vars =>
        [TopIs("dispatch") =>
          \A x \in Top.todo : x \in regs /\ x.vm \notin disabled =>
              \/ Len(stack) \in DOMAIN stack' /\ x \in stack'[Len(stack)].todo
              \/ Starts /\ Started = LuaFrame(x.vm, x.kind, x.id, x.fn, x.fn)]_vars
  BY NotPassedOver
<1>. QED  BY <1>1, RuntimeInvHolds, PTL DEF Spec, SubscriberIsCalled
=============================================================================
