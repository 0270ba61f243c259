------------------------------ MODULE ScriptVm ------------------------------
(***************************************************************************)
(* The state a plugin owns: its Lua state, the functions it pinned in the  *)
(* Lua registry, and the event, command and timer records that hold those  *)
(* registry references (struct ScriptVm and the services of Runtime that   *)
(* add and release them).                                                  *)
(*                                                                         *)
(* Event subscriptions and timers have ids, drawn from two counters that    *)
(* both start at 1; a command record is a bare reference without an id.    *)
(* Functions have no name in the program.  The model numbers them in the   *)
(* order in which they are pinned (the history variable nextFn), and a     *)
(* record keeps in fn the number of the function it was made for, which is *)
(* also its order in its vector.                                           *)
(***************************************************************************)
EXTENDS Naturals, SequencesExt

CONSTANTS
    Vms,        \* the plugins (one Lua state each)
    Keys,       \* normalised event and command names
    Refs,       \* integer slots of a Lua registry that luaL_ref can return
    Delays,     \* the delays and intervals a plugin asks for
    MaxId,      \* the value at which the id counters refuse (2^64 - 1)
    MaxPins,    \* bound: the functions pinned between two shutdowns
    MaxTime     \* bound: the clock stops there

ASSUME VmAssumption ==
    /\ Delays \subseteq Nat
    /\ MaxId \in Nat \ {0}
    /\ MaxPins \in Nat
    /\ MaxTime \in Nat

VARIABLES
    mapped,     \* state_map_: the VMs find_vm resolves
    scripts,    \* scripts_: the loaded VMs in load order
    disabled,   \* the VMs whose registry holds the disabled flag
    slots,      \* slots[v][r]: the function pinned at reference r of v
    regs,       \* the event and command records of all VMs
    timers,     \* the timer records of all VMs
    nextEvent,  \* next_event_subscription_id_
    nextTimer,  \* next_timer_id_
    nextFn,     \* history: the number of the next function that is pinned
    clock       \* now()

ids == <<nextEvent, nextTimer, nextFn>>

vmVars == <<mapped, scripts, disabled, slots, regs, timers,
            nextEvent, nextTimer, nextFn, clock>>

Free == 0       \* an unused slot: nil, or a link of luaL_unref's free list

Loaded == ToSet(scripts)

RegRecord ==
    [kind : {"event", "command"}, vm : Vms, key : Keys, post : BOOLEAN,
     id : Nat, fn : Nat \ {0}, ref : Refs]

TimerRecord ==
    [vm : Vms, id : Nat \ {0}, fn : Nat \ {0}, ref : Refs, due : Nat,
     interval : Nat, repeat : BOOLEAN, cancelled : BOOLEAN]

VmInit ==
    /\ mapped = {}
    /\ scripts = <<>>
    /\ disabled = {}
    /\ slots = [v \in Vms |-> [r \in Refs |-> Free]]
    /\ regs = {}
    /\ timers = {}
    /\ nextEvent = 1
    /\ nextTimer = 1
    /\ nextFn = 1
    /\ clock = 0

-----------------------------------------------------------------------------
(* The Lua registry. *)

\* luaL_ref hands out some slot that is not in use.
FreeRefs(v) == {r \in Refs : slots[v][r] = Free}

Pin(v, r) ==
    /\ nextFn <= MaxPins
    /\ slots' = [slots EXCEPT ![v][r] = nextFn]
    /\ nextFn' = nextFn + 1

\* luaL_unref on every reference of R.
Unref(v, R) ==
    slots' = [slots EXCEPT
                ![v] = [r \in Refs |-> IF r \in R THEN Free ELSE slots[v][r]]]

RegsOf(v) == {x \in regs : x.vm = v}
TimersOf(v) == {t \in timers : t.vm = v}
RefsOf(S) == {x.ref : x \in S}

-----------------------------------------------------------------------------
(* Services a running plugin calls. *)

ServiceEventOn(v, key, post) ==
    /\ v \in mapped
    /\ nextEvent < MaxId
    /\ \E r \in FreeRefs(v) :
         /\ Pin(v, r)
         /\ regs' = regs \cup {[kind |-> "event", vm |-> v, key |-> key, post |-> post,
                                id |-> nextEvent, fn |-> nextFn, ref |-> r]}
    /\ nextEvent' = nextEvent + 1
    /\ UNCHANGED <<mapped, scripts, disabled, timers, nextTimer, clock>>

\* Mutant: erases the record and keeps its reference.
EventOffWithoutUnref(v, id) ==
    /\ v \in mapped
    /\ \E x \in RegsOf(v) :
         /\ x.kind = "event" /\ x.id = id
         /\ regs' = regs \ {x}
    /\ UNCHANGED <<mapped, scripts, disabled, slots, timers, ids, clock>>

\* The reference is released at once, while a dispatch may still hold a copy
\* of the record.
ServiceEventOff(v, id) ==
    /\ v \in mapped
    /\ \E x \in RegsOf(v) :
         /\ x.kind = "event" /\ x.id = id
         /\ Unref(v, {x.ref})
         /\ regs' = regs \ {x}
    /\ UNCHANGED <<mapped, scripts, disabled, timers, ids, clock>>

\* A command joins the earlier ones of its name.  It has no id.
ServiceCommandOn(v, key) ==
    /\ v \in mapped
    /\ \E r \in FreeRefs(v) :
         /\ Pin(v, r)
         /\ regs' = regs \cup {[kind |-> "command", vm |-> v, key |-> key, post |-> FALSE,
                                id |-> 0, fn |-> nextFn, ref |-> r]}
    /\ UNCHANGED <<mapped, scripts, disabled, timers, nextEvent, nextTimer, clock>>

ServiceTimerAdd(v, delay, repeat) ==
    /\ v \in mapped
    /\ nextTimer < MaxId
    /\ \E r \in FreeRefs(v) :
         /\ Pin(v, r)
         /\ timers' = timers \cup
              {[vm |-> v, id |-> nextTimer, fn |-> nextFn, ref |-> r,
                due |-> clock + delay, interval |-> delay, repeat |-> repeat,
                cancelled |-> FALSE]}
    /\ nextTimer' = nextTimer + 1
    /\ UNCHANGED <<mapped, scripts, disabled, regs, nextEvent, clock>>

Cancelled(t) == [t EXCEPT !.cancelled = TRUE]

\* Mutant: releases the reference and leaves the record to the sweep.
CancelUnrefAtOnce(v, id) ==
    /\ v \in mapped
    /\ \E t \in TimersOf(v) :
         /\ t.id = id
         /\ timers' = (timers \ {t}) \cup {Cancelled(t)}
         /\ Unref(v, {t.ref})
    /\ UNCHANGED <<mapped, scripts, disabled, regs, ids, clock>>

\* Only marks the record: the sweep of tick releases the reference.
ServiceTimerCancel(v, id) ==
    /\ v \in mapped
    /\ \E t \in TimersOf(v) :
         /\ t.id = id
         /\ timers' = (timers \ {t}) \cup {Cancelled(t)}
    /\ UNCHANGED <<mapped, scripts, disabled, slots, regs, ids, clock>>

-----------------------------------------------------------------------------
(* What the runtime does to a VM. *)

\* Mutant: forgets that the callback may have cancelled.
SettledReviving(t, succeeded, now) ==
    IF succeeded /\ t.repeat
    THEN [t EXCEPT !.due = now + t.interval, !.cancelled = FALSE]
    ELSE Cancelled(t)

\* tick, after the callback of a timer: a repeating timer that is still
\* wanted is re-armed from the time the tick began, any other is spent.
Settled(t, succeeded, now) ==
    IF succeeded /\ t.repeat /\ ~t.cancelled
    THEN [t EXCEPT !.due = now + t.interval]
    ELSE Cancelled(t)

\* The record is looked up again by id: the callback may have lost it.
SettleTimer(v, id, succeeded, now) ==
    /\ timers' = {IF t.vm = v /\ t.id = id THEN Settled(t, succeeded, now)
                                           ELSE t : t \in timers}
    /\ UNCHANGED <<mapped, scripts, disabled, slots, regs, ids, clock>>

\* Mutant: erases the records and keeps their references.
SweepWithoutUnref(v) ==
    /\ timers' = {t \in timers : t.vm = v => ~t.cancelled}
    /\ UNCHANGED <<mapped, scripts, disabled, slots, regs, ids, clock>>

\* tick, after the due timers of a VM: drop what is cancelled.
Sweep(v) ==
    LET spent == {t \in TimersOf(v) : t.cancelled} IN
    /\ timers' = timers \ spent
    /\ Unref(v, RefsOf(spent))
    /\ UNCHANGED <<mapped, scripts, disabled, regs, ids, clock>>

\* Mutant: the timers survive.
QuarantineKeepingTimers(v) ==
    /\ v \in Loaded \ disabled
    /\ disabled' = disabled \cup {v}
    /\ Unref(v, RefsOf(RegsOf(v)))
    /\ regs' = regs \ RegsOf(v)
    /\ UNCHANGED <<mapped, scripts, timers, ids, clock>>

\* Mutant: the flag that keeps protected_call out of the plugin is not set.
QuarantineWithoutFlag(v) ==
    /\ v \in Loaded \ disabled
    /\ Unref(v, RefsOf(RegsOf(v)) \cup RefsOf(TimersOf(v)))
    /\ regs' = regs \ RegsOf(v)
    /\ timers' = timers \ TimersOf(v)
    /\ UNCHANGED <<mapped, scripts, disabled, ids, clock>>

\* protected_call, on the first uncaught error of a loaded plugin.
Quarantine(v) ==
    /\ v \in Loaded \ disabled
    /\ disabled' = disabled \cup {v}
    /\ Unref(v, RefsOf(RegsOf(v)) \cup RefsOf(TimersOf(v)))
    /\ regs' = regs \ RegsOf(v)
    /\ timers' = timers \ TimersOf(v)
    /\ UNCHANGED <<mapped, scripts, ids, clock>>

\* load_plugin: a new Lua state, entered in state_map_.
CreateState(v) ==
    /\ v \notin mapped
    /\ mapped' = mapped \cup {v}
    /\ UNCHANGED <<scripts, disabled, slots, regs, timers, ids, clock>>

\* load_plugin, after a successful startup.
EnterScripts(v) ==
    /\ v \in mapped \ Loaded
    /\ scripts' = Append(scripts, v)
    /\ UNCHANGED <<mapped, disabled, slots, regs, timers, ids, clock>>

\* ~ScriptVm, once the VM is out of state_map_: the Lua state is closed with
\* everything its registry held.
Release(v) ==
    /\ mapped' = mapped \ {v}
    /\ slots' = [slots EXCEPT ![v] = [r \in Refs |-> Free]]
    /\ regs' = regs \ RegsOf(v)
    /\ timers' = timers \ TimersOf(v)
    /\ UNCHANGED <<ids, clock>>

\* load_plugin, when the startup failed: the VM never entered scripts_.
DiscardState(v) ==
    /\ v \in mapped \ Loaded
    /\ Release(v)
    /\ UNCHANGED <<scripts, disabled>>

\* Mutant: the state is closed and its entry of scripts_ stays.
UnloadKeepingEntry(v) ==
    /\ v \in Loaded
    /\ scripts' = scripts
    /\ disabled' = disabled \ {v}
    /\ Release(v)

\* unload_key: the entry is erased from scripts_.
Unload(v) ==
    /\ \E i \in DOMAIN scripts :
         scripts[i] = v /\ scripts' = RemoveAt(scripts, i)
    /\ disabled' = disabled \ {v}
    /\ Release(v)

\* Runtime::shutdown, which also restarts the counters.
Shutdown ==
    /\ mapped' = {}
    /\ scripts' = <<>>
    /\ disabled' = {}
    /\ slots' = [v \in Vms |-> [r \in Refs |-> Free]]
    /\ regs' = {}
    /\ timers' = {}
    /\ nextEvent' = 1
    /\ nextTimer' = 1
    /\ nextFn' = 1
    /\ UNCHANGED clock

\* The steady clock advances on its own.
Elapse ==
    /\ clock < MaxTime
    /\ clock' = clock + 1
    /\ UNCHANGED <<mapped, scripts, disabled, slots, regs, timers, ids>>

-----------------------------------------------------------------------------
Service(v) ==
    \/ \E key \in Keys, post \in BOOLEAN : ServiceEventOn(v, key, post)
    \/ \E x \in RegsOf(v) : ServiceEventOff(v, x.id)
    \/ \E key \in Keys : ServiceCommandOn(v, key)
    \/ \E d \in Delays, repeat \in BOOLEAN : ServiceTimerAdd(v, d, repeat)
    \/ \E t \in TimersOf(v) : ServiceTimerCancel(v, t.id)

Manage(v) ==
    \/ \E t \in TimersOf(v), succeeded \in BOOLEAN, now \in 0 .. clock :
         SettleTimer(v, t.id, succeeded, now)
    \/ Sweep(v)
    \/ Quarantine(v)
    \/ CreateState(v)
    \/ EnterScripts(v)
    \/ DiscardState(v)
    \/ Unload(v)

VmNext ==
    \/ \E v \in Vms : Service(v) \/ Manage(v)
    \/ Shutdown
    \/ Elapse

VmSpec == VmInit /\ [][VmNext]_vmVars

-----------------------------------------------------------------------------
(* Type invariant. *)
VmTypeOK ==
    /\ mapped \subseteq Vms
    /\ scripts \in Seq(Vms)
    /\ disabled \subseteq Vms
    /\ slots \in [Vms -> [Refs -> Nat]]
    /\ regs \subseteq RegRecord
    /\ timers \subseteq TimerRecord
    /\ nextEvent \in Nat \ {0}
    /\ nextTimer \in Nat \ {0}
    /\ nextFn \in Nat \ {0}
    /\ clock \in Nat

\* Every record still holds its own function at its reference: no release
\* and no reuse of a registry slot ever takes a function from a record that
\* is still registered.
OwnsItsSlot ==
    \A x \in regs \cup timers : slots[x.vm][x.ref] = x.fn

\* Every pinned slot belongs to a record that will release it: no path (off,
\* cancel and sweep, quarantine, unload) loses a reference.
NoLostReference ==
    \A v \in Vms, r \in Refs :
        slots[v][r] # Free =>
            \E x \in regs \cup timers : x.vm = v /\ x.ref = r

\* A VM that runs nothing owns nothing, and scripts_ and state_map_ agree: a
\* loaded VM is resolvable, listed once, and only a loaded VM is disabled.
RegistryConsistent ==
    /\ Loaded \subseteq mapped
    /\ \A i, j \in DOMAIN scripts : scripts[i] = scripts[j] => i = j
    /\ disabled \subseteq Loaded
    /\ \A x \in regs \cup timers : x.vm \in mapped

\* The quarantine of one plugin releases everything it held and touches
\* nothing of another plugin.
QuarantineIsLocal ==
    [][\A v \in Vms : v \in disabled' \ disabled =>
          /\ \A r \in Refs : slots'[v][r] = Free
          /\ \A x \in regs' \cup timers' : x.vm # v
          /\ \A w \in Vms \ {v} :
               /\ slots'[w] = slots[w]
               /\ RegsOf(w)' = RegsOf(w)
               /\ TimersOf(w)' = TimersOf(w)
               /\ (w \in disabled') = (w \in disabled)]_vmVars

\* What a plugin cancelled stays cancelled until it is gone; in particular
\* re-arming a repeating timer never revives one its own callback cancelled.
CancelIsFinal ==
    [][\A t \in timers : t.cancelled =>
          \A u \in timers' : u.id = t.id => u.cancelled]_vmVars
=============================================================================
