--------------------------- MODULE ScriptRuntime ----------------------------
(***************************************************************************)
(* The runtime as the single server thread executes it: the host calls in  *)
(* (a frame, a game event, a player command, a console command), the       *)
(* runtime walks its plugins and calls the functions they registered, and  *)
(* a plugin function may call a service that makes the engine fire another *)
(* event before it returns.  The variable stack holds the calls in         *)
(* progress, innermost last:                                               *)
(*   - "dispatch": emit, dispatch_game_event or dispatch_command, walking  *)
(*     scripts_ with a copy of the records of the current plugin;          *)
(*   - "tick": Runtime::tick, walking scripts_ with the due timer ids;     *)
(*   - "lua": a plugin function running inside protected_call.             *)
(* Everything between two calls of plugin code is one step.                *)
(***************************************************************************)
EXTENDS ScriptVm

CONSTANTS
    GameFrame,      \* the key "game_frame" that tick emits at its end
    ClientCommand,  \* the key "client_command" emitted before a command runs
    MaxDepth        \* bound: the number of nested calls

ASSUME RuntimeAssumption ==
    /\ {GameFrame, ClientCommand} \subseteq Keys
    /\ MaxDepth \in Nat

VARIABLE stack

vars == <<mapped, scripts, disabled, slots, regs, timers,
          nextEvent, nextTimer, nextFn, clock, stack>>

-----------------------------------------------------------------------------
(* The call stack. *)

Top == Last(stack)
Below == Front(stack)

Idle == stack = <<>>
TopIs(type) == stack # <<>> /\ Top.type = type

\* at counts the plugins of scripts_ entered so far; todo is what remains of
\* the copy taken from the current one.
DispatchFrame(kind, key, post) ==
    [type |-> "dispatch", kind |-> kind, key |-> key, post |-> post,
     at |-> 0, todo |-> {}]

TickFrame == [type |-> "tick", now |-> clock, at |-> 0, todo |-> {}]

\* id is the timer that tick settles after the call.  want is the function of
\* the record on whose behalf the runtime calls, fn the one it found at the
\* record's reference.
LuaFrame(v, origin, id, want, fn) ==
    [type |-> "lua", vm |-> v, origin |-> origin, id |-> id, want |-> want, fn |-> fn]

Frame ==
    [type : {"dispatch"}, kind : {"event", "command"}, key : Keys,
     post : BOOLEAN, at : Nat, todo : SUBSET RegRecord]
    \cup [type : {"tick"}, now : Nat, at : Nat, todo : SUBSET Nat]
    \cup [type : {"lua"}, vm : Vms, id : Nat, want : Nat, fn : Nat,
          origin : {"event", "command", "timer", "startup", "unload"}]

\* The engine calls into the runtime from outside, or out of a service a
\* running plugin function called.
HostMayCall == (Idle \/ TopIs("lua")) /\ Len(stack) < MaxDepth

First(S) == CHOOSE x \in S : \A y \in S : x.fn <= y.fn
FirstId(S) == CHOOSE i \in S : \A j \in S : i <= j

-----------------------------------------------------------------------------
(* The host. *)

\* Hook_FireEvent, Hook_FireEventPost and the lifecycle callbacks.
HostEvent(key, post) ==
    /\ HostMayCall
    /\ stack' = Append(stack, DispatchFrame("event", key, post))
    /\ UNCHANGED vmVars

\* client_command of a player: the event first, then the command callbacks.
HostCommand(key) ==
    /\ HostMayCall
    /\ stack' = stack \o <<DispatchFrame("command", key, FALSE),
                           DispatchFrame("event", ClientCommand, FALSE)>>
    /\ UNCHANGED vmVars

\* Mutant: a frame in the middle of another call.
HostTickAnywhere ==
    /\ HostMayCall
    /\ stack' = Append(stack, TickFrame)
    /\ UNCHANGED vmVars

\* Hook_GameFrame.
HostTick ==
    /\ Idle
    /\ stack' = <<TickFrame>>
    /\ UNCHANGED vmVars

\* load_plugin up to the call of the startup chunk.  Console commands reach
\* the runtime only between two other host calls: a plugin's server command
\* is buffered by the engine.
HostLoad(v) ==
    /\ Idle
    /\ CreateState(v)
    /\ stack' = <<LuaFrame(v, "startup", 0, 0, 0)>>

\* Mutant: a console command runs in the middle of another call.
HostUnloadAnywhere(v) ==
    /\ HostMayCall
    /\ Unload(v)
    /\ UNCHANGED stack

\* unload_key without a cleanup callback, or forced.
HostUnload(v) ==
    /\ Idle
    /\ Unload(v)
    /\ UNCHANGED stack

\* unload_key with a cleanup callback: protected_call refuses to run it on a
\* disabled VM, and the unload is then refused.
HostUnloadCallback(v) ==
    /\ Idle
    /\ v \in Loaded \ disabled
    /\ stack' = <<LuaFrame(v, "unload", 0, 0, 0)>>
    /\ UNCHANGED vmVars

HostShutdown ==
    /\ Idle
    /\ Shutdown
    /\ UNCHANGED stack

-----------------------------------------------------------------------------
(* protected_call: refuses on a disabled VM and when the slot does not     *)
(* hold a function.                                                        *)

CanCall(v, fn) == v \notin disabled /\ fn # Free

-----------------------------------------------------------------------------
(* dispatch_game_event, emit and dispatch_command. *)

Snapshot(v, f) ==
    {x \in RegsOf(v) : x.kind = f.kind /\ x.key = f.key /\ x.post = f.post}

DispatchAdvance ==
    /\ TopIs("dispatch")
    /\ Top.todo = {}
    /\ IF Top.at < Len(scripts)
       THEN stack' = Append(Below,
                       [Top EXCEPT !.at = @ + 1,
                                   !.todo = Snapshot(scripts[Top.at + 1], Top)])
       ELSE stack' = Below
    /\ UNCHANGED vmVars

\* Mutant: the first call ends the walk over the plugin.
DispatchCallGivingUp ==
    /\ TopIs("dispatch")
    /\ Top.todo # {}
    /\ LET x == First(Top.todo)
           fn == slots[x.vm][x.ref]
       IN  stack' = IF CanCall(x.vm, fn)
                    THEN Append(Append(Below, [Top EXCEPT !.todo = {}]),
                                LuaFrame(x.vm, x.kind, x.id, x.fn, fn))
                    ELSE Append(Below, [Top EXCEPT !.todo = @ \ {x}])
    /\ UNCHANGED vmVars

\* The reference comes from the copy; the slot is read now.
DispatchCall ==
    /\ TopIs("dispatch")
    /\ Top.todo # {}
    /\ LET x == First(Top.todo)
           fn == slots[x.vm][x.ref]
           rest == Append(Below, [Top EXCEPT !.todo = @ \ {x}])
       IN  stack' = IF CanCall(x.vm, fn)
                    THEN Append(rest, LuaFrame(x.vm, x.kind, x.id, x.fn, fn))
                    ELSE rest
    /\ UNCHANGED vmVars

-----------------------------------------------------------------------------
(* Runtime::tick. *)

DueIds(v, now) ==
    {t.id : t \in {u \in TimersOf(v) : ~u.cancelled /\ u.due <= now}}

\* Mutant: serves a plugin until it has no due timer left.
TickAdvanceUntilDry ==
    /\ TopIs("tick")
    /\ Top.todo = {}
    /\ LET again == IF Top.at = 0 THEN {} ELSE DueIds(scripts[Top.at], Top.now) IN
       IF again # {}
       THEN stack' = <<[Top EXCEPT !.todo = again]>> /\ UNCHANGED vmVars
       ELSE /\ IF Top.at = 0 THEN UNCHANGED vmVars ELSE Sweep(scripts[Top.at])
            /\ stack' =
                 IF Top.at < Len(scripts)
                 THEN <<[Top EXCEPT !.at = @ + 1,
                            !.todo = DueIds(scripts[Top.at + 1], Top.now)]>>
                 ELSE <<DispatchFrame("event", GameFrame, FALSE)>>

\* Sweep the plugin just served and collect the due timers of the next one.
TickAdvance ==
    /\ TopIs("tick")
    /\ Top.todo = {}
    /\ IF Top.at = 0 THEN UNCHANGED vmVars ELSE Sweep(scripts[Top.at])
    /\ stack' =
         IF Top.at < Len(scripts)
         THEN <<[Top EXCEPT !.at = @ + 1,
                            !.todo = DueIds(scripts[Top.at + 1], Top.now)]>>
         ELSE <<DispatchFrame("event", GameFrame, FALSE)>>

\* Mutant: does not look again whether the timer was cancelled.
TickCallUnchecked ==
    /\ TopIs("tick")
    /\ Top.todo # {}
    /\ LET v == scripts[Top.at]
           id == FirstId(Top.todo)
           rest == <<[Top EXCEPT !.todo = @ \ {id}]>>
           pending == {t \in TimersOf(v) : t.id = id}
       IN  IF pending = {}
           THEN stack' = rest /\ UNCHANGED vmVars
           ELSE /\ stack' = Append(rest, LuaFrame(v, "timer", id, First(pending).fn,
                                          slots[v][First(pending).ref]))
                /\ UNCHANGED vmVars

TickCall ==
    /\ TopIs("tick")
    /\ Top.todo # {}
    /\ LET v == scripts[Top.at]
           id == FirstId(Top.todo)
           rest == <<[Top EXCEPT !.todo = @ \ {id}]>>
           pending == {t \in TimersOf(v) : t.id = id /\ ~t.cancelled}
       IN  IF pending = {}
           THEN stack' = rest /\ UNCHANGED vmVars
           ELSE LET fn == slots[v][First(pending).ref] IN
                IF CanCall(v, fn)
                THEN /\ stack' = Append(rest,
                                        LuaFrame(v, "timer", id, First(pending).fn, fn))
                     /\ UNCHANGED vmVars
                ELSE /\ stack' = rest
                     /\ SettleTimer(v, id, FALSE, Top.now)

-----------------------------------------------------------------------------
(* A plugin function. *)

LuaService ==
    /\ TopIs("lua")
    /\ Service(Top.vm)
    /\ UNCHANGED stack

LuaReturn ==
    /\ TopIs("lua")
    /\ stack' = Below
    /\ CASE Top.origin = "startup" -> EnterScripts(Top.vm)
         [] Top.origin = "unload"  -> Unload(Top.vm)
         [] Top.origin = "timer"   ->
              SettleTimer(Top.vm, Top.id, TRUE, stack[Len(stack) - 1].now)
         [] OTHER                  -> UNCHANGED vmVars

\* An uncaught error.  A plugin that is still loading is discarded; a loaded
\* one is quarantined once.  The quarantine dropped every timer record, so
\* tick finds nothing left to settle.
LuaThrow ==
    /\ TopIs("lua")
    /\ stack' = Below
    /\ CASE Top.origin = "startup" -> DiscardState(Top.vm)
         [] Top.origin # "startup" /\ Top.vm \notin disabled -> Quarantine(Top.vm)
         [] OTHER -> UNCHANGED vmVars

-----------------------------------------------------------------------------
Init == VmInit /\ stack = <<>>

Host ==
    \/ \E key \in Keys, post \in BOOLEAN : HostEvent(key, post)
    \/ \E key \in Keys : HostCommand(key)
    \/ HostTick
    \/ \E v \in Vms : HostLoad(v) \/ HostUnload(v) \/ HostUnloadCallback(v)
    \/ HostShutdown
    \/ Elapse /\ UNCHANGED stack

Runtime == DispatchAdvance \/ DispatchCall \/ TickAdvance \/ TickCall

Plugin == LuaService \/ LuaReturn \/ LuaThrow

Next == Host \/ Runtime \/ Plugin

Spec == Init /\ [][Next]_vars

\* The runtime's own steps are straight-line code.  That a plugin function
\* which is running ends sooner or later, however often it makes the engine
\* fire events, is asked of plugin authors (src/docs/timers/README.md:53).
Fairness ==
    /\ WF_vars(Runtime)
    /\ \A depth \in 1 .. MaxDepth + 2 :
         SF_vars(Len(stack) = depth /\ (LuaReturn \/ LuaThrow))

FairSpec == Spec /\ Fairness
-----------------------------------------------------------------------------
\* A step that starts plugin code.
Starts == Len(stack') > Len(stack) /\ Last(stack').type = "lua"
Started == Last(stack')

\* How calls nest: a tick, a startup chunk and an unload callback are only
\* ever the outermost call, a timer callback runs directly under its tick and
\* its id has left the list of due ids, and no walk has left scripts_.
CallsNest ==
    \A i \in DOMAIN stack :
        LET f == stack[i] IN
        /\ f.type = "tick" => i = 1 /\ f.at <= Len(scripts) /\ f.now <= clock
        /\ f.type = "dispatch" => f.at <= Len(scripts)
        /\ f.type = "lua" =>
             /\ f.vm \in mapped
             /\ f.origin \in {"startup", "unload"} => i = 1
             /\ f.origin = "timer" =>
                  i = 2 /\ stack[1].type = "tick" /\ f.id \notin stack[1].todo

\* Type invariant.
TypeOK == VmTypeOK /\ stack \in Seq(Frame) /\ CallsNest

\* What an outer call still holds while plugin code runs under it stays good
\* for the moment it is used: a command record it copied is registered or its
\* plugin is disabled, a due id never comes to name a timer that is not due,
\* and the plugin whose turn it is stays where the walk left it.
HeldCopiesStayGood ==
    \A i \in DOMAIN stack :
        LET f == stack[i] IN
        /\ f.type = "dispatch" =>
             \A x \in f.todo :
                 /\ f.at \in DOMAIN scripts /\ x.vm = scripts[f.at]
                 /\ x.kind = f.kind
                 /\ x.kind = "command" => x \in regs \/ x.vm \in disabled
        /\ f.type = "tick" =>
             \A id \in f.todo :
                 /\ f.at \in DOMAIN scripts /\ id < nextTimer
                 /\ \A t \in TimersOf(scripts[f.at]) :
                      t.id = id /\ ~t.cancelled => t.due <= f.now

\* scripts_ is a vector the walks iterate: a plugin enters or leaves it only
\* while no dispatch and no tick is in progress, whatever the startup chunk or
\* the unload callback made the engine do.
NoWalkOverChangingScripts ==
    [][scripts' # scripts =>
          \A i \in DOMAIN stack : stack[i].type = "lua"]_vars

\* No function of a quarantined plugin is ever started, although the walks in
\* progress still hold its records and an outer call of the same plugin may
\* have registered new functions after the failure.
QuarantinedNeverRuns == [][Starts => Started.vm \notin disabled]_vars

\* The runtime calls a timer or a command back with the function that was
\* registered for it, whatever ran since the reference was copied.  In the
\* place of an event subscription that was removed during the walk only a
\* later registration of its plugin can be called, never an earlier one.
RunsItsOwnFunction ==
    \A i \in DOMAIN stack :
        LET f == stack[i] IN
        f.type = "lua" =>
            /\ f.origin \in {"timer", "command"} => f.fn = f.want
            /\ f.origin = "event" => f.fn >= f.want

\* A function that is called back is registered at that moment, or the
\* function of a timer that no sweep has met yet: the copies a walk holds of
\* records that are gone never start what was unregistered.
UnregisteredNeverRuns ==
    [][Starts /\ Started.origin \in {"event", "command", "timer"} =>
          \E x \in regs \cup timers :
              x.vm = Started.vm /\ x.fn = Started.fn]_vars

\* A record that is still registered when its turn comes is called, with its
\* own function: neither the failure nor the changes of the callbacks before
\* it, in its own plugin or in another, make the walk pass over it.
SubscriberIsCalled ==
    [][TopIs("dispatch") =>
          \A x \in Top.todo : x \in regs /\ x.vm \notin disabled =>
              \/ Len(stack) \in DOMAIN stack' /\ x \in stack'[Len(stack)].todo
              \/ Starts /\ Started = LuaFrame(x.vm, x.kind, x.id, x.fn, x.fn)]_vars

\* A timer starts only from a live record that is due: one that an earlier
\* callback of the same tick cancelled does not, although its id is still in
\* the list of due ids.
OnlyDueTimersStart ==
    [][Starts /\ Started.origin = "timer" =>
          \E t \in TimersOf(Started.vm) :
              t.id = Started.id /\ ~t.cancelled /\ t.due <= clock]_vars

\* src/docs/plugins/README.md:51 says of a disabled plugin that "LuaCS
\* releases its event callbacks, command callbacks, and timers".
DisabledHoldsNothing ==
    \A v \in disabled : RegsOf(v) = {} /\ TimersOf(v) = {}

\* src/docs/timers/README.md:15 says that timers.after "runs callback once
\* after delay seconds": nothing but the tick calls a pending timer's function.
TimersRunFromTickOnly ==
    \A i \in DOMAIN stack :
        stack[i].type = "lua" /\ stack[i].fn \in {t.fn : t \in timers}
            => stack[i].origin = "timer"
\* Every call into the runtime returns to the server: a repeating timer with
\* interval 0, callbacks that register or cancel during the walk and plugins
\* that fail in the middle of it never keep a walk going.
EveryCallReturns == stack # <<>> ~> stack = <<>>
=============================================================================
