----------------------------- MODULE PluginHost -----------------------------
(***************************************************************************)
(* The life of LuaCS in the server: LuaCSPlugin::Load with its roll-back   *)
(* and Unload, the life of each Lua state from load_plugin to ~ScriptVm,   *)
(* and the native libraries a state maps with require.  Plugin code runs   *)
(* while a state starts, in callbacks, and in finalizers (__gc) while      *)
(* lua_close destroys it; it may open modules and make the engine fire     *)
(* events, whose dispatch walks scripts_.                                  *)
(***************************************************************************)
EXTENDS Naturals, FiniteSets, SequencesExt

CONSTANTS
    Vms,        \* one Lua state per package
    Modules,    \* native libraries
    Hooks,      \* the hooks that Load installs
    Null,       \* a moved-from unique_ptr
    MaxDepth,   \* bound: calls in progress
    MaxHandles  \* bound: modules one state opens

ASSUME HostAssumption ==
    /\ IsFiniteSet(Vms) /\ Null \notin Vms
    /\ Hooks # {}
    /\ MaxDepth \in Nat /\ MaxDepth >= 2 /\ MaxHandles \in Nat

VARIABLES
    lua,        \* lua55.dll is loaded
    api,        \* game_api_ is initialised
    runtime,    \* runtime_ is initialised and has its services
    command,    \* the console command is registered
    pointer,    \* g_runtime is set
    hooks,      \* the installed hooks
    scripts,    \* scripts_
    alive,      \* Lua states that exist
    libs,       \* libs[m]: how often module m is loaded in the process
    handles,    \* handles[v]: module_handles of v
    linked,     \* linked[v]: modules that objects of the Lua state v point into
    stack,      \* calls in progress, innermost first
    loaded,     \* Load has returned true
    up          \* FALSE: the process has died

vars == <<lua, api, runtime, command, pointer, hooks, scripts, alive, libs, handles,
          linked, stack, loaded, up>>

host == <<lua, api, runtime, command, pointer, hooks, loaded>>
native == <<libs, handles, linked>>

\* The steps of Load, and those of Unload, which are also its roll-back.
LoadSteps == <<"lua", "api", "runtime", "command", "hooks", "plugins">>
Teardown == <<"hooks", "command", "pointer", "runtime", "api", "lua">>

Frame(do, vm, at) == [do |-> do, vm |-> vm, at |-> at]
Top == Head(stack)
Running(do) == up /\ stack # <<>> /\ Top.do = do
Goto(frame) == stack' = <<frame>> \o Tail(stack)
Call(frame) == stack' = <<frame>> \o stack
Return == stack' = Tail(stack)

\* Frames in which plugin code of their state runs.
Code == {"start", "call", "close"}

Init ==
    /\ lua = FALSE /\ api = FALSE /\ runtime = FALSE /\ command = FALSE
    /\ pointer = FALSE /\ hooks = {} /\ scripts = <<>> /\ alive = {}
    /\ libs = [m \in Modules |-> 0]
    /\ handles = [v \in Vms |-> <<>>]
    /\ linked = [v \in Vms |-> {}]
    /\ stack = <<>> /\ loaded = FALSE /\ up = TRUE

-----------------------------------------------------------------------------
(* Load and Unload.  A step of Load that fails goes back from the last one  *)
(* that was done.                                                          *)

MetamodLoad ==
    /\ up /\ stack = <<>> /\ ~loaded
    /\ Call(Frame("load", Null, 1))
    /\ UNCHANGED <<host, scripts, alive, native, up>>

NextStep == Goto(Frame("load", Null, Top.at + 1))
RollBack(from) == Goto(Frame("unload", Null, from))
At(step) == Running("load") /\ LoadSteps[Top.at] = step

PreloadLua ==
    /\ At("lua")
    /\ \/ lua' = TRUE /\ NextStep
       \/ lua' = FALSE /\ Return
    /\ UNCHANGED <<api, runtime, command, pointer, hooks, loaded, scripts, alive, native, up>>

\* Mutant: when the virtual table is missing, the library is not released.
InitializeApiNoRelease ==
    /\ At("api")
    /\ \/ api' = TRUE /\ NextStep
       \/ api' = FALSE /\ Return
    /\ UNCHANGED <<lua, runtime, command, pointer, hooks, loaded, scripts, alive, native, up>>

\* game_api_.initialize, then the virtual table of the event manager.
InitializeApi ==
    /\ At("api")
    /\ \/ api' = TRUE /\ NextStep
       \/ api' = FALSE /\ RollBack(6)
       \/ api' = TRUE /\ RollBack(5)
    /\ UNCHANGED <<lua, runtime, command, pointer, hooks, loaded, scripts, alive, native, up>>

InitializeRuntime ==
    /\ At("runtime")
    /\ \/ runtime' = TRUE /\ pointer' = TRUE /\ NextStep
       \/ RollBack(5) /\ UNCHANGED <<runtime, pointer>>
    /\ UNCHANGED <<lua, api, command, hooks, loaded, scripts, alive, native, up>>

RegisterCommand ==
    /\ At("command")
    /\ \/ command' = TRUE /\ NextStep
       \/ RollBack(3) /\ UNCHANGED command
    /\ UNCHANGED <<lua, api, runtime, pointer, hooks, loaded, scripts, alive, native, up>>

InstallHooks ==
    /\ At("hooks")
    /\ \E H \in SUBSET Hooks :
         /\ hooks' = H
         /\ IF H = Hooks THEN NextStep ELSE RollBack(1)
    /\ UNCHANGED <<lua, api, runtime, command, pointer, loaded, scripts, alive, native, up>>

\* load_plugins goes through the packages; out of memory, say, it throws.
LoadsPlugins ==
    /\ At("plugins")
    /\ \/ \E v \in Vms \ ToSet(scripts) :
            Call(Frame("start", v, 0)) /\ alive' = alive \cup {v} /\ UNCHANGED loaded
       \/ Return /\ loaded' = TRUE /\ UNCHANGED alive
       \/ RollBack(1) /\ UNCHANGED <<loaded, alive>>
    /\ Len(stack) < MaxDepth
    /\ UNCHANGED <<lua, api, runtime, command, pointer, hooks, scripts, native, up>>

MetamodUnload ==
    /\ up /\ stack = <<>> /\ loaded
    /\ loaded' = FALSE
    /\ Call(Frame("unload", Null, 1))
    /\ UNCHANGED <<lua, api, runtime, command, pointer, hooks, scripts, alive, native, up>>

TearsDown(step) == Running("unload") /\ Teardown[Top.at] = step
Onward ==
    IF Top.at = Len(Teardown) THEN Return ELSE Goto(Frame("unload", Null, Top.at + 1))

\* Mutant: leaves the hooks for the end.
RemoveHooksLate ==
    /\ TearsDown("hooks") /\ Onward
    /\ UNCHANGED <<host, scripts, alive, native, up>>

RemoveHooks ==
    /\ TearsDown("hooks") /\ Onward
    /\ hooks' = {}
    /\ UNCHANGED <<lua, api, runtime, command, pointer, loaded, scripts, alive, native, up>>

UnregisterCommand ==
    /\ TearsDown("command") /\ Onward
    /\ command' = FALSE
    /\ UNCHANGED <<lua, api, runtime, pointer, hooks, loaded, scripts, alive, native, up>>

ClearPointer ==
    /\ TearsDown("pointer") /\ Onward
    /\ pointer' = FALSE
    /\ UNCHANGED <<lua, api, runtime, command, hooks, loaded, scripts, alive, native, up>>

\* Runtime::shutdown: scripts_.clear() destroys the states one after the other.
ShutdownRuntime ==
    /\ TearsDown("runtime")
    /\ \/ \E i \in DOMAIN scripts :
            /\ scripts[i] \in alive /\ \A j \in 1..(i - 1) : scripts[j] \notin alive
            /\ Call(Frame("close", scripts[i], 0))
            /\ UNCHANGED <<runtime, scripts>>
       \/ /\ \A i \in DOMAIN scripts : scripts[i] \notin alive
          /\ runtime' = FALSE /\ scripts' = <<>>
          /\ Onward
    /\ UNCHANGED <<lua, api, command, pointer, hooks, loaded, alive, native, up>>

ShutdownApi ==
    /\ TearsDown("api") /\ Onward
    /\ api' = FALSE
    /\ UNCHANGED <<lua, runtime, command, pointer, hooks, loaded, scripts, alive, native, up>>

ReleaseLua ==
    /\ TearsDown("lua") /\ Onward
    /\ lua' = FALSE
    /\ UNCHANGED <<api, runtime, command, pointer, hooks, loaded, scripts, alive, native, up>>

-----------------------------------------------------------------------------
(* One Lua state.                                                          *)

\* load_plugin: the startup code has returned, or failed and the state goes.
StartReturns ==
    /\ Running("start")
    /\ scripts' = Append(scripts, Top.vm)
    /\ Return
    /\ UNCHANGED <<host, alive, native, up>>

\* Mutant: the state enters scripts_ before its startup is known to work.
StartFailsListed ==
    /\ Running("start")
    /\ Goto(Frame("close", Top.vm, 0))
    /\ scripts' = Append(scripts, Top.vm)
    /\ UNCHANGED <<host, alive, native, up>>

StartFails ==
    /\ Running("start")
    /\ Goto(Frame("close", Top.vm, 0))
    /\ UNCHANGED <<host, scripts, alive, native, up>>

ConsoleLoad(v) ==
    /\ up /\ stack = <<>> /\ command /\ v \notin ToSet(scripts)
    /\ Call(Frame("start", v, 0))
    /\ alive' = alive \cup {v}
    /\ UNCHANGED <<host, scripts, native, up>>

\* scripts_.erase: the element takes over the pointer of the next one, which is
\* null from then on, and destroys the state it had; the last is destroyed in place.
ConsoleUnload(i) ==
    /\ up /\ stack = <<>> /\ command /\ i \in DOMAIN scripts
    /\ scripts' = IF i = Len(scripts) THEN scripts
                  ELSE [scripts EXCEPT ![i] = scripts[i + 1], ![i + 1] = Null]
    /\ stack' = <<Frame("close", scripts[i], 0), Frame("erase", Null, i)>>
    /\ UNCHANGED <<host, alive, native, up>>

\* ... then the elements after it move up and the last one is dropped.
EraseEnds ==
    /\ Running("erase")
    /\ scripts' = IF Top.at = Len(scripts) THEN Front(scripts)
                  ELSE RemoveAt(scripts, Top.at + 1)
    /\ Return
    /\ UNCHANGED <<host, alive, native, up>>

FreeOnce(L, m) == [L EXCEPT ![m] = @ - 1]

\* Mutant: frees the libraries first.
LibrariesFirst(v) ==
    /\ Running("close") /\ Top.vm = v /\ handles[v] # <<>>
    /\ libs' = FreeOnce(libs, Head(handles[v]))
    /\ handles' = [handles EXCEPT ![v] = Tail(@)]
    /\ UNCHANGED <<host, scripts, alive, linked, stack, up>>

\* lua_close has run the last finalizer: no object of the state is left.
LuaClosed(v) ==
    /\ Running("close") /\ Top.vm = v
    /\ Goto(Frame("free", v, 0))
    /\ alive' = alive \ {v}
    /\ linked' = [linked EXCEPT ![v] = {}]
    /\ UNCHANGED <<host, scripts, libs, handles, up>>

FreeLibraries(v) ==
    /\ Running("free") /\ Top.vm = v
    /\ \/ /\ handles[v] # <<>>
          /\ libs' = FreeOnce(libs, Head(handles[v]))
          /\ handles' = [handles EXCEPT ![v] = Tail(@)]
          /\ UNCHANGED stack
       \/ handles[v] = <<>> /\ Return /\ UNCHANGED <<libs, handles>>
    /\ UNCHANGED <<host, scripts, alive, linked, up>>

-----------------------------------------------------------------------------
(* What plugin code does.                                                  *)

CodeOf(v) == up /\ stack # <<>> /\ Top.do \in Code /\ Top.vm = v

\* lua_module_loader: LoadLibraryW, then LuaCS_OpenModule.
LoadModule(v, m) ==
    /\ CodeOf(v) /\ Len(handles[v]) < MaxHandles /\ Len(stack) < MaxDepth
    /\ libs' = [libs EXCEPT ![m] = @ + 1]
    /\ Call([Frame("open", v, 0) EXCEPT !.at = m])
    /\ UNCHANGED <<host, scripts, alive, handles, linked, up>>

OpenReturns ==
    /\ Running("open")
    /\ handles' = [handles EXCEPT ![Top.vm] = Append(@, Top.at)]
    /\ linked' = [linked EXCEPT ![Top.vm] = @ \cup {Top.at}]
    /\ Return
    /\ UNCHANGED <<host, scripts, alive, libs, up>>

\* Mutant: an open that fails keeps the library.
OpenFailsKeeping ==
    /\ Running("open")
    /\ Return
    /\ UNCHANGED <<host, scripts, alive, native, up>>

\* No export, an error, or no module table.
OpenFails ==
    /\ Running("open")
    /\ libs' = FreeOnce(libs, Top.at)
    /\ Return
    /\ UNCHANGED <<host, scripts, alive, handles, linked, up>>

\* The engine fires an event, from its loop or because plugin code makes it.
EngineFires ==
    /\ up /\ hooks # {} /\ Len(stack) < MaxDepth
    /\ stack # <<>> => Top.do \in Code
    /\ Call(Frame("walk", Null, 1))
    /\ UNCHANGED <<host, scripts, alive, native, up>>

\* The states that lua_close is destroying.
Dying == {stack[i].vm : i \in {j \in DOMAIN stack : stack[j].do = "close"}}

\* dispatch_game_event: for each element of scripts_, its callbacks.
WalkNext ==
    /\ Running("walk")
    /\ \/ Top.at > Len(scripts) /\ Return /\ UNCHANGED up
       \/ /\ Top.at <= Len(scripts) /\ scripts[Top.at] # Null
          /\ stack' = (IF Len(stack) < MaxDepth
                       THEN <<Frame("call", scripts[Top.at], 0)>> ELSE <<>>)
                      \o <<Frame("walk", Null, Top.at + 1)>> \o Tail(stack)
          /\ UNCHANGED up
       \/ /\ Top.at <= Len(scripts) /\ scripts[Top.at] = Null
          /\ up' = FALSE
          /\ UNCHANGED stack
    /\ UNCHANGED <<host, scripts, alive, native>>

CallReturns ==
    /\ Running("call")
    /\ Return
    /\ UNCHANGED <<host, scripts, alive, native, up>>

-----------------------------------------------------------------------------
Next ==
    \/ MetamodLoad \/ PreloadLua \/ InitializeApi \/ InitializeRuntime
    \/ RegisterCommand \/ InstallHooks \/ LoadsPlugins
    \/ MetamodUnload \/ RemoveHooks \/ UnregisterCommand \/ ClearPointer
    \/ ShutdownRuntime \/ ShutdownApi \/ ReleaseLua
    \/ StartReturns \/ StartFails \/ EraseEnds
    \/ \E v \in Vms : ConsoleLoad(v) \/ LuaClosed(v) \/ FreeLibraries(v)
    \/ \E i \in DOMAIN scripts : ConsoleUnload(i)
    \/ \E v \in Vms, m \in Modules : LoadModule(v, m)
    \/ OpenReturns \/ OpenFails
    \/ EngineFires \/ WalkNext \/ CallReturns

Spec == Init /\ [][Next]_vars

-----------------------------------------------------------------------------
TypeOK ==
    /\ <<lua, api, runtime, command, pointer, loaded, up>> \in BOOLEAN \X BOOLEAN \X
         BOOLEAN \X BOOLEAN \X BOOLEAN \X BOOLEAN \X BOOLEAN
    /\ hooks \subseteq Hooks
    /\ scripts \in Seq(Vms \cup {Null})
    /\ alive \subseteq Vms
    /\ libs \in [Modules -> Nat]
    /\ handles \in [Vms -> Seq(Modules)]
    /\ linked \in [Vms -> SUBSET Modules]
    /\ Len(stack) <= MaxDepth
    /\ \A i \in DOMAIN stack :
         /\ stack[i].do \in {"load", "unload", "walk", "erase"} => stack[i].vm = Null
         /\ stack[i].do \in {"start", "call", "close", "free", "open"} => stack[i].vm \in Vms

\* Load's roll-back and Unload (plugin.cpp:384, 463): when LuaCS is out, after a
\* load that failed at any step as after an unload, nothing of it is left.
OutLeavesNothing ==
    (up /\ stack = <<>> /\ ~loaded) =>
        /\ ~lua /\ ~api /\ ~runtime /\ ~command /\ ~pointer
        /\ hooks = {} /\ scripts = <<>> /\ alive = {}
        /\ \A m \in Modules : libs[m] = 0

\* The order of both: whatever can call in, a hook, the console command or plugin
\* code (a finalizer at the end), finds everything it uses still there.
CallersFindTheirHost ==
    /\ hooks # {} => lua /\ api /\ runtime /\ pointer
    /\ command => lua /\ api /\ runtime /\ pointer
    /\ alive # {} => lua /\ api /\ runtime

\* ~ScriptVm (runtime.cpp:135) and lua_module_loader: a library is loaded as long
\* as an object of any Lua state points into it.
CodeOutlivesObjects ==
    \A v \in Vms : \A m \in linked[v] : libs[m] > 0

\* ... and no longer: each load of it is owed to one handle or one open in progress.
LibrariesAreCounted ==
    \A m \in Modules :
        libs[m] = Cardinality({x \in Vms \X (1..MaxHandles) :
                                 x[2] <= Len(handles[x[1]]) /\ handles[x[1]][x[2]] = m})
                  + Cardinality({i \in DOMAIN stack : stack[i].do = "open" /\ stack[i].at = m})

\* dispatch_game_event (runtime_events.cpp:738): a walk over scripts_ meets only
\* states that are neither destroyed nor being destroyed, whatever finalizers make
\* the engine do, with one exception: while a console unload erases an element,
\* a walk can meet its dying state or the null pointer behind it.
WalksMeetLivePlugins ==
    (Running("walk") /\ Top.at <= Len(scripts) /\ \A i \in DOMAIN stack : stack[i].do # "erase")
        => scripts[Top.at] \in alive \ Dying

\* dispatch_game_event (runtime_events.cpp:738) dereferences every element of
\* scripts_: without that exception, the erase of unload_key (runtime_events.cpp:396)
\* would have to be one step for the finalizers of the state that it destroys.
ErasesAtOnce ==
    (Running("walk") /\ Top.at <= Len(scripts)) => scripts[Top.at] \in alive \ Dying
=============================================================================
