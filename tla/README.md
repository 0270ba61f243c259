# LuaCS in TLA+

LuaCS is a Metamod plugin for the CS2 dedicated server that embeds Lua 5.5.
Server owners write plugins in Lua; a separate compiler turns each into an
encrypted `.smg` package, and the runtime loads every package into a Lua state
of its own. Everything runs on the one server thread. What makes the program
hard is therefore not parallelism but *re-entrancy* (a plugin callback calls a
service, the service makes the engine do something, the engine calls the
runtime again before the callback has returned), *failure isolation* (any
callback may throw at any depth) and *resources released by hand* (Lua registry
references, engine event objects, library handles).

This directory models that logic, model-checks it with TLC and proves the main
results with TLAPS. Source paths below are relative to the repository.

## 1. Inventory

| Component | Source | State it keeps | Operations | Correct when |
|---|---|---|---|---|
| Script VMs | `src/runtime/runtime.h`, `runtime.cpp`, `runtime_services.cpp` | `scripts_`, `state_map_`, per VM: events, commands, timers, registry references, disabled flag | register, unregister, cancel, load, unload, quarantine, shutdown | every record owns its reference, no reference is lost or released twice, a quarantine is local |
| Dispatch and tick | `runtime_events.cpp`, `runtime.cpp` (`tick`), `runtime_lua.cpp` (`protected_call`) | the C++ call stack: copies of records, due timer ids | `dispatch_game_event`, `emit`, `dispatch_command`, `tick`, `protected_call` | copies are harmless when they are used; failing callbacks do not hide others; timers start only when due |
| Game-event bridge | `src/plugin/plugin.cpp`, `game_api.cpp` | `event_copies_`, overflow depth, event contexts, token counter | `Hook_FireEvent`, `Hook_FireEventPost`, setters, cancel, `set_dont_broadcast` | each call gets its own copy back, each event object is freed once, tokens never reach a dead object |
| Plugin manager | `runtime.cpp` (`load_plugins`, `load_plugin`), `runtime_events.cpp` (`client_command`) | loaded plugins, `plugin_failures_`, `plugin_metadata_cache_` | `lua plugins load, unload, refresh, retry, force_load, force_unload` | one state per package, failures and plugins agree, a command touches only what it named |
| Player registry | `runtime_events.cpp` | `players_` | connect, put in server, activate, disconnect | callbacks see the player of the slot, nothing of an earlier one |
| Host lifecycle | `plugin.cpp` (`Load`, `Unload`) | hooks, command, `g_runtime`, host API | load with roll-back, unload | a failed load leaves nothing behind, and whatever can call in finds what it uses |
| Module loader | `runtime_lua.cpp` | `module_handles`, one service table per DLL | searcher, loader, VM destruction | a library outlives every Lua value that points into it and is released once per load |
| Packages and key | `src/common/smg.cpp` | one key file, one file per package, their temporary files | read, write, key creation | a crash leaves the old or the new file; all processes hold one key |
| Compiler | `src/compiler/main.cpp` | packages on disk | compile, reuse, validate | what it reports is what is on disk |
| Entities, weapons, grenades | `src/modules/{entities,weapons,grenades}`, `game_api_players.cpp`, `game_api_world*.cpp`, `game_api_advanced*.cpp` | handles in inventories; native pointers for the length of a call | give, remove, drop, switch, replace, create, spawn | engine calls on live entities only; a failed call leaves nothing half done |
| Schema properties | `src/modules/properties`, `game_api_advanced_verified_build.cpp` | none; the memory of the entity is the engine's | get, set, raw access, collection size | a call reads and writes exactly what its path names, and tells the network so |
| Other Lua modules | `src/modules/*` | none | argument checks in front of services | ranges |
| Other game API adapters | `src/plugin/game_api*.cpp`, `server_module.cpp` | engine pointers, offsets | calls into the engine | found once, checked before use |

How they interact: the host hooks call the runtime (frames, game events,
connections, commands); the runtime calls plugin functions through
`protected_call`; plugin functions call services through the module ABI; the
services change the VM's records or call host operations; host operations may
make the engine fire an event, which enters the hooks again. Console commands
are the exception: the engine buffers them, so the plugin manager runs between
two other calls only. The compiler is a process of its own: several of them and
the server meet in the files of `config` and `plugins` and nowhere else.

The hazards these interactions bring, each at its line and with the properties
that cover it, are the `hazards` of `PROJECT.json`.

## 2. Modules

| Module | What it is |
|---|---|
| `ScriptVm` | the records and registry references of all plugins, and every operation on them |
| `ScriptRuntime` | extends `ScriptVm` with the call stack of the server thread |
| `EventCalls` | abstract: what a `FireEvent` call is promised |
| `EventBridge` | the hooks, the copy stack and the contexts; implements `EventCalls` |
| `PluginManager` | loading, the console commands and name resolution |
| `PackageBuild` | abstract: what the compiler's reports promise |
| `PackageStore` | compilers and the server over the same files, with crashes; implements `PackageBuild` |
| `PluginHost` | `Load`, `Unload`, the life of a Lua state and of its native libraries |
| `EntityWorld` | inventories and entity creation with plugin callbacks in the middle |
| `SchemaProperties` | typed and raw access to an entity's memory along a schema path |
| `MC*` | instances for TLC (symmetry sets, small constant values) |
| `*_proofs` | theorems and proofs |

**ScriptVm.** `slots[v][r]` is the Lua registry of plugin `v`: the function
pinned at integer reference `r`, or `Free`. Functions have no name in the
program: the history variable `nextFn` numbers them in the order in which they are
pinned, and each record keeps the number of its function, so that "the record's
reference holds the record's function" is a formula (`OwnsItsSlot`). The number is
also the order of the records in their vectors. `luaL_ref` hands out any free slot
(external; it reuses freed slots, which is what makes stale references
dangerous). Event subscriptions and timers have ids from two counters, `nextEvent`
and `nextTimer`, which both start at 1; commands have none. Each `Service*`
action is one service; `Quarantine` is the failure path of `protected_call`;
`CreateState`, `EnterScripts`, `DiscardState`, `Unload` and `Shutdown` are the life
of a Lua state.

**ScriptRuntime.** `stack` holds the calls in progress. A `dispatch` frame is
any of the three walks over `scripts_` with the copy (`todo`) taken from the
current plugin, a `tick` frame is `Runtime::tick`, a `lua` frame is a plugin
function inside `protected_call`. One step is what the thread does between
two calls of plugin code. The host may call in when the stack is empty or when
plugin code is on top of it; frames, loads, unloads and shutdown come only when
it is empty, because the engine runs them from its own loop. A player command is
allowed under plugin code as well: nothing in the code prevents it. Callbacks
that run in vector order in the code run here in the order in which their functions
were pinned, which is the same order.

**EventBridge.** `calls` is the stack of `FireEvent` calls. `heap` holds the
allocated event objects and what they say, `copies` and `overflow` are
`event_copies_` and the overflow counter, `contexts` maps tokens to contexts.
A duplicate that finds the stack full is allocated and freed in the step of the
hook. The engine (fires anywhere, frees an event after firing it) and SourceHook (the
post hook also runs after a superseded call; a recall with a changed
`dont_broadcast` runs it once) are external, modelled as the hooks rely on them.
A callback may use any live token, its own or one an outer callback kept. The
refinement `Abstract` maps a call to its copy: the local variable in the post
hook, or the stack entry it will pop.

**PluginManager.** A package is a file with a key (normalised stem) and a
content: whether its startup returns, the name it declares, its cleanup, and
whether it makes reads of undefined globals raise an error. Target resolution
is the set of keys that match; a set of any size but one is refused. Loops
(`load_plugins`, `retry`) run one package per step: `queue` is the set of rounds
they still have to go. `load_plugins` takes them in the order of the directory
listing; `retry` sorts the keys that have failed (`KeyOrder`). `up`
becomes FALSE when the process aborts; `Start` is a new process or an unload and
load of LuaCS.

**PackageStore.** Several compilers and the server are processes with no lock
between them; a step is what a process does between two file operations, and it
may die after any of them. `disk[f]` is the value of a file (a key, or the text
and the key a package was made with), `Absent` or `Damaged`. A temporary file
has two parts, because a stream writes what is larger than its buffer in
several pieces and two writers of one name can each contribute one; a file
whose parts come from one write is whole, and everything else is `Damaged`,
which is what the authentication tag detects. Both the key and the packages are
saved by the same steps (`OpenTmp` to `Move`), each of which may fail, the opening
of the temporary file included (`WriteError`).
`MoveFileExW` is external: it fails when another process has the temporary file
open or reads the target. Encryption and bytecode are abstracted to "this text
under this key". `clash` is a history variable: the files that two processes
have been saving at the same time. The refinement takes `disk` as the packages
of `PackageBuild` and each report of `compile_one` as its step; it promises
nothing once `clash` is not empty, because then the documents' promise is
refuted (section 5).

**PluginHost.** `Load` and `Unload` are frames on the call stack that go through
`LoadSteps` and `Teardown`; a step that fails enters the tear-down at the place
where the code's roll-back starts. A Lua state is `alive` from `lua_newstate` to the
end of `lua_close`; `handles` are its module handles, `libs` the loader's count
of each library, `linked` the modules that objects of the state point into.
Finalizers run while `lua_close` is on the stack and may open modules or make the engine
fire an event. `ConsoleUnload` erases an element of `scripts_` as the vector
does, by moving the later elements down, which leaves a moved-from null pointer
behind the element whose destructor runs. A module whose open function fails is
taken to leave no object of its own behind: nothing else would justify the
`FreeLibrary` in the loader.

**EntityWorld.** The engine owns the entities; its part is external: an index is
reused under a new serial, a removed entity stays until the frame ends, pickups
and deletions happen between frames. `inv`, `active` and `last` are the handles
of a player's weapon services. A call of several steps is a frame; while it is
at a place of `InEngine`, an engine call fires events and plugin callbacks may
begin further calls. Calls that end with one engine call are one step, since
nothing of them is left when callbacks run. Every filter of an inventory is
`Kept(s, K)`, the elements of `s` that are in the set `K`, in their order. `w` and `new` are the native
pointers a frame keeps, named by the handle they were taken of. A loop
also stops at a weapon that the host cannot read or reports invalid (`LoopStep`),
and `weapon_give` may fail after the item is in the inventory, where it stays
(`EquipReplacement`). `quiet` and `others` are history, used by `ReplacesOneSlot`.

**SchemaProperties.** Memory is a set of blocks of cells: the entity, objects
it points to, the storage of its collections. A search or a resolution is the set of
what it finds, so that failure is the empty set. A byte has few values and the
widest number two bytes, which keeps every limit (the sign, the width, the largest
Lua integer) where the code has it, at small numbers. A float, a vector, a handle and a pointer
are one cell each; booleans and angles behave as these do and are left out. The
schema, the manipulator of a collection and the moves of the engine are
external. `Coerce` is what the readers of Lua make of a value of another type: a
number is a text and an index too, digits are a number. `Narrow` is the narrowing of a
double, or of the components of a vector, to float32: it rounds, loses what is too
small and makes infinity of what is too large (which a vector refuses). `Set` is a call whose value
Lua converts by itself; for a table
`BeginSet` reads the metadata, metamethods may then make any call of this
module and make the engine move memory, and `EndSet` converts and resolves once more.
`ResizeFallsShort` is a resize after which the engine reports another size than was
asked for: the call fails, the collection has changed, and the network is told nothing. Calls ask for network
notification; one that does not does the same and tells nobody. Pointers are
set to null only, and raw writes reach no pointer: a plugin that forges an
address is on its own. `Sizes` and `References` say how the objects of a class
are laid out: `LayoutAssumption` asks for what a compiler guarantees, one field of
a name, inside its object, apart from every other field (only bit fields share a
cell, and unions are left out), and nothing else where a
pointer or the header of a collection is. Nothing keeps two pointers of an entity
from leading to one object: requests through both see each other's writes, which
is the case `SameObject` of `OnlyItsPathChanges`. The objects that an entity points to and the elements of its
collections hold no references themselves (`LayoutAssumption`). This is a limit of
the model: the code follows any number of pointers and collections, the model, its
runs and its theorems one. Embedded objects
may hold any, and paths may be of any length. Listing and walking metadata, its descriptive flags and
property references (a stored path) are not modelled.

## 3. Runs

| Run | Instance | Shows |
|---|---|---|
| `runtime` | 2 plugins, 2 references each, ids below 3, 3 functions pinned, clock to 1, nesting to 3 host calls | records and references stay consistent, copies held over re-entrant calls start nothing that is not registered, failures, timers |
| `runtime_fair` | 1 plugin, interval 0 | every call into the runtime returns |
| `events` | 5 objects, copy stack of 2, 4 nested calls | pairing, ownership, tokens, refinement |
| `plugins` | 2 packages with keys of their own, 6 contents, 3 names | manager state stays consistent |
| `packages` | 2 compilers and the server, 1 source, a good and a bad text, 2 keys, 1 crash | no damage but by a clash, one key, only authentic text runs, refinement of `PackageBuild` |
| `host` | 3 plugins, 2 libraries, 2 hooks, 7 calls deep, 2 handles a state | roll-back, order of tear-down, libraries, walks during destruction |
| `world` | 3 entity indexes, 1 player, 2 classes, 3 entities made, 2 nested removals | inventories, pointers, replacement, roll-back of creations |
| `schema` | entity with a base class, an embedded and a pointed-to object, an array, an array of pointers with one to that object, a text, a collection; 2 calls, 2 conversions in progress | paths stay in their block, reads give back what was written, calls keep to their path, also when a resize falls short, changes are announced |
| `disabled_holds`, `events_writes`, `packages_whole`, `world_create` | small | one documented statement each that the code does not keep (section 5) |

Bounds. Two registry slots suffice for one to be freed and reused while another
is held; two plugins for a walk to cross a failing one; nesting of three for an
outer walk, a callback and an inner walk that changes what the outer one holds;
delays 0 and 1 with a clock of 1 for due, not yet due and re-armed timers.
`MaxId` is the real limit of the counters, made small; `MaxPins` bounds the functions
that are pinned between two shutdowns, three being one for each slot and one that
reuses a slot. A copy stack of two with
four nested calls fills, overflows twice and unwinds; with one entry fewer or
more nothing new can happen, since the code only compares the count with the
capacity. Two packages are enough for shared names and, in a further
configuration, shared keys. Files are independent of each other, so one package
and the key file show what two processes can do to a file; two keys tell an old
key from a new one; one crash can fall between any two operations and what it
leaves is met by every later process. Three plugins give `scripts_` an element
before and one behind the one that is erased; seven frames are an unload, a
destruction, an open, a walk and a call inside it, and one more of each of the
last two. Three entities with two classes give a loop a weapon to
remove, one to leave and one that a callback makes; indexes are
reused because three entities may all be made at one index. Two property
calls are one with a metamethod that makes another, or one after another that moved
the memory; bytes of four values give widths one and two a limit on either side of which values are tried.

Symmetry is used only where the constants are interchangeable and only safety
is checked; the fairness run uses none. Deadlock is checked except in `host`,
where the process may have died, and in `world` and `schema`, where the bounds on
entities, nesting and calls can leave a state without a step.

The type invariants of `PluginManager`, `PackageStore`, `PluginHost`, `EntityWorld`
and `SchemaProperties` have configurations of their own on the same instances
(`MC*_TypeOK.cfg`) and are not among the runs, which are kept for what could
go wrong. The one of `EntityWorld` also checks `SerialsAreCurrent` and
`HeldOnce`, two facts about the engine's bookkeeping that its actions must keep.

Fairness (`runtime_fair`). The runtime's own steps are straight-line code (weak
fairness). A plugin function that is running ends sooner or later; it may make
the engine fire events in between, so this is strong fairness of its return or
throw at each depth. The documents ask this of plugin authors
(`docs/timers/README.md:53`); a plugin that loops forever does hang the server.

## 4. Proofs

TLAPS proves, for all values of the constants that satisfy the named
assumptions, the statements listed under `theorems` in `PROJECT.json`.

*ScriptVm_proofs.* `VmInv` is the conjunction of the type invariant and the
four state invariants, with "unowned slots are free" made explicit per VM. It
is inductive as a whole and not in parts: releasing the references of a
quarantined plugin keeps `OwnsItsSlot` only because no two records share a
slot, which follows from `OwnsItsSlot` and from the fact that no function is pinned
for two records (`Numbered`). The two action
properties follow step by step from it. The runs check these properties
through `ScriptRuntime`, whose every step is a step of `ScriptVm`.

*ScriptRuntime_proofs.* `RuntimeInv` adds `StackInv`: each frame of the stack
is `Good` (what it holds is registered, or its plugin is disabled, or the id
still names the same timer) and timer callbacks sit directly on their tick.
`Stable` collects what every step of ScriptVm preserves of what frames rely on;
one lemma per action shows it, and three lemmas (push, replace, pop) lift it to
the stack. That each step is a step of ScriptVm, which holds by the way the module
is written, is a lemma (`RuntimeImplementsVm`) that carries the ScriptVm theorems
over. `OnlyRegisteredRun` needs `Good` at the moment of the call: a record of a
walk whose reference is still taken has either been kept or been followed by a later
registration in the same slot, so what is called back is registered.

*EventBridge_proofs.* `BridgeInv` is `TypeOK`, `SlotInv`, `HeapInv` and
`TokenInv`: the three state properties call by call, over `Back`, the copy the
call at each depth will get back. `SlotInv` needs one fact the properties do
not state, that a call in its post hook had a stack entry; without it a counted
call could reach its post callbacks and the counter would be off when it
returns. `InnerFacts` is the heart of it: with no overflow the innermost pending
call owns the top of the stack, otherwise it owns nothing, so the hook that pops
blindly pops the right copy. From there one lemma per action gives the next
invariant (`KeptBack`: the outer calls are not disturbed), and one per action
shows that the step is a step of `EventCalls` or not seen by it (`Refinement`).
The theorems hold for any capacity, any nesting depth and any set of events;
`MCEventBridge` checks capacity 2 and depth 4.

*PluginManager_proofs.* `ManagerInv` is `TypeOK`, `OneStatePerPackage`,
`CacheIsCurrent` and `QueueIsAhead`. The last is the strengthening:
`load_plugins` calls the constructor without looking for a loaded plugin of the
same key, so that a package has one state only because the rounds still to go
are of packages that are not loaded. Each step is `Start` or has one of six
effects on plugins, failures and cache (nothing, one disabled, loaded, dropped,
replaced, or a failure forgotten), and one lemma per effect keeps the invariant.
`KeysAreDistinct`, that no two file stems normalise to one key, is a hypothesis
of the theorems about states and cache, and a real one:
`MCPluginManager_OneStatePerPackage.cfg` refutes them without it. What is said
of types and of lost plugins holds for any keys.

*PackageStore_proofs.* `StoreInv` is the three state properties with `TypeOK`
and five facts about processes between two operations: which file each has in
hand (`Targets`), that only text that compiles is on its way to a package
(`GoodFiles`), that outside `clash` a file has one saver, whose temporary file
holds what it has written so far (`OneSaver`), that a key is made only where
there is none (`OneKey`), and that nothing runs in a server that is down
(`RunsWhileUp`). None of the properties is inductive alone: a `Move` keeps the
target whole because of `OneSaver`, and the keys agree because the key file
does not change under a process that has read it, which is `OneKey`. One lemma
per action. `MarkersAssumption` says that the values which stand for "no file"
and "damaged" are no contents. `Refinement` shows that a report of the
compiler is a step of `PackageBuild` and everything else is not seen by it. All
this holds for any number of compilers, packages, sources and crashes.

*PluginHost_proofs.* `HostInv` says which calls can be on the stack and what
each has below it (`CallsNest`), what of the host's resources exists when the
outermost call has come to its step (`HostPhase`: this is the order of `Load`,
of its roll-back and of `Unload`), which Lua states exist, namely those in
`scripts_` and the one that is starting, closing or being erased
(`StatesAreKnown`), and that a library's count is the number of its handles in
all states, plus one while it is being opened (`HandlesAreHeld`). The last needs
that handles are counted over finitely many states, hence `IsFiniteSet(Vms)`;
the bound on the depth must leave room for the call and the destruction under
it, `MaxDepth >= 2`. The properties about callers, code and walks follow from
these four without another induction.

*EntityWorld_proofs.* `WorldInv` says of each call in progress that it has set
what its place needs (`Fits`) and that the entities it points to are there
(`PointsWell`), which holds because no entity goes while a call is in progress;
and that no handle a player has, in his inventory or as active or last weapon,
is of an entity that `weapon_remove` has deleted for him (`Forgotten`, which is
`DeletedIsForgotten` said handle by handle). `Forgotten` needs `PointsWell`: the
entity that a repair marks is the one whose handle it takes out of the player's
hands only while the pointer taken at the start is good. One lemma per action
shows that the step keeps entities, marks none that is held but by a repair,
and adds only handles of new or unmarked entities. `Kept` is a recursive
function; what it returns is proved by well-founded induction over its
positions.

`ReplacesOneSlot` rests on `ReplaceInv`, which adds two parts. `HoldInv`: the
serial number of an entity is the last of its index, every handle of an
inventory has been given out, and no weapon is in an inventory twice (if one
were, taking it out would shift the loop by two positions, and what is new could
be there already). `QuietStack`: a replacement that no callback has disturbed is
on top of the stack or waits for its own `weapon_remove`, since whatever else
begins disturbs the calls under it; and by the place it has come to, `Suits`
says what the inventory is: while it loops, nothing of its slot behind the
position of its counter; then the new weapon alone; after a roll-back nothing;
and at every place the other weapons of the start, in their order. While a
`weapon_remove` is under way this is said of the inventory as the repair will
leave it, so that it does not matter whether `RemovePlayerItem` has taken the
handle out. It follows that an undisturbed loop never finds its position gone
and never sees a removal fail, and that the replacement is there to be equipped:
the failing returns that the code has for these cases need a callback. Two failures
need none, and the property names them: the loop stops at a weapon the host cannot
read, and `weapon_give` cannot read what it has given, which stays.

*SchemaProperties_proofs.* `TypeOK` is inductive: its part `HeapOK` says that
every reference of the entity is null or leads to an allocated block other than
the entity, large enough for the object, and that no other reference leads to
the storage of a collection. Without the last, a resize would free the storage
under a second reference. What a path resolves to (`ResolveFacts`) is shown by
induction over its parts, as a set of numbers that contains 0 and the successor
of each: after every part there is one place at most, it is in an allocated
block, and if it is in the entity, its references are where `References` has
them. One lemma per operation shows that its write meets no reference, or is of
a null pointer, or is a resize, which leads its header to the new storage.
`PathsStay` follows at once. `ReadsBack` needs three more things: the data round
trip, for every even number of byte values and both widths, by signs and limits, and
for every narrowing that changes nothing when it is repeated;
that a write is read at the same address; and that the path still resolves there
after the write, since what it followed are references that the write did not
change, and a pointer that is itself set to null is the end of its path
(`SameResolve`, `InEntityStays`).

`OthersUntouched` compares two paths. `Within` says that what a path comes to lies
in the field and the element of each of its parts, or behind the one pointer it has
followed there (`WalkStaysWithin`). Fields and elements are apart, so two walks
whose ends share a cell go through the same field and element at every part they
both have (`CommonWalk`), and the requests meet (`OverlapMeets`), unless two
pointers lead to the block. That settles the cells a call writes
(`ChangeOverlaps`). A call that changes a reference can also change where another
path leads: the first part at which the walks before and after differ reads that
reference (`ChangeIsRead`), the walk up to there is a path to the reference itself,
no longer than the one that was written (`NoLonger`), and so it meets it
(`ReadsMeet`). After a resize, a path that went into the old storage and still
leads somewhere leads to the same offset in the new one (`MovedWalk`), where the
elements that remain were copied (`ElementsRemain`). In the other direction,
`NetworkIsTold` needs the first part only: offset and index are taken there, no
later part changes them (`FirstIsKept`), and what is written lies within that field
and that element (`ChangeIsTold`). `StepOutcome` says for every action that it
writes at the place of its request, resizes there, or leaves memory alone.

The first attempt at `OthersUntouched` was refuted: two pointers of a schema to one
class may be equal, which the instance did not have. The property now has that
case, and the instance an array of pointers with one that leads to the object of
another field.

Only model-checked: `EveryCallReturns`, since liveness is out of the prover's
reach.

## 5. Where documents and code differ

Each is a run of its own.

1. `disabled_holds`: a callback that is still running when a nested callback
   of its own plugin fails can register again on the quarantined VM.
2. `events_writes`: pre callbacks write to the duplicate, the engine fires the
   original.
3. `packages_whole`: two compilers share the temporary file of a package, and a
   mixture of both can replace the last valid package.
4. `world_create`: a creation can fail before the roll-back is armed, past it by
   a Lua error, or after it was released; the entity stays.

Further statements that the code does not keep are stated in the modules, with a
configuration to see each, and are not among the runs:

| Configuration | Statement |
|---|---|
| `MCScriptRuntime_TimersRunFromTickOnly.cfg` | timers start from the tick only (`docs/timers/README.md:15`); `events.off` frees a reference that a dispatch still holds, and a timer that reuses it is called by the dispatch |
| `MCPluginManager_OneStatePerPackage.cfg` | a package has one Lua state; two stems with one key and a refresh by declared name load one twice |
| `MCPluginManager_RefusedOnlyForItsCleanup.cfg` | only a cleanup that fails refuses an unload; a disabled plugin that defines one can only be forced |
| `MCPluginManager_BadPackageIsContained.cfg` | a bad package does not end the server; metadata is read outside a protected call |
| `MCPackageStore_RuntimeInventsNoKey.cfg` | the server invents no key beside packages (`docs/SMG_FORMAT.md:49`); a compiler may write one after the server has counted them |
| `MCPluginHost_ErasesAtOnce.cfg` | a walk over `scripts_` meets live states only (`dispatch_game_event` dereferences every element); while a console unload erases an element, finalizers of the dying state may make the engine fire an event, whose walk meets that state or the null pointer behind it |
| `MCEntityWorld_ValidMeansTheSame.cfg` | a valid entity table means the entity it was made of (`docs/entities/README.md:156`); `is_valid` looks at the index alone |
| `MCSchemaProperties_OverflowIsRefused.cfg` | numeric overflow returns an error (`docs/properties/README.md:221`); a finite double too large for a float32 field is written as infinity |

One more consequence of the file protocol shows in the states of `packages`: if
a process dies while two create the key, the key file can be left damaged, and
every later start refuses it until it is deleted by hand.

## 6. Plan

Done: all modules of section 2, and proofs of every property of the runs that TLAPS
can state. What is left, in this order:

1. A composition of `EventBridge` with `ScriptRuntime`: the dispatches of the
   hooks are the dispatches of the runtime.
2. Pure algorithms: command parsing, name normalisation, the compiler's literal
   checks.

## Not modelled

- The cipher and the Lua compiler: libraries. A package is its text and key.
- The player registry: assignments to one record per slot. Whether a client can
  be disconnected inside its own callback, or a slot reused without a
  disconnect, is up to the engine, and this code does not tell.
- Lua modules that check arguments and forward them: no state, no order.
- Listing, walking and references of `cs2.properties`: repetitions of the calls
  `SchemaProperties` models.
- Ray casts: sequential calls into the engine.
- Signature scanning: sequential byte matching at start-up.
- Message wording, console layout, build scripts.
- Vendored Lua (about 32,000 of the 54,000 lines that are neither headers nor
  tests): third-party; what the runtime relies on (`luaL_ref`, `luaL_unref`,
  `lua_close` running finalizers) is modelled where it is used. The share of
  LuaCS's own code that the modules stand for is therefore larger than a count
  over all files suggests.
