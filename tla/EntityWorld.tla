----------------------------- MODULE EntityWorld -----------------------------
(***************************************************************************)
(* Entities and inventories as cs2.weapons and cs2.entities see them.  The  *)
(* engine owns the entities: an index is reused under a new serial number,  *)
(* and an entity that is removed stays until the server's frame ends.       *)
(* LuaCS reaches them by index and keeps native pointers for the length of  *)
(* one call.  Most engine calls fire events, so the callbacks of plugins    *)
(* run nested calls of the same functions in the middle of an outer one.    *)
(***************************************************************************)
EXTENDS Integers, SequencesExt

CONSTANTS
    Index,          \* entity indexes, those of players aside
    Slots,          \* players who have a pawn
    Classes,        \* class names
    SlotOf,         \* classify_weapon_slot: the inventory slot of a class
    None,
    MaxMade,        \* bound: entities made
    MaxCalls,       \* bound: the calls around a loop or a creation, itself included
    MaxRemovals     \* bound: removals in progress when a callback begins one

\* An index with a serial number.
Handle == Index \X (Nat \ {0})

\* mark: "no", "yes" for UTIL_Remove, or the slot whose weapon_remove deleted it.
Entity == [serial : Nat \ {0}, class : Classes, mark : {"no", "yes"} \cup Slots]

ASSUME WorldAssumption ==
    /\ None \notin Slots \cup Index \cup Handle \cup Entity
    /\ {"no", "yes"} \cap Slots = {} /\ DOMAIN SlotOf = Classes
    /\ {MaxMade, MaxCalls, MaxRemovals} \subseteq Nat

VARIABLES
    ents,       \* ents[i]: the entity at index i, or None
    serials,    \* serials[i]: how many entities index i has had
    inv,        \* inv[s]: m_hMyWeapons
    active,     \* active[s]: m_hActiveWeapon
    last,       \* last[s]: m_hLastWeapon
    stack,      \* Lua calls in progress with their service calls, innermost first
    result      \* what a call has just returned, or None

vars == <<ents, serials, inv, active, last, stack, result>>
hands == <<inv, active, last>>

HandleAt(i) == <<i, ents[i].serial>>

\* entity_by_index and entity_by_handle.
EntityByIndex(i) == ents[i] # None
EntityByHandle(h) == ents[h[1]] # None /\ ents[h[1]].serial = h[2]

\* A call: what it does, where it is, for whom, the reverse counter of its loop,
\* the weapon it removes, the entity it makes, the flag it was given, the weapons
\* that are not its business, and whether no callback has run since it began.
Frame(do, s, c, flag) ==
    [do |-> do, at |-> "start", slot |-> s, class |-> c, flag |-> flag, i |-> 0,
     w |-> None, new |-> None, others |-> <<>>, quiet |-> TRUE]

Top == Head(stack)
At(do, place) == stack # <<>> /\ Top.do = do /\ Top.at = place
Goto(place) == stack' = <<[Top EXCEPT !.at = place]>> \o Tail(stack)
Return(r) == stack' = Tail(stack) /\ result' = r
NoResult == result' = None

\* Engine calls during which plugin callbacks may run.
InEngine == {"unlinking", "deleting", "giving", "selecting", "creating", "placing",
             "spawning"}

\* Plugin code runs: from the server's loop, or in a callback.
LuaRuns == stack # <<>> => Top.at \in InEngine

\* A callback does something; the calls under it have been disturbed.
Disturbed ==
    [k \in DOMAIN stack |->
        [stack[k] EXCEPT !.quiet = stack[k].do # "replace", !.others = <<>>]]
Disturb == stack' = Disturbed

\* A call that takes several steps begins.
Removals == {k \in DOMAIN stack : stack[k].do = "remove"}
Begin(frame) ==
    /\ LuaRuns
    /\ IF frame.do = "remove" THEN Cardinality(Removals) < MaxRemovals
       ELSE Len(stack) < MaxCalls
    /\ stack' = <<frame>> \o Disturbed

\* The elements of s in K, in their order.
Kept(s, K) ==
    LET kept[n \in 0..Len(s)] ==
            IF n = 0 THEN <<>>
            ELSE IF s[n] \in K THEN Append(kept[n - 1], s[n]) ELSE kept[n - 1]
    IN  kept[Len(s)]

Live(hs) == Kept(hs, {h \in ToSet(hs) : EntityByHandle(h)})
Without(hs, h) == Kept(hs, ToSet(hs) \ {h})

Init ==
    /\ ents = [i \in Index |-> None]
    /\ serials = [i \in Index |-> 0]
    /\ inv = [s \in Slots |-> <<>>]
    /\ active = [s \in Slots |-> None]
    /\ last = [s \in Slots |-> None]
    /\ stack = <<>>
    /\ result = None

-----------------------------------------------------------------------------
(* The engine.                                                             *)

\* A new entity at a free index.
NewHandle(i) == <<i, serials[i] + 1>>

Make(i, c) ==
    /\ ents[i] = None /\ MapThenSumSet(LAMBDA j : serials[j], Index) < MaxMade
    /\ serials' = [serials EXCEPT ![i] = @ + 1]
    /\ ents' = [ents EXCEPT ![i] = [serial |-> serials[i] + 1, class |-> c, mark |-> "no"]]

\* Entities go between two frames only, and handles to them may stay behind.
EngineDeletes(i) ==
    /\ stack = <<>> /\ ents[i] # None
    /\ ents' = [ents EXCEPT ![i] = None]
    /\ UNCHANGED <<serials, hands, stack>> /\ NoResult

EnginePicksUp(s, i) ==
    /\ stack = <<>> /\ ents[i] # None /\ ents[i].mark = "no"
    /\ \A t \in Slots : ~Contains(inv[t], HandleAt(i))
    /\ inv' = [inv EXCEPT ![s] = Append(@, HandleAt(i))]
    /\ UNCHANGED <<ents, serials, active, last, stack>> /\ NoResult

Mark(i, m) == ents' = [ents EXCEPT ![i].mark = m]

\* SelectItem and DropWeapon.
Select(s, h) ==
    \/ /\ active' = [active EXCEPT ![s] = h]
       /\ last' = [last EXCEPT ![s] = active[s]]
    \/ UNCHANGED <<active, last>>

DropWeapon(s, h) ==
    /\ inv' = [inv EXCEPT ![s] = Without(@, h)]
    /\ active' = [active EXCEPT ![s] = IF @ = h THEN None ELSE @]

-----------------------------------------------------------------------------
(* cs2.weapons: calls that end with one engine call.                       *)

\* weapons.list, count, active, find, has: weapon_count drops dead handles.
WeaponCount(s) ==
    /\ LuaRuns
    /\ inv' = [inv EXCEPT ![s] = Live(@)]
    /\ Disturb
    /\ UNCHANGED <<ents, serials, active, last>> /\ NoResult

Holds(s, i) == EntityByIndex(i) /\ Contains(inv[s], HandleAt(i))

WeaponDrop(s, i) ==
    /\ LuaRuns /\ Holds(s, i)
    /\ DropWeapon(s, HandleAt(i)) /\ Disturb
    /\ UNCHANGED <<ents, serials, last>> /\ NoResult

WeaponDropActive(s) ==
    /\ LuaRuns /\ active[s] # None /\ EntityByHandle(active[s])
    /\ DropWeapon(s, active[s]) /\ Disturb
    /\ UNCHANGED <<ents, serials, last>> /\ NoResult

WeaponSwitch(s, i) ==
    /\ LuaRuns /\ Holds(s, i)
    /\ Select(s, HandleAt(i)) /\ Disturb
    /\ UNCHANGED <<ents, serials, inv>> /\ NoResult

\* RemoveWeapons of the engine, which clears the handles of what it removes.
WeaponRemoveAll(s) ==
    /\ LuaRuns
    /\ ents' = [i \in Index |->
                  IF ents[i] # None /\ Contains(inv[s], HandleAt(i)) /\ ents[i].mark = "no"
                  THEN [ents[i] EXCEPT !.mark = "yes"] ELSE ents[i]]
    /\ inv' = [inv EXCEPT ![s] = <<>>]
    /\ active' = [active EXCEPT ![s] = None]
    /\ last' = [last EXCEPT ![s] = None]
    /\ Disturb
    /\ UNCHANGED serials /\ NoResult

-----------------------------------------------------------------------------
(* weapon_remove.                                                          *)

\* The frame of a call that has asked the engine to take the weapon off.
Removal(s, i, delete) ==
    [Frame("remove", s, ents[i].class, delete) EXCEPT !.at = "unlinking", !.w = HandleAt(i)]

\* RemovePlayerItem, which may leave the handle in the inventory.
RemovePlayerItem(s, h) ==
    inv' = [inv EXCEPT ![s] = Without(@, h)] \/ inv' = inv

RemoveWeapon(s, i, delete) ==
    /\ Holds(s, i)
    /\ Begin(Removal(s, i, delete))
    /\ RemovePlayerItem(s, HandleAt(i))
    /\ UNCHANGED <<ents, serials, active, last>> /\ NoResult

\* Mutant: forgets m_hLastWeapon.
RepairKeepingLast(s, h) ==
    /\ inv' = [inv EXCEPT ![s] = Without(@, h)]
    /\ active' = [active EXCEPT ![s] = IF @ = h THEN None ELSE @]
    /\ UNCHANGED last

\* The explicit repair of the inventory, the active and the last weapon.
Repair(s, h) ==
    /\ inv' = [inv EXCEPT ![s] = Without(@, h)]
    /\ active' = [active EXCEPT ![s] = IF @ = h THEN None ELSE @]
    /\ last' = [last EXCEPT ![s] = IF @ = h THEN None ELSE @]

\* Then UTIL_Remove, through the pointer taken at the start.
RepairAndDelete ==
    /\ At("remove", "unlinking")
    /\ Repair(Top.slot, Top.w)
    /\ \/ Top.flag /\ Mark(Top.w[1], Top.slot) /\ Goto("deleting") /\ NoResult
       \/ ~Top.flag /\ Return("ok") /\ UNCHANGED ents
    /\ UNCHANGED serials

RemoveReturns ==
    /\ At("remove", "deleting")
    /\ Return("ok")
    /\ UNCHANGED <<ents, serials, hands>>

-----------------------------------------------------------------------------
(* weapons.remove_by_classname and weapons.replace_slot: a loop over the    *)
(* inventory from its end, by the count taken before it.                   *)

\* weapons.give; the item may be refused.
WeaponGive(s, i, c) ==
    /\ LuaRuns /\ Make(i, c) /\ Disturb
    /\ inv' = [inv EXCEPT ![s] = Append(@, NewHandle(i))]
    /\ UNCHANGED <<active, last>> /\ NoResult

Matches(do, h, c) ==
    LET d == ents[h[1]].class
    IN  IF do = "replace" THEN SlotOf[d] = SlotOf[c] ELSE d = c

\* What replace_slot leaves alone.
Others(hs, c) == Kept(hs, {h \in ToSet(hs) : ~Matches("replace", h, c)})

\* Mutant: starts one below the last weapon.
StartLoopBelow(do, s, c, flag) ==
    LET weapons == Live(inv[s]) IN
    /\ inv' = [inv EXCEPT ![s] = weapons]
    /\ Begin([Frame(do, s, c, flag) EXCEPT
                 !.at = "loop", !.i = IF weapons = <<>> THEN 0 ELSE Len(weapons) - 1,
                 !.others = IF do = "replace" THEN Others(weapons, c) ELSE <<>>])
    /\ UNCHANGED <<ents, serials, active, last>> /\ NoResult

StartLoop(do, s, c, flag) ==
    LET weapons == Live(inv[s]) IN
    /\ inv' = [inv EXCEPT ![s] = weapons]
    /\ Begin([Frame(do, s, c, flag) EXCEPT
                 !.at = "loop", !.i = Len(weapons),
                 !.others = IF do = "replace" THEN Others(weapons, c) ELSE <<>>])
    /\ UNCHANGED <<ents, serials, active, last>> /\ NoResult

RemoveByClassname(s, c, delete) == StartLoop("removeclass", s, c, delete)
ReplaceSlot(s, c, equip) == StartLoop("replace", s, c, equip)

InLoop == At("removeclass", "loop") \/ At("replace", "loop")

\* weapon_at drops the dead handles it finds at the position it is asked for.
WeaponAt(hs, i) ==
    LET living == {k \in i..Len(hs) : EntityByHandle(hs[k])}
    IN  IF i > Len(hs) THEN hs
        ELSE SubSeq(hs, 1, i - 1)
             \o IF living = {} THEN <<>> ELSE SubSeq(hs, Min(living), Len(hs))

\* Calls weapon_remove for the loop at its position, which waits for the result.
CallRemove(s, h, delete) ==
    /\ stack' = <<Removal(s, h[1], delete)>> \o
                 <<[Top EXCEPT !.at = "removing"]>> \o Tail(stack)

\* It fails where the inventory has become shorter, and where the host cannot read
\* the weapon or reports one that is not valid.
LoopStep ==
    /\ InLoop /\ Top.i > 0
    /\ LET s == Top.slot
           weapons == WeaponAt(inv[s], Top.i)
       IN  \/ /\ inv' = [inv EXCEPT ![s] = weapons]
              /\ Return("failed")
           \/ /\ Top.i <= Len(weapons) /\ ~Matches(Top.do, weapons[Top.i], Top.class)
              /\ inv' = [inv EXCEPT ![s] = weapons]
              /\ stack' = <<[Top EXCEPT !.i = @ - 1]>> \o Tail(stack)
              /\ NoResult
           \/ /\ Top.i <= Len(weapons) /\ Matches(Top.do, weapons[Top.i], Top.class)
              /\ CallRemove(s, weapons[Top.i], Top.do = "replace" \/ Top.flag)
              /\ \E left \in {weapons, Without(weapons, weapons[Top.i])} :
                     inv' = [inv EXCEPT ![s] = left]
              /\ NoResult
    /\ UNCHANGED <<ents, serials, active, last>>

LoopRemoved ==
    /\ At("removeclass", "removing") \/ At("replace", "removing")
    /\ \/ /\ result = "ok"
          /\ stack' = <<[Top EXCEPT !.at = "loop", !.i = @ - 1]>> \o Tail(stack)
          /\ NoResult
       \/ result # "ok" /\ Return("failed")
    /\ UNCHANGED <<ents, serials, hands>>

RemovedByClassname ==
    /\ At("removeclass", "loop") /\ Top.i = 0
    /\ Return("ok")
    /\ UNCHANGED <<ents, serials, hands>>

\* weapon_give: GiveNamedItem makes the weapon and hands it over, or returns null.
GiveReplacement(i) ==
    /\ At("replace", "loop") /\ Top.i = 0
    /\ Make(i, Top.class)
    /\ inv' = [inv EXCEPT ![Top.slot] = Append(@, NewHandle(i))]
    /\ stack' = <<[Top EXCEPT !.at = "giving", !.new = NewHandle(i)]>> \o Tail(stack)
    /\ UNCHANGED <<active, last>> /\ NoResult

GiveFails ==
    /\ At("replace", "loop") /\ Top.i = 0
    /\ Return("failed")
    /\ UNCHANGED <<ents, serials, hands>>

\* Given: equip it if asked to.  If that fails, or the host reports a weapon that
\* is not valid, it is removed again, which may fail too.  If fill_weapon cannot
\* read it, weapon_give fails and nobody removes it.
EquipReplacement ==
    /\ At("replace", "giving")
    /\ \/ ~Top.flag /\ Return("ok") /\ UNCHANGED hands
       \/ /\ Top.flag /\ Holds(Top.slot, Top.new[1])
          /\ Select(Top.slot, Top.new)
          /\ Goto("selecting")
          /\ UNCHANGED inv /\ NoResult
       \/ /\ Holds(Top.slot, Top.new[1])
          /\ stack' = <<Removal(Top.slot, Top.new[1], TRUE)>>
                       \o <<[Top EXCEPT !.at = "rollback"]>> \o Tail(stack)
          /\ RemovePlayerItem(Top.slot, Top.new)
          /\ UNCHANGED <<active, last>> /\ NoResult
       \/ Return("failed") /\ UNCHANGED hands
    /\ UNCHANGED <<ents, serials>>

Equipped ==
    /\ At("replace", "selecting")
    /\ Return("ok")
    /\ UNCHANGED <<ents, serials, hands>>

RolledBack ==
    /\ At("replace", "rollback")
    /\ Return("failed")
    /\ UNCHANGED <<ents, serials, hands>>

-----------------------------------------------------------------------------
(* cs2.entities.                                                           *)

\* Mutant: UTIL_RemoveImmediate.
UtilRemoveAtOnce(i) == ents' = [ents EXCEPT ![i] = None]

\* UTIL_Remove; what is removed already stays so.
UtilRemove(i) == Mark(i, IF ents[i].mark = "no" THEN "yes" ELSE ents[i].mark)

RemoveEntity(i) ==
    /\ LuaRuns /\ EntityByIndex(i)
    /\ UtilRemove(i) /\ Disturb
    /\ UNCHANGED <<serials, hands>> /\ NoResult

\* entities.create and grenades.spawn: the class, and then the callbacks of the
\* engine's creation.
BeginCreation(do, i, c) ==
    /\ Make(i, c)
    /\ Begin([Frame(do, None, c, FALSE) EXCEPT !.at = "creating", !.new = NewHandle(i)])
    /\ UNCHANGED hands /\ NoResult

CreateEntity(i, c) == BeginCreation("create", i, c)
SpawnGrenade(i, c) == BeginCreation("grenade", i, c)

\* The host refuses the state it read of the new entity, or reports it.
Created ==
    /\ At("create", "creating") \/ At("grenade", "creating")
    /\ \/ Return("failed")
       \/ Goto("options") /\ NoResult
    /\ UNCHANGED <<ents, serials, hands>>

\* rollback_created and ~CreatedEntityRollback, then nil and a message.
RollBack ==
    /\ IF EntityByIndex(Top.new[1]) THEN UtilRemove(Top.new[1]) ELSE UNCHANGED ents
    /\ Return("failed")

\* No options, or ones of a wrong type, or a transform, which may fail, or none.
CreateOptions ==
    /\ At("create", "options")
    /\ \/ \E r \in {"ok", "raised"} : Return(r) /\ UNCHANGED ents
       \/ \E place \in {"placing", "placed"} : Goto(place) /\ UNCHANGED ents /\ NoResult
       \/ RollBack
    /\ UNCHANGED <<serials, hands>>

\* Mutant: returns nil without rollback_created when the spawn fails.
CreateSpawnKeeping ==
    /\ At("create", "placing") \/ At("create", "placed")
    /\ \/ \E r \in {"raised", "failed"} : Return(r)
       \/ \E place \in {"spawning", "spawned"} : Goto(place) /\ NoResult
    /\ UNCHANGED <<ents, serials, hands>>

\* The option spawn: of a wrong type, done, failing, or not asked for.
CreateSpawn ==
    /\ At("create", "placing") \/ At("create", "placed")
    /\ \/ Return("raised") /\ UNCHANGED ents
       \/ \E place \in {"spawning", "spawned"} : Goto(place) /\ UNCHANGED ents /\ NoResult
       \/ RollBack
    /\ UNCHANGED <<serials, hands>>

\* The entity is read once more.
CreateRefresh ==
    /\ At("create", "spawning") \/ At("create", "spawned")
    /\ \/ EntityByIndex(Top.new[1]) /\ Return("ok") /\ UNCHANGED ents
       \/ RollBack
    /\ UNCHANGED <<serials, hands>>

\* grenades.spawn goes on: teleport; owner, projectile fields and spawn; fuse and
\* the report, after which the roll-back is released.
GrenadeTeleport ==
    /\ At("grenade", "options")
    /\ \/ Goto("placing") /\ NoResult /\ UNCHANGED ents
       \/ RollBack
    /\ UNCHANGED <<serials, hands>>

GrenadeFields ==
    /\ At("grenade", "placing")
    /\ \/ \E place \in {"spawning", "spawned"} : Goto(place) /\ NoResult /\ UNCHANGED ents
       \/ RollBack
    /\ UNCHANGED <<serials, hands>>

GrenadeReport ==
    /\ At("grenade", "spawning") \/ At("grenade", "spawned")
    /\ \/ EntityByIndex(Top.new[1]) /\ Goto("released") /\ NoResult /\ UNCHANGED ents
       \/ RollBack
    /\ UNCHANGED <<serials, hands>>

\* The runtime guard and the Lua module look at the report once more.
GrenadeChecked ==
    /\ At("grenade", "released")
    /\ \E r \in {"ok", "failed"} : Return(r)
    /\ UNCHANGED <<ents, serials, hands>>

\* entities.is_valid of a table made of the entity with handle h.
IsValid(h) == EntityByIndex(h[1])

-----------------------------------------------------------------------------
Next ==
    \/ \E i \in Index :
         \/ EngineDeletes(i) \/ RemoveEntity(i) \/ GiveReplacement(i)
         \/ \E c \in Classes : CreateEntity(i, c) \/ SpawnGrenade(i, c)
    \/ \E s \in Slots :
         \/ WeaponCount(s) \/ WeaponDropActive(s) \/ WeaponRemoveAll(s)
         \/ \E i \in Index :
              \/ EnginePicksUp(s, i) \/ WeaponDrop(s, i) \/ WeaponSwitch(s, i)
              \/ \E delete \in BOOLEAN : RemoveWeapon(s, i, delete)
              \/ \E c \in Classes : WeaponGive(s, i, c)
         \/ \E c \in Classes, flag \in BOOLEAN :
              RemoveByClassname(s, c, flag) \/ ReplaceSlot(s, c, flag)
    \/ RepairAndDelete \/ RemoveReturns
    \/ LoopStep \/ LoopRemoved \/ RemovedByClassname
    \/ GiveFails \/ EquipReplacement \/ Equipped \/ RolledBack
    \/ Created \/ CreateOptions \/ CreateSpawn \/ CreateRefresh
    \/ GrenadeTeleport \/ GrenadeFields \/ GrenadeReport \/ GrenadeChecked

Spec == Init /\ [][Next]_vars

-----------------------------------------------------------------------------
Places == {"loop", "removing", "rollback", "options", "placed", "spawned",
           "released"} \cup InEngine

Does == {"remove", "removeclass", "replace", "create", "grenade"}

Call ==
    [do : Does, at : Places, slot : Slots \cup {None}, class : Classes, flag : BOOLEAN,
     i : Nat, w : Handle \cup {None}, new : Handle \cup {None}, others : Seq(Handle),
     quiet : BOOLEAN]

TypeOK ==
    /\ ents \in [Index -> Entity \cup {None}]
    /\ serials \in [Index -> Nat]
    /\ inv \in [Slots -> Seq(Handle)]
    /\ active \in [Slots -> Handle \cup {None}]
    /\ last \in [Slots -> Handle \cup {None}]
    /\ stack \in Seq(Call)
    /\ result \in {"ok", "failed", "raised", None}

\* The serial number of an entity is the last one that its index has had.
SerialsAreCurrent ==
    \A i \in Index : ents[i] # None => ents[i].serial = serials[i]

\* No weapon is in an inventory twice.
HeldOnce == \A s \in Slots : IsInjective(inv[s])

\* weapon_remove (game_api_players.cpp:448): a weapon it has deleted is in none of
\* the player's handles, whatever callbacks drop, give or switch in the meantime.
DeletedIsForgotten ==
    \A i \in Index : \A s \in Slots :
        (ents[i] # None /\ ents[i].mark = s) =>
            /\ ~Contains(inv[s], HandleAt(i))
            /\ active[s] # HandleAt(i) /\ last[s] # HandleAt(i)

\* The pointers that a call keeps while callbacks run (game_api_players.cpp:454,
\* entities.cpp:351) stay those of the entities they were taken of.
PointersStayGood ==
    \A k \in DOMAIN stack :
        \A h \in {stack[k].w, stack[k].new} \ {None} : EntityByHandle(h)

Returns(do) == stack # <<>> /\ Top.do = do /\ stack' = Tail(stack)

\* weapons.replace_slot (weapons.cpp:475), if no callback interferes: afterwards the
\* slot holds the replacement alone, or nothing when it has failed, unless it failed
\* in the loop or because weapon_give could not read what it had given (then the
\* slot holds that).  The weapons of the other slots are always those that were
\* there, in their order.
ReplacesOneSlot ==
    [][(Returns("replace") /\ Top.quiet) =>
         LET mine == {h \in ToSet(inv'[Top.slot]) : Matches("replace", h, Top.class)}
         IN  /\ \/ InLoop /\ Top.i > 0
                \/ mine = IF result' = "ok" \/ Top.at = "giving" THEN {Top.new} ELSE {}
             /\ Kept(inv'[Top.slot], ToSet(inv'[Top.slot]) \ mine) = Top.others]_vars

Creates == Returns("create") \/ Returns("grenade")

\* entities.create and grenades.spawn (entities.cpp:325,
\* game_api_advanced_schema_grenades_build.cpp:265): once the host has reported the
\* new entity, a call that returns nil removes it, at whatever step it fails and
\* whatever callbacks do to the entity, until the roll-back is released.
CreateRollsBack ==
    [][(Creates /\ result' = "failed" /\ Top.at \notin {"creating", "released"}) =>
         ents'[Top.new[1]].mark # "no"]_vars

\* docs/entities/README.md:83: "Creation is transactional."
CreateIsTransactional ==
    [][(Creates /\ result' # "ok") => ents'[Top.new[1]].mark # "no"]_vars

\* docs/entities/README.md:156: "Use entity:is_valid() or entities.is_valid(entity)
\* before relying on an object captured earlier".
ValidMeansTheSame ==
    \A h \in Index \X (1..MaxMade) :
        (h[2] <= serials[h[1]] /\ IsValid(h)) => EntityByHandle(h)
=============================================================================
