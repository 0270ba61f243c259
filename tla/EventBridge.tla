---------------------------- MODULE EventBridge -----------------------------
(***************************************************************************)
(* The hooks around IGameEventManager2::FireEvent (plugin.cpp) and the     *)
(* event contexts Lua reaches through tokens (game_api.cpp).  The pre hook *)
(* duplicates the event, keeps the duplicate on a stack of fixed size and  *)
(* runs the pre callbacks on it; the post hook pops the stack and runs the *)
(* post callbacks.  A callback, and an engine listener, may make the       *)
(* engine fire another event.  The variable calls is the C++ call stack:   *)
(* one frame for each FireEvent in progress, innermost last.               *)
(***************************************************************************)
EXTENDS Naturals, SequencesExt

CONSTANTS
    Events,     \* IGameEvent objects
    NoEvent,    \* the null pointer
    Values,     \* what an event can say
    Capacity,   \* kEventCopyCapacity
    MaxDepth,   \* bound: the number of nested FireEvent calls
    MaxToken    \* bound: no event is fired past this token

ASSUME BridgeAssumption ==
    /\ NoEvent \notin Events
    /\ Capacity \in Nat \ {0}
    /\ MaxDepth \in Nat
    /\ MaxToken \in Nat

VARIABLES
    calls,      \* the FireEvent calls in progress
    heap,       \* the allocated IGameEvent objects and what they say
    copies,     \* event_copies_[0 .. event_copy_count_ - 1]
    overflow,   \* event_copy_overflow_depth_
    contexts,   \* event_contexts: token -> context
    nextToken   \* next_event_token

vars == <<calls, heap, copies, overflow, contexts, nextToken>>

\* copy and token are local variables of the hook that is running; quiet is
\* the dont_broadcast argument.  slot records where the pre hook put the copy
\* (0: nowhere, the call is counted in overflow); the code does not keep it.
Frame ==
    [phase : {"pre", "engine", "done", "post"}, event : Events, quiet : BOOLEAN,
     copy : Events \cup {NoEvent}, token : Nat, slot : 0 .. Capacity]

Context == [event : Events, post : BOOLEAN, cancelled : BOOLEAN, quiet : BOOLEAN]

Init ==
    /\ calls = <<>>
    /\ heap = <<>>
    /\ copies = <<>>
    /\ overflow = 0
    /\ contexts = <<>>
    /\ nextToken = 1

Inner == Last(calls)
Outer == Front(calls)
InnerIs(phase) == calls # <<>> /\ Inner.phase = phase

\* [x \in S |-> f[x]] for the part of f outside S.
Without(f, S) == [x \in DOMAIN f \ S |-> f[x]]
With(f, x, y) == [z \in DOMAIN f \cup {x} |-> IF z = x THEN y ELSE f[z]]

-----------------------------------------------------------------------------
(* begin_event and end_event. *)

BeginEvent(copy, post, quiet) ==
    /\ contexts' = With(contexts, nextToken,
                        [event |-> copy, post |-> post, cancelled |-> FALSE,
                         quiet |-> quiet])
    /\ nextToken' = nextToken + 1

\* Mutant: the token is handed out again.
EndEventReusing(token) ==
    /\ contexts' = Without(contexts, {token})
    /\ nextToken' = token

EndEvent(token) ==
    /\ contexts' = Without(contexts, {token})
    /\ UNCHANGED nextToken

-----------------------------------------------------------------------------
(* Hook_FireEvent. *)

\* The engine fires events by itself, out of a listener, or out of a service
\* that a callback called.
MayFire ==
    /\ calls # <<>> => Inner.phase \in {"pre", "engine", "post"}
    /\ Len(calls) < MaxDepth
    /\ nextToken <= MaxToken

Enter(e, quiet, copy, token, slot) ==
    calls' = Append(calls,
               [phase |-> IF copy = NoEvent THEN "engine" ELSE "pre", event |-> e,
                quiet |-> quiet, copy |-> copy, token |-> token, slot |-> slot])

\* Events the new objects of one call are taken from.
Unallocated == Events \ DOMAIN heap

\* Mutant: off by one at the limit.
FireWithRoomForOneMore(e, x, quiet) ==
    /\ MayFire
    /\ overflow = 0 /\ Len(copies) <= Capacity
    /\ e \in Unallocated
    /\ \/ \E copy \in Unallocated \ {e} :
            /\ copies' = Append(copies, copy)
            /\ heap' = With(With(heap, e, x), copy, x)
            /\ BeginEvent(copy, FALSE, quiet)
            /\ Enter(e, quiet, copy, nextToken, Len(copies) + 1)
       \/ /\ copies' = Append(copies, NoEvent)
          /\ heap' = With(heap, e, x)
          /\ UNCHANGED <<contexts, nextToken>>
          /\ Enter(e, quiet, NoEvent, 0, Len(copies) + 1)
    /\ UNCHANGED overflow

\* The stack has room: DuplicateEvent gives an event or null, and either is
\* pushed.
FireWithRoom(e, x, quiet) ==
    /\ MayFire
    /\ overflow = 0 /\ Len(copies) < Capacity
    /\ e \in Unallocated
    /\ \/ \E copy \in Unallocated \ {e} :
            /\ copies' = Append(copies, copy)
            /\ heap' = With(With(heap, e, x), copy, x)
            /\ BeginEvent(copy, FALSE, quiet)
            /\ Enter(e, quiet, copy, nextToken, Len(copies) + 1)
       \/ /\ copies' = Append(copies, NoEvent)
          /\ heap' = With(heap, e, x)
          /\ UNCHANGED <<contexts, nextToken>>
          /\ Enter(e, quiet, NoEvent, 0, Len(copies) + 1)
    /\ UNCHANGED overflow

\* Mutant: counts only the call that found the stack full.
FireOverflowOnce(e, x, quiet) ==
    /\ MayFire
    /\ overflow # 0 \/ Len(copies) >= Capacity
    /\ e \in Unallocated
    /\ \E copy \in (Unallocated \ {e}) \cup {NoEvent} :
         heap' = Without(With(With(heap, e, x), copy, x), {copy})
    /\ overflow' = 1
    /\ Enter(e, quiet, NoEvent, 0, 0)
    /\ UNCHANGED <<copies, contexts, nextToken>>

\* The stack is full, or was when an outer call arrived: the duplicate, if
\* there is one, is freed at once and the call runs without callbacks.
FireOverflow(e, x, quiet) ==
    /\ MayFire
    /\ overflow # 0 \/ Len(copies) >= Capacity
    /\ e \in Unallocated
    /\ \E copy \in (Unallocated \ {e}) \cup {NoEvent} :
         heap' = Without(With(With(heap, e, x), copy, x), {copy})
    /\ overflow' = overflow + 1
    /\ Enter(e, quiet, NoEvent, 0, 0)
    /\ UNCHANGED <<copies, contexts, nextToken>>

\* Mutant: supersedes the engine's function and leaves the event to it.
EndPreLeaking ==
    /\ InnerIs("pre")
    /\ LET decision == contexts[Inner.token] IN
       calls' = Append(Outer,
           [Inner EXCEPT !.phase = IF decision.cancelled THEN "done" ELSE "engine",
                         !.quiet = decision.quiet, !.copy = NoEvent, !.token = 0])
    /\ EndEvent(Inner.token)
    /\ UNCHANGED <<heap, copies, overflow>>

\* After the pre callbacks.  A cancelled event is freed here and the engine's
\* function is superseded; otherwise it runs with the decided dont_broadcast.
EndPre ==
    /\ InnerIs("pre")
    /\ LET decision == contexts[Inner.token] IN
       IF decision.cancelled
       THEN /\ heap' = Without(heap, {Inner.event})
            /\ calls' = Append(Outer, [Inner EXCEPT !.phase = "done",
                                            !.copy = NoEvent, !.token = 0])
       ELSE /\ calls' = Append(Outer, [Inner EXCEPT !.phase = "engine",
                                            !.quiet = decision.quiet,
                                            !.copy = NoEvent, !.token = 0])
            /\ UNCHANGED heap
    /\ EndEvent(Inner.token)
    /\ UNCHANGED <<copies, overflow>>

\* External: the engine has told its listeners and frees the event.
EngineFires ==
    /\ InnerIs("engine")
    /\ heap' = Without(heap, {Inner.event})
    /\ calls' = Append(Outer, [Inner EXCEPT !.phase = "done"])
    /\ UNCHANGED <<copies, overflow, contexts, nextToken>>

-----------------------------------------------------------------------------
(* Hook_FireEventPost, which Metamod also calls for a superseded event. *)

PostOverflow ==
    /\ InnerIs("done")
    /\ overflow # 0
    /\ overflow' = overflow - 1
    /\ calls' = Outer
    /\ UNCHANGED <<heap, copies, contexts, nextToken>>

\* Mutant: takes the oldest copy.
PostCallbacksFifo ==
    /\ InnerIs("done")
    /\ overflow = 0
    /\ copies # <<>>
    /\ copies' = Tail(copies)
    /\ IF Head(copies) = NoEvent
       THEN calls' = Outer /\ UNCHANGED <<contexts, nextToken>>
       ELSE /\ calls' = Append(Outer, [Inner EXCEPT !.phase = "post",
                                   !.copy = Head(copies), !.token = nextToken])
            /\ BeginEvent(Head(copies), TRUE, Inner.quiet)
    /\ UNCHANGED <<heap, overflow>>

PostCallbacks ==
    /\ InnerIs("done")
    /\ overflow = 0
    /\ IF copies = <<>>
       THEN calls' = Outer /\ UNCHANGED <<copies, contexts, nextToken>>
       ELSE LET copy == Last(copies) IN
            /\ copies' = Front(copies)
            /\ IF copy = NoEvent
               THEN calls' = Outer /\ UNCHANGED <<contexts, nextToken>>
               ELSE /\ calls' = Append(Outer, [Inner EXCEPT !.phase = "post",
                                           !.copy = copy, !.token = nextToken])
                    /\ BeginEvent(copy, TRUE, Inner.quiet)
    /\ UNCHANGED <<heap, overflow>>

\* Mutant: frees the copy and forgets its context.
EndPostKeepingContext ==
    /\ InnerIs("post")
    /\ heap' = Without(heap, {Inner.copy})
    /\ calls' = Outer
    /\ UNCHANGED <<copies, overflow, contexts, nextToken>>

EndPost ==
    /\ InnerIs("post")
    /\ EndEvent(Inner.token)
    /\ heap' = Without(heap, {Inner.copy})
    /\ calls' = Outer
    /\ UNCHANGED <<copies, overflow>>

-----------------------------------------------------------------------------
(* What a callback can do with a token: its own, or one an outer callback   *)
(* kept.  A token whose context is gone does nothing.                       *)

InCallback == InnerIs("pre") \/ InnerIs("post")

EventSet(token, x) ==
    /\ InCallback
    /\ heap' = [heap EXCEPT ![contexts[token].event] = x]
    /\ UNCHANGED <<calls, copies, overflow, contexts, nextToken>>

EventCancel(token) ==
    /\ InCallback
    /\ ~contexts[token].post
    /\ contexts' = [contexts EXCEPT ![token].cancelled = TRUE]
    /\ UNCHANGED <<calls, heap, copies, overflow, nextToken>>

EventSetDontBroadcast(token, quiet) ==
    /\ InCallback
    /\ ~contexts[token].post
    /\ contexts' = [contexts EXCEPT ![token].quiet = quiet]
    /\ UNCHANGED <<calls, heap, copies, overflow, nextToken>>

-----------------------------------------------------------------------------
\* LuaCSPlugin::Unload and a later Load, which Metamod runs between events:
\* free_event_copies, and a new LuaCSGameApiImpl.
Reload ==
    /\ calls = <<>>
    /\ heap' = Without(heap, ToSet(copies))
    /\ copies' = <<>>
    /\ overflow' = 0
    /\ contexts' = <<>>
    /\ nextToken' = 1
    /\ UNCHANGED calls

Engine ==
    \/ \E e \in Events, x \in Values, quiet \in BOOLEAN :
         FireWithRoom(e, x, quiet) \/ FireOverflow(e, x, quiet)
    \/ EngineFires
    \/ Reload

Hooks == EndPre \/ PostOverflow \/ PostCallbacks \/ EndPost

Callback ==
    \E token \in DOMAIN contexts :
        \/ \E x \in Values : EventSet(token, x)
        \/ EventCancel(token)
        \/ \E quiet \in BOOLEAN : EventSetDontBroadcast(token, quiet)

Next == Engine \/ Hooks \/ Callback

Spec == Init /\ [][Next]_vars

-----------------------------------------------------------------------------
\* Calls whose post hook is still to come.
Pending == {i \in DOMAIN calls : calls[i].phase # "post"}

\* The duplicate a call will get back: the one it holds in a local variable,
\* or the one the stack keeps for it.
CopyOf(c) ==
    IF c.phase = "post" THEN c.copy
    ELSE IF c.slot \in DOMAIN copies THEN copies[c.slot] ELSE NoEvent

EventsInUse == {calls[i].event : i \in {j \in DOMAIN calls :
                                          calls[j].phase \in {"pre", "engine"}}}
CopiesInUse == ({CopyOf(calls[i]) : i \in DOMAIN calls} \cup ToSet(copies)) \ {NoEvent}

\* Type invariant.
TypeOK ==
    /\ calls \in Seq(Frame)
    /\ DOMAIN heap \subseteq Events /\ \A e \in DOMAIN heap : heap[e] \in Values
    /\ copies \in Seq(Events \cup {NoEvent}) /\ Len(copies) <= Capacity
    /\ overflow \in Nat
    /\ DOMAIN contexts \subseteq 1 .. nextToken - 1
    /\ \A t \in DOMAIN contexts : contexts[t] \in Context
    /\ nextToken \in Nat \ {0}

\* event_copies_ and event_copy_overflow_depth_ together account for every
\* call whose post hook is still to come: the outer ones have one stack entry
\* each, the innermost `overflow` ones have none, and there are such calls
\* only while the stack is full.  So callbacks resume when nesting unwinds.
StackAccountsForCalls ==
    /\ {calls[i].slot : i \in Pending} \ {0} = DOMAIN copies
    /\ \A i \in Pending, j \in Pending :
         i < j /\ calls[j].slot # 0 => calls[i].slot \in 1 .. calls[j].slot - 1
    /\ overflow <= Len(calls)
    /\ \A i \in DOMAIN calls : calls[i].slot = 0 <=> i > Len(calls) - overflow
    /\ overflow # 0 => Len(copies) = Capacity

\* Events are freed exactly once: what is allocated is what somebody still
\* needs, and no two holders share an object, on the paths through a null
\* duplicate, an overflow, a cancelled event and a reload.
EventsFreedOnce ==
    /\ DOMAIN heap = EventsInUse \cup CopiesInUse
    /\ EventsInUse \cap CopiesInUse = {}
    /\ \A i, j \in DOMAIN calls : i # j =>
         /\ calls[i].phase \in {"pre", "engine"} /\ calls[j].phase \in {"pre", "engine"}
              => calls[i].event # calls[j].event
         /\ CopyOf(calls[i]) = CopyOf(calls[j]) => CopyOf(calls[i]) = NoEvent

\* The contexts are those of the callbacks in progress, each on the copy of
\* its own call: no token outlives the object it gives access to.
TokensReachLiveCopies ==
    /\ DOMAIN contexts = {calls[i].token : i \in {j \in DOMAIN calls :
                                        calls[j].phase \in {"pre", "post"}}}
    /\ \A i \in DOMAIN calls : calls[i].phase \in {"pre", "post"} =>
         LET context == contexts[calls[i].token] IN
         /\ context.event = CopyOf(calls[i]) /\ context.event \in DOMAIN heap
         /\ context.post = (calls[i].phase = "post")

\* A token that a plugin kept never comes to name another event: as long as
\* any call is in progress a token is used once.
TokensAreNotReused ==
    [][/\ \A t \in DOMAIN contexts' :
            IF t \in DOMAIN contexts
            THEN /\ contexts'[t].event = contexts[t].event
                 /\ contexts'[t].post = contexts[t].post
            ELSE t >= nextToken
       /\ nextToken' < nextToken => calls = <<>> /\ DOMAIN contexts = {}]_vars

\* A call as EventCalls sees it: what the callbacks decided so far is in the
\* context while they run.
AbstractCalls ==
    [i \in DOMAIN calls |->
        [phase |-> IF calls[i].phase = "pre" /\ contexts[calls[i].token].cancelled
                   THEN "cancelled" ELSE calls[i].phase,
         event |-> calls[i].event,
         copy  |-> CopyOf(calls[i]),
         quiet |-> IF calls[i].phase = "pre" THEN contexts[calls[i].token].quiet
                                             ELSE calls[i].quiet]]

\* The bridge implements EventCalls: every call gets its own duplicate back,
\* and what the engine does with an event is what the callbacks of that call
\* decided, whatever happened in the calls nested in it.
Abstract == INSTANCE EventCalls WITH calls <- AbstractCalls

ImplementsCalls == Abstract!ECSpec

\* src/docs/ARCHITECTURE.md:100 says that "pre callbacks operate on the live
\* event token and may read/write supported fields": what they wrote, and
\* read back, is what the engine fires.
EngineFiresWhatWasWritten ==
    \A i \in DOMAIN calls :
        calls[i].phase = "engine" /\ CopyOf(calls[i]) # NoEvent
            => heap[calls[i].event] = heap[CopyOf(calls[i])]
=============================================================================
