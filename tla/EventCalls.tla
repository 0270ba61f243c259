----------------------------- MODULE EventCalls -----------------------------
(***************************************************************************)
(* What the event bridge promises of IGameEventManager2::FireEvent, one    *)
(* call at a time: the pre callbacks of a call get a duplicate of its      *)
(* event, what they decide about this call is what the engine does, and    *)
(* the post callbacks of the same call get the same duplicate.  A call     *)
(* whose event was not duplicated runs without callbacks.  Calls nest.     *)
(***************************************************************************)
EXTENDS Naturals, SequencesExt

CONSTANTS
    Events,     \* event objects
    NoEvent     \* the null pointer, not in Events

VARIABLE calls  \* the FireEvent calls in progress, innermost last

Call ==
    [phase : {"pre", "cancelled", "engine", "done", "post"},
     event : Events, copy : Events \cup {NoEvent}, quiet : BOOLEAN]

\* The objects a call still needs: its event until the engine is done with it,
\* its duplicate to the end.
Needs(c) ==
    {c.copy} \cup IF c.phase \in {"pre", "cancelled", "engine"} THEN {c.event} ELSE {}

Needed == UNION {Needs(calls[i]) : i \in DOMAIN calls}

Inner == Last(calls)
Outer == Front(calls)
InnerIs(phase) == calls # <<>> /\ Inner.phase = phase

Begin(e, copy, quiet) ==
    /\ e \notin Needed
    /\ copy # NoEvent => copy \notin Needed \cup {e}
    /\ calls' = Append(calls, [phase |-> IF copy = NoEvent THEN "engine" ELSE "pre",
                               event |-> e, copy |-> copy, quiet |-> quiet])

\* A callback decides about a call whose pre callbacks are running, its own
\* or one further out.
Decide(i) ==
    /\ calls[i].phase \in {"pre", "cancelled"}
    /\ \/ calls' = [calls EXCEPT ![i].phase = "cancelled"]
       \/ \E quiet \in BOOLEAN : calls' = [calls EXCEPT ![i].quiet = quiet]

\* The pre callbacks are over: the engine fires the event as quietly as they
\* decided, or not at all, and then quiet says nothing any more.
PreOver ==
    \/ /\ InnerIs("pre")
       /\ calls' = Append(Outer, [Inner EXCEPT !.phase = "engine"])
    \/ /\ InnerIs("cancelled")
       /\ \E quiet \in BOOLEAN :
            calls' = Append(Outer, [Inner EXCEPT !.phase = "done", !.quiet = quiet])

Fired ==
    /\ InnerIs("engine")
    /\ calls' = Append(Outer, [Inner EXCEPT !.phase = "done"])

Post ==
    /\ InnerIs("done")
    /\ Inner.copy # NoEvent
    /\ calls' = Append(Outer, [Inner EXCEPT !.phase = "post"])

Return ==
    /\ InnerIs("post") \/ (InnerIs("done") /\ Inner.copy = NoEvent)
    /\ calls' = Outer

ECInit == calls = <<>>

ECNext ==
    \/ \E e \in Events, copy \in Events \cup {NoEvent}, quiet \in BOOLEAN :
         Begin(e, copy, quiet)
    \/ \E i \in DOMAIN calls : Decide(i)
    \/ PreOver \/ Fired \/ Post \/ Return

ECSpec == ECInit /\ [][ECNext]_calls
=============================================================================
