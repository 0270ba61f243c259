------------------------- MODULE EventBridge_proofs -------------------------
(***************************************************************************)
(* Proofs about EventBridge, for any capacity of the copy stack and any    *)
(* depth of nesting: the copy stack and the overflow counter account for   *)
(* the calls in progress, and therefore every call gets its own copy back, *)
(* every event object is freed once, and the bridge implements EventCalls. *)
(***************************************************************************)
EXTENDS EventBridge, SequenceTheorems, TLAPS

Alive(f) == f.phase \in {"pre", "engine"}
Calling(f) == f.phase \in {"pre", "post"}

\* StackAccountsForCalls, call by call.
SlotInv ==
    /\ \A i \in 1 .. Len(calls) : calls[i].phase # "post" => calls[i].slot \in 0 .. Len(copies)
    /\ \A k \in 1 .. Len(copies) :
         \E i \in 1 .. Len(calls) : calls[i].phase # "post" /\ calls[i].slot = k
    /\ \A i, j \in 1 .. Len(calls) :
         i < j /\ calls[i].phase # "post" /\ calls[j].phase # "post" /\ calls[j].slot # 0
            => calls[i].slot \in 1 .. calls[j].slot - 1
    /\ overflow <= Len(calls)
    /\ \A i \in 1 .. Len(calls) : calls[i].slot = 0 <=> i > Len(calls) - overflow
    /\ overflow # 0 => Len(copies) = Capacity
    /\ \A i \in 1 .. Len(calls) : calls[i].phase = "post" => calls[i].slot # 0

\* The copies the calls will get back, as a function of their depth.
Back == [i \in 1 .. Len(calls) |-> CopyOf(calls[i])]

\* EventsFreedOnce, call by call.
HeapInv ==
    /\ \A i \in 1 .. Len(calls) :
         /\ Alive(calls[i]) => calls[i].event \in DOMAIN heap
         /\ Back[i] # NoEvent => Back[i] \in DOMAIN heap
    /\ \A e \in DOMAIN heap : \E i \in 1 .. Len(calls) :
         e = Back[i] \/ (Alive(calls[i]) /\ e = calls[i].event)
    /\ \A i, j \in 1 .. Len(calls) :
         /\ Alive(calls[i]) => calls[i].event # Back[j]
         /\ i # j /\ Alive(calls[i]) /\ Alive(calls[j]) => calls[i].event # calls[j].event
         /\ i # j /\ Back[i] = Back[j] => Back[i] = NoEvent

\* TokensReachLiveCopies, call by call, and no two calls share a token.
TokenInv ==
    /\ \A i \in 1 .. Len(calls) : Calling(calls[i]) =>
         /\ calls[i].token \in DOMAIN contexts
         /\ contexts[calls[i].token].event = Back[i]
         /\ contexts[calls[i].token].post = (calls[i].phase = "post")
    /\ \A t \in DOMAIN contexts : \E i \in 1 .. Len(calls) :
         Calling(calls[i]) /\ t = calls[i].token
    /\ \A i, j \in 1 .. Len(calls) :
         i # j /\ Calling(calls[i]) /\ Calling(calls[j]) => calls[i].token # calls[j].token

\* The inductive invariant.
BridgeInv == TypeOK /\ SlotInv /\ HeapInv /\ TokenInv

-----------------------------------------------------------------------------
(* Sequences and functions. *)

LEMMA FrontFacts ==
    ASSUME NEW S, NEW s \in Seq(S), s # <<>>
    PROVE  /\ Len(s) \in Nat /\ Len(s) >= 1 /\ DOMAIN s = 1 .. Len(s)
           /\ Last(s) = s[Len(s)] /\ Last(s) \in S
           /\ Front(s) \in Seq(S) /\ Len(Front(s)) = Len(s) - 1
           /\ \A i \in 1 .. Len(s) - 1 : Front(s)[i] = s[i]
<1>1. /\ Len(s) \in Nat /\ Len(s) >= 1 /\ DOMAIN s = 1 .. Len(s)
      /\ \A i \in 1 .. Len(s) : s[i] \in S
  BY LenProperties, ElementOfSeq, EmptySeq
<1>. DEFINE n == Len(s) - 1
<1>2. n \in Int /\ n >= 0 /\ \A i \in 1 .. n : s[i] \in S
  BY <1>1
<1>. HIDE DEF n
<1>3. /\ SubSeq(s, 1, n) \in Seq(S) /\ Len(SubSeq(s, 1, n)) = n
      /\ \A i \in 1 .. n : SubSeq(s, 1, n)[i] = s[i]
  BY <1>2, SubSeqProperties
<1>4. Front(s) = SubSeq(s, 1, n)
  BY DEF Front, n
<1>5. Len(s) \in 1 .. Len(s)
  BY <1>1
<1>6. Last(s) = s[Len(s)] /\ Last(s) \in S
  BY <1>1, <1>5 DEF Last
<1>7. n = Len(s) - 1
  BY DEF n
<1>. QED  BY <1>1, <1>3, <1>4, <1>6, <1>7

LEMMA AppendFacts ==
    ASSUME NEW S, NEW s \in Seq(S), NEW x \in S
    PROVE  /\ Append(s, x) \in Seq(S) /\ Len(s) \in Nat
           /\ Len(Append(s, x)) = Len(s) + 1
           /\ \A i \in 1 .. Len(s) : Append(s, x)[i] = s[i]
           /\ Append(s, x)[Len(s) + 1] = x
BY AppendProperties, LenProperties

\* The types of single variables and calls.
LEMMA Types ==
    ASSUME TypeOK
    PROVE  /\ Len(calls) \in Nat /\ DOMAIN calls = 1 .. Len(calls)
           /\ \A i \in 1 .. Len(calls) : calls[i] \in Frame
           /\ Len(copies) \in Nat /\ DOMAIN copies = 1 .. Len(copies)
           /\ \A k \in 1 .. Len(copies) : copies[k] \in Events \cup {NoEvent}
           /\ Capacity \in Nat /\ overflow \in Nat /\ nextToken \in Nat
BY LenProperties, ElementOfSeq, BridgeAssumption DEF TypeOK

\* What a call with some phase and slot will get back.
LEMMA CopyFacts ==
    ASSUME TypeOK, NEW f \in Frame
    PROVE  /\ f.phase = "post" => CopyOf(f) = f.copy
           /\ f.phase # "post" /\ f.slot \in 1 .. Len(copies) => CopyOf(f) = copies[f.slot]
           /\ f.phase # "post" /\ f.slot \notin 1 .. Len(copies) => CopyOf(f) = NoEvent
           /\ CopyOf(f) \in Events \cup {NoEvent}
<1>1. /\ DOMAIN copies = 1 .. Len(copies)
      /\ \A k \in 1 .. Len(copies) : copies[k] \in Events \cup {NoEvent}
  BY Types
<1>2. f.copy \in Events \cup {NoEvent}
  BY DEF Frame
<1>3. CASE f.phase = "post"
  BY <1>2, <1>3 DEF CopyOf
<1>4. CASE f.phase # "post" /\ f.slot \in 1 .. Len(copies)
  BY <1>1, <1>4 DEF CopyOf
<1>5. CASE f.phase # "post" /\ f.slot \notin 1 .. Len(copies)
  BY <1>1, <1>5 DEF CopyOf
<1>. QED  BY <1>3, <1>4, <1>5

\* The innermost call is the one the copy stack ends with.
LEMMA InnerFacts ==
    ASSUME BridgeInv, calls # <<>>
    PROVE  /\ Len(calls) \in Nat /\ Len(calls) >= 1
           /\ Inner = calls[Len(calls)] /\ Inner \in Frame
           /\ Outer \in Seq(Frame) /\ Len(Outer) = Len(calls) - 1
           /\ \A i \in 1 .. Len(calls) - 1 : Outer[i] = calls[i]
           /\ Inner.phase # "post" /\ overflow = 0 =>
                /\ Len(copies) >= 1 /\ copies # <<>> /\ Inner.slot = Len(copies)
                /\ CopyOf(Inner) = Last(copies)
           /\ Inner.phase # "post" /\ overflow # 0 =>
                Inner.slot = 0 /\ CopyOf(Inner) = NoEvent
<1>1. /\ Len(calls) \in Nat /\ Len(calls) >= 1
      /\ Inner = calls[Len(calls)] /\ Inner \in Frame
      /\ Outer \in Seq(Frame) /\ Len(Outer) = Len(calls) - 1
      /\ \A i \in 1 .. Len(calls) - 1 : Outer[i] = calls[i]
  BY FrontFacts DEF BridgeInv, TypeOK, Inner, Outer
<1>2. Len(calls) \in 1 .. Len(calls) /\ Len(copies) \in Nat /\ overflow \in Nat
  BY <1>1, Types DEF BridgeInv
<1>3. ASSUME Inner.phase # "post", overflow = 0
      PROVE  /\ Len(copies) >= 1 /\ copies # <<>> /\ Inner.slot = Len(copies)
             /\ CopyOf(Inner) = Last(copies)
  <2>1. Inner.slot \in 1 .. Len(copies)
    BY <1>1, <1>2, <1>3 DEF BridgeInv, SlotInv
  <2>2. Len(copies) >= 1 /\ Len(copies) \in 1 .. Len(copies)
    BY <2>1, <1>2
  <2>3. PICK i \in 1 .. Len(calls) : calls[i].phase # "post" /\ calls[i].slot = Len(copies)
    BY <2>2 DEF BridgeInv, SlotInv
  <2>4. i < Len(calls) => Len(copies) \in 1 .. Inner.slot - 1
    BY <2>1, <2>3, <1>1, <1>2, <1>3 DEF BridgeInv, SlotInv
  <2>5. Inner.slot = Len(copies)
    BY <2>1, <2>3, <2>4, <1>1, <1>2
  <2>6. copies # <<>> /\ copies \in Seq(Events \cup {NoEvent})
    BY <2>2, EmptySeq DEF BridgeInv, TypeOK
  <2>7. Last(copies) = copies[Len(copies)]
    BY <2>6, FrontFacts
  <2>8. CopyOf(Inner) = copies[Len(copies)]
    BY <2>1, <2>5, <1>1, <1>3, CopyFacts DEF BridgeInv
  <2>. QED  BY <2>2, <2>5, <2>6, <2>7, <2>8
<1>4. ASSUME Inner.phase # "post", overflow # 0
      PROVE  Inner.slot = 0 /\ CopyOf(Inner) = NoEvent
  <2>1. Inner.slot = 0
    BY <1>1, <1>2, <1>4 DEF BridgeInv, SlotInv
  <2>. QED  BY <2>1, <1>1, <1>4, CopyFacts DEF BridgeInv
<1>. QED  BY <1>1, <1>3, <1>4

-----------------------------------------------------------------------------
(* The call stack after a step. *)

LEMMA Push ==
    ASSUME BridgeInv, NEW g \in Frame, calls' = Append(calls, g)
    PROVE  /\ calls' \in Seq(Frame) /\ Len(calls') = Len(calls) + 1
           /\ \A i \in 1 .. Len(calls) : calls'[i] = calls[i]
           /\ calls'[Len(calls) + 1] = g
BY AppendFacts DEF BridgeInv, TypeOK

LEMMA Replace ==
    ASSUME BridgeInv, calls # <<>>, NEW g \in Frame, calls' = Append(Outer, g)
    PROVE  /\ calls' \in Seq(Frame) /\ Len(calls') = Len(calls)
           /\ \A i \in 1 .. Len(calls) - 1 : calls'[i] = calls[i]
           /\ calls'[Len(calls)] = g
<1>1. /\ Outer \in Seq(Frame) /\ Len(Outer) = Len(calls) - 1 /\ Len(calls) \in Nat
      /\ \A i \in 1 .. Len(calls) - 1 : Outer[i] = calls[i]
  BY InnerFacts
<1>. QED  BY <1>1, AppendFacts

LEMMA Pop ==
    ASSUME BridgeInv, calls # <<>>, calls' = Outer
    PROVE  /\ calls' \in Seq(Frame) /\ Len(calls') = Len(calls) - 1
           /\ \A i \in 1 .. Len(calls) - 1 : calls'[i] = calls[i]
BY InnerFacts

LEMMA BackFacts ==
    ASSUME TypeOK
    PROVE  \A i \in 1 .. Len(calls) :
             /\ Back[i] = CopyOf(calls[i]) /\ Back[i] \in Events \cup {NoEvent}
             /\ calls[i].phase = "post" => Back[i] = calls[i].copy
             /\ calls[i].phase # "post" /\ calls[i].slot \in 1 .. Len(copies) =>
                  Back[i] = copies[calls[i].slot]
             /\ calls[i].phase # "post" /\ calls[i].slot \notin 1 .. Len(copies) =>
                  Back[i] = NoEvent
BY Types, CopyFacts DEF Back

\* The same of the next state.
LEMMA BackNext ==
    ASSUME NEW n \in Nat, Len(calls') = n, copies' \in Seq(Events \cup {NoEvent})
    PROVE  \A i \in 1 .. n :
             /\ calls'[i].phase = "post" => Back'[i] = calls'[i].copy
             /\ calls'[i].phase # "post" /\ calls'[i].slot \in 1 .. Len(copies') =>
                  Back'[i] = copies'[calls'[i].slot]
             /\ calls'[i].phase # "post" /\ calls'[i].slot \notin 1 .. Len(copies') =>
                  Back'[i] = NoEvent
<1>1. DOMAIN copies' = 1 .. Len(copies')
  BY LenProperties
<1>. QED  BY <1>1 DEF Back, CopyOf

\* Calls that stay keep what they will get back, as long as the stack is only
\* touched above their entries.
LEMMA KeptBack ==
    ASSUME BridgeInv, NEW k \in 0 .. Len(calls), Len(calls') \in Nat, k <= Len(calls'),
           \A i \in 1 .. k : calls'[i] = calls[i],
           copies' \in Seq(Events \cup {NoEvent}),
           NEW m \in 0 .. Len(copies), m <= Len(copies'),
           \A i \in 1 .. m : copies'[i] = copies[i],
           \A i \in 1 .. k : calls[i].phase # "post" => calls[i].slot \in 0 .. m
    PROVE  \A i \in 1 .. k : Back'[i] = Back[i]
<1>1. /\ Len(calls) \in Nat /\ Len(copies) \in Nat /\ Len(copies') \in Nat
  BY Types, LenProperties DEF BridgeInv
<1>. SUFFICES ASSUME NEW i \in 1 .. k PROVE Back'[i] = Back[i]
  OBVIOUS
<1>2. i \in 1 .. Len(calls) /\ i \in 1 .. Len(calls') /\ calls'[i] = calls[i]
  BY <1>1
<1>3. CASE calls[i].phase = "post"
  BY <1>2, <1>3, BackFacts, BackNext DEF BridgeInv
<1>4. CASE calls[i].phase # "post" /\ calls[i].slot \in 1 .. m
  <2>1. calls[i].slot \in 1 .. Len(copies) /\ calls[i].slot \in 1 .. Len(copies')
    BY <1>4, <1>1
  <2>2. Back'[i] = copies'[calls[i].slot]
    BY <2>1, <1>2, <1>4, BackNext
  <2>3. Back[i] = copies[calls[i].slot]
    BY <2>1, <1>2, <1>4, BackFacts DEF BridgeInv
  <2>. QED  BY <2>2, <2>3, <1>4
<1>5. CASE calls[i].phase # "post" /\ calls[i].slot = 0
  <2>1. calls[i].slot \notin 1 .. Len(copies) /\ calls[i].slot \notin 1 .. Len(copies')
    BY <1>5, <1>1
  <2>2. Back'[i] = NoEvent
    BY <2>1, <1>2, <1>5, BackNext
  <2>3. Back[i] = NoEvent
    BY <2>1, <1>2, <1>5, BackFacts DEF BridgeInv
  <2>. QED  BY <2>2, <2>3
<1>. QED  BY <1>3, <1>4, <1>5, <1>1

\* When the innermost call is replaced by one with the same slot that is not
\* past its post hook either, every call will get back what it would have.
LEMMA KeptBackInside ==
    ASSUME BridgeInv, calls # <<>>, NEW g \in Frame, calls' = Append(Outer, g),
           Inner.phase # "post", g.phase # "post", g.slot = Inner.slot,
           UNCHANGED copies
    PROVE  \A i \in 1 .. Len(calls) : Back'[i] = Back[i]
<1>. DEFINE n == Len(calls)
<1>1. /\ n \in Nat /\ n >= 1 /\ Len(calls') = n /\ Inner = calls[n]
      /\ \A i \in 1 .. n - 1 : calls'[i] = calls[i]
      /\ calls'[n] = g
  BY InnerFacts, Replace
<1>2. copies' \in Seq(Events \cup {NoEvent}) /\ Len(copies) \in Nat
  BY Types DEF BridgeInv, TypeOK
<1>3. SUFFICES ASSUME NEW i \in 1 .. n PROVE Back'[i] = Back[i]
  OBVIOUS
<1>4. /\ calls'[i].slot = calls[i].slot
      /\ calls[i].phase = "post" <=> calls'[i].phase = "post"
      /\ calls[i].phase = "post" => calls'[i].copy = calls[i].copy
  BY <1>1
<1>5. CASE calls[i].phase = "post"
  BY <1>1, <1>2, <1>4, <1>5, BackFacts, BackNext DEF BridgeInv
<1>6. CASE calls[i].phase # "post" /\ calls[i].slot \in 1 .. Len(copies)
  BY <1>1, <1>2, <1>4, <1>6, BackFacts, BackNext DEF BridgeInv
<1>7. CASE calls[i].phase # "post" /\ calls[i].slot \notin 1 .. Len(copies)
  BY <1>1, <1>2, <1>4, <1>7, BackFacts, BackNext DEF BridgeInv
<1>. QED  BY <1>5, <1>6, <1>7

-----------------------------------------------------------------------------
(* Type correctness. *)

LEMMA BeginEventType ==
    ASSUME TypeOK, NEW e \in Events, NEW post \in BOOLEAN, NEW quiet \in BOOLEAN,
           BeginEvent(e, post, quiet)
    PROVE  /\ DOMAIN contexts' = DOMAIN contexts \cup {nextToken}
           /\ DOMAIN contexts' \subseteq 1 .. nextToken' - 1
           /\ \A t \in DOMAIN contexts' : contexts'[t] \in Context
           /\ nextToken' = nextToken + 1 /\ nextToken' \in Nat \ {0}
           /\ nextToken \notin DOMAIN contexts
           /\ \A t \in DOMAIN contexts : contexts'[t] = contexts[t]
           /\ contexts'[nextToken] =
                [event |-> e, post |-> post, cancelled |-> FALSE, quiet |-> quiet]
<1>1. /\ nextToken \in Nat \ {0} /\ DOMAIN contexts \subseteq 1 .. nextToken - 1
      /\ \A t \in DOMAIN contexts : contexts[t] \in Context
  BY DEF TypeOK
<1>2. [event |-> e, post |-> post, cancelled |-> FALSE, quiet |-> quiet] \in Context
  BY DEF Context
<1>. QED  BY <1>1, <1>2 DEF BeginEvent, With

LEMMA EndEventType ==
    ASSUME TypeOK, NEW token, EndEvent(token)
    PROVE  /\ DOMAIN contexts' = DOMAIN contexts \ {token}
           /\ DOMAIN contexts' \subseteq 1 .. nextToken' - 1
           /\ \A t \in DOMAIN contexts' : contexts'[t] \in Context /\ contexts'[t] = contexts[t]
           /\ nextToken' = nextToken
BY DEF TypeOK, EndEvent, Without

\* The frame a call starts with.
LEMMA NewFrame ==
    ASSUME TypeOK, NEW e \in Events, NEW quiet \in BOOLEAN,
           NEW copy \in Events \cup {NoEvent}, NEW token \in Nat, NEW slot \in 0 .. Capacity
    PROVE  [phase |-> IF copy = NoEvent THEN "engine" ELSE "pre", event |-> e,
            quiet |-> quiet, copy |-> copy, token |-> token, slot |-> slot] \in Frame
BY DEF Frame

LEMMA FireWithRoomType ==
    ASSUME BridgeInv, NEW e \in Events, NEW x \in Values, NEW quiet \in BOOLEAN,
           FireWithRoom(e, x, quiet)
    PROVE  TypeOK'
<1>1. /\ TypeOK /\ copies \in Seq(Events \cup {NoEvent}) /\ Len(copies) \in Nat
      /\ Capacity \in Nat /\ nextToken \in Nat /\ Len(copies) < Capacity
      /\ UNCHANGED overflow
  BY Types DEF BridgeInv, TypeOK, FireWithRoom
<1>2. Len(copies) + 1 \in 0 .. Capacity /\ 0 \in Nat
  BY <1>1
<1>3. CASE \E copy \in Unallocated \ {e} :
              /\ copies' = Append(copies, copy)
              /\ heap' = With(With(heap, e, x), copy, x)
              /\ BeginEvent(copy, FALSE, quiet)
              /\ Enter(e, quiet, copy, nextToken, Len(copies) + 1)
  <2>1. PICK copy \in Unallocated \ {e} :
              /\ copies' = Append(copies, copy)
              /\ heap' = With(With(heap, e, x), copy, x)
              /\ BeginEvent(copy, FALSE, quiet)
              /\ Enter(e, quiet, copy, nextToken, Len(copies) + 1)
    BY <1>3
  <2>2. copy \in Events
    BY DEF Unallocated
  <2>3. calls' \in Seq(Frame)
    BY <1>1, <1>2, <2>1, <2>2, NewFrame, Push DEF Enter
  <2>4. copies' \in Seq(Events \cup {NoEvent}) /\ Len(copies') = Len(copies) + 1
    <3>1. copy \in Events \cup {NoEvent}
      BY <2>2
    <3>. QED  BY <1>1, <2>1, <3>1, AppendFacts
  <2>5. DOMAIN heap' \subseteq Events /\ \A y \in DOMAIN heap' : heap'[y] \in Values
    BY <1>1, <2>1, <2>2 DEF With, TypeOK
  <2>6. /\ DOMAIN contexts' \subseteq 1 .. nextToken' - 1
        /\ \A t \in DOMAIN contexts' : contexts'[t] \in Context
        /\ nextToken' \in Nat \ {0}
    BY <1>1, <2>1, <2>2, BeginEventType
  <2>. QED  BY <1>1, <2>3, <2>4, <2>5, <2>6 DEF TypeOK
<1>4. CASE /\ copies' = Append(copies, NoEvent)
           /\ heap' = With(heap, e, x)
           /\ UNCHANGED <<contexts, nextToken>>
           /\ Enter(e, quiet, NoEvent, 0, Len(copies) + 1)
  <2>1. NoEvent \in Events \cup {NoEvent}
    OBVIOUS
  <2>2. calls' \in Seq(Frame)
    BY <1>1, <1>2, <1>4, <2>1, NewFrame, Push DEF Enter
  <2>3. copies' \in Seq(Events \cup {NoEvent}) /\ Len(copies') = Len(copies) + 1
    BY <1>1, <1>4, <2>1, AppendFacts
  <2>4. DOMAIN heap' \subseteq Events /\ \A y \in DOMAIN heap' : heap'[y] \in Values
    BY <1>1, <1>4 DEF With, TypeOK
  <2>. QED  BY <1>1, <1>4, <2>2, <2>3, <2>4 DEF TypeOK
<1>. QED  BY <1>3, <1>4 DEF FireWithRoom

\* Of a call without room only the event itself remains allocated.
LEMMA FireOverflowHeap ==
    ASSUME DOMAIN heap \subseteq Events, NEW e \in Events, NEW x,
           \E copy \in (Unallocated \ {e}) \cup {NoEvent} :
              heap' = Without(With(With(heap, e, x), copy, x), {copy})
    PROVE  /\ DOMAIN heap' = DOMAIN heap \cup {e}
           /\ \A y \in DOMAIN heap' : heap'[y] = IF y = e THEN x ELSE heap[y]
<1>1. PICK copy : /\ copy \in (Unallocated \ {e}) \cup {NoEvent}
                  /\ heap' = Without(With(With(heap, e, x), copy, x), {copy})
  OBVIOUS
<1>2. copy \notin DOMAIN heap \cup {e}
  BY <1>1, BridgeAssumption DEF Unallocated
<1>3. PICK f : f = With(heap, e, x)
  OBVIOUS
<1>4. DOMAIN f = DOMAIN heap \cup {e} /\ \A y \in DOMAIN f : f[y] = IF y = e THEN x ELSE heap[y]
  BY <1>3 DEF With
<1>5. PICK g : g = With(f, copy, x)
  OBVIOUS
<1>6. DOMAIN g = DOMAIN f \cup {copy} /\ \A y \in DOMAIN f : y # copy => g[y] = f[y]
  BY <1>5 DEF With
<1>7. heap' = Without(g, {copy})
  BY <1>1, <1>3, <1>5
<1>8. DOMAIN heap' = DOMAIN g \ {copy} /\ \A y \in DOMAIN heap' : heap'[y] = g[y]
  BY <1>7 DEF Without
<1>. QED  BY <1>2, <1>4, <1>6, <1>8

LEMMA FireOverflowType ==
    ASSUME BridgeInv, NEW e \in Events, NEW x \in Values, NEW quiet \in BOOLEAN,
           FireOverflow(e, x, quiet)
    PROVE  TypeOK'
<1>1. TypeOK /\ 0 \in Nat /\ 0 \in 0 .. Capacity /\ NoEvent \in Events \cup {NoEvent}
  BY BridgeAssumption DEF BridgeInv
<1>2. calls' \in Seq(Frame)
  BY <1>1, NewFrame, Push DEF FireOverflow, Enter
<1>3. DOMAIN heap' \subseteq Events /\ \A y \in DOMAIN heap' : heap'[y] \in Values
  <2>1. DOMAIN heap \subseteq Events /\ \A y \in DOMAIN heap : heap[y] \in Values
    BY <1>1 DEF TypeOK
  <2>2. \E copy \in (Unallocated \ {e}) \cup {NoEvent} :
           heap' = Without(With(With(heap, e, x), copy, x), {copy})
    BY DEF FireOverflow
  <2>3. /\ DOMAIN heap' = DOMAIN heap \cup {e}
        /\ \A y \in DOMAIN heap' : heap'[y] = IF y = e THEN x ELSE heap[y]
    BY <2>1, <2>2, FireOverflowHeap
  <2>4. DOMAIN heap' \subseteq Events
    BY <2>1, <2>3
  <2>5. ASSUME NEW y \in DOMAIN heap'
        PROVE  heap'[y] \in Values
    <3>1. CASE y = e
      BY <2>3, <3>1
    <3>2. CASE y # e
      BY <2>1, <2>3, <3>2
    <3>. QED  BY <3>1, <3>2
  <2>. QED  BY <2>4, <2>5
<1>4. copies' = copies /\ contexts' = contexts /\ nextToken' = nextToken
      /\ overflow' = overflow + 1
  BY DEF FireOverflow
<1>. QED  BY <1>1, <1>2, <1>3, <1>4 DEF TypeOK

\* Steps of the hooks and of the engine that end or continue the innermost call.
LEMMA HookType ==
    ASSUME BridgeInv, EngineFires \/ Hooks
    PROVE  TypeOK'
<1>. USE DEF Hooks
<1>1. TypeOK /\ calls # <<>>
  BY DEF BridgeInv, EngineFires, EndPre, PostOverflow, PostCallbacks, EndPost, InnerIs
<1>2. Inner \in Frame /\ Outer \in Seq(Frame)
  BY <1>1, InnerFacts
<1>3. CASE EngineFires
  <2>1. [Inner EXCEPT !.phase = "done"] \in Frame
    BY <1>2 DEF Frame
  <2>2. calls' \in Seq(Frame)
    BY <1>1, <1>3, <2>1, Replace DEF EngineFires
  <2>. QED  BY <1>1, <1>3, <2>2 DEF EngineFires, TypeOK, Without
<1>4. CASE EndPre
  <2>1. PICK quiet \in BOOLEAN, phase \in {"done", "engine"} :
          calls' = Append(Outer, [Inner EXCEPT !.phase = phase, !.quiet = quiet,
                                               !.copy = NoEvent, !.token = 0])
    <3>1. Inner.token \in DOMAIN contexts
      BY <1>1, <1>4, InnerFacts DEF EndPre, InnerIs, BridgeInv, TokenInv, Calling
    <3>2. contexts[Inner.token].quiet \in BOOLEAN /\ Inner.quiet \in BOOLEAN
      BY <1>1, <1>2, <3>1 DEF TypeOK, Context, Frame
    <3>3. CASE contexts[Inner.token].cancelled
      <4>1. calls' = Append(Outer, [Inner EXCEPT !.phase = "done",
                                            !.copy = NoEvent, !.token = 0])
        BY <1>4, <3>3 DEF EndPre
      <4>2. [Inner EXCEPT !.phase = "done", !.copy = NoEvent, !.token = 0]
              = [Inner EXCEPT !.phase = "done", !.quiet = Inner.quiet,
                              !.copy = NoEvent, !.token = 0]
        BY <1>2 DEF Frame
      <4>. QED  BY <3>2, <4>1, <4>2
    <3>4. CASE ~contexts[Inner.token].cancelled
      BY <1>4, <3>2, <3>4 DEF EndPre
    <3>. QED  BY <3>3, <3>4
  <2>2. [Inner EXCEPT !.phase = phase, !.quiet = quiet,
                      !.copy = NoEvent, !.token = 0] \in Frame
    BY <1>2 DEF Frame
  <2>3. calls' \in Seq(Frame)
    BY <1>1, <2>1, <2>2, Replace
  <2>4. EndEvent(Inner.token) /\ UNCHANGED <<copies, overflow>>
    BY <1>4 DEF EndPre
  <2>5. heap' = heap \/ heap' = Without(heap, {Inner.event})
    BY <1>4 DEF EndPre
  <2>6. DOMAIN heap' \subseteq Events /\ \A y \in DOMAIN heap' : heap'[y] \in Values
    BY <1>1, <2>5 DEF Without, TypeOK
  <2>. QED  BY <1>1, <2>3, <2>4, <2>6, EndEventType DEF TypeOK
<1>5. CASE PostOverflow
  <2>1. overflow' \in Nat
    BY <1>1, <1>5 DEF PostOverflow, TypeOK
  <2>. QED  BY <1>1, <1>2, <1>5, <2>1 DEF PostOverflow, TypeOK
<1>6. CASE PostCallbacks
  <2>1. copies # <<>> /\ copies \in Seq(Events \cup {NoEvent})
    BY <1>1, <1>6, InnerFacts DEF PostCallbacks, InnerIs, BridgeInv, TypeOK
  <2>2. /\ copies' \in Seq(Events \cup {NoEvent}) /\ Len(copies') = Len(copies) - 1
        /\ Len(copies) \in Nat /\ Last(copies) \in Events \cup {NoEvent}
        /\ UNCHANGED <<heap, overflow>>
    BY <1>6, <2>1, FrontFacts DEF PostCallbacks
  <2>3. Capacity \in Nat /\ Len(copies') <= Capacity /\ nextToken \in Nat
    BY <1>1, <2>2, Types DEF TypeOK
  <2>4. CASE Last(copies) = NoEvent
    <3>1. calls' \in Seq(Frame) /\ UNCHANGED <<contexts, nextToken>>
      BY <1>2, <1>6, <2>1, <2>4 DEF PostCallbacks
    <3>. QED  BY <1>1, <2>2, <2>3, <3>1 DEF TypeOK
  <2>5. CASE Last(copies) # NoEvent
    <3>1. /\ calls' = Append(Outer, [Inner EXCEPT !.phase = "post",
                                !.copy = Last(copies), !.token = nextToken])
          /\ BeginEvent(Last(copies), TRUE, Inner.quiet)
      BY <1>6, <2>1, <2>5 DEF PostCallbacks
    <3>2. [Inner EXCEPT !.phase = "post", !.copy = Last(copies),
                        !.token = nextToken] \in Frame
      BY <1>2, <2>2, <2>3 DEF Frame
    <3>3. calls' \in Seq(Frame)
      BY <1>1, <3>1, <3>2, Replace
    <3>4. Inner.quiet \in BOOLEAN /\ Last(copies) \in Events
      BY <1>2, <2>2, <2>5 DEF Frame
    <3>5. /\ DOMAIN contexts' \subseteq 1 .. nextToken' - 1
          /\ \A t \in DOMAIN contexts' : contexts'[t] \in Context
          /\ nextToken' \in Nat \ {0}
      BY <1>1, <3>1, <3>4, BeginEventType
    <3>. QED  BY <1>1, <2>2, <2>3, <3>3, <3>5 DEF TypeOK
  <2>. QED  BY <2>4, <2>5
<1>7. CASE EndPost
  <2>1. EndEvent(Inner.token) /\ calls' = Outer /\ UNCHANGED <<copies, overflow>>
    BY <1>7 DEF EndPost
  <2>2. DOMAIN heap' \subseteq Events /\ \A y \in DOMAIN heap' : heap'[y] \in Values
    BY <1>1, <1>7 DEF EndPost, Without, TypeOK
  <2>. QED  BY <1>1, <1>2, <2>1, <2>2, EndEventType DEF TypeOK
<1>. QED  BY <1>3, <1>4, <1>5, <1>6, <1>7

LEMMA ReloadType ==
    ASSUME BridgeInv, Reload
    PROVE  TypeOK'
<1>1. <<>> \in Seq(Events \cup {NoEvent}) /\ Len(<<>>) = 0
  BY EmptySeq
<1>. QED  BY <1>1, BridgeAssumption DEF BridgeInv, Reload, TypeOK, Without

LEMMA CallbackType ==
    ASSUME BridgeInv, Callback
    PROVE  /\ TypeOK' /\ DOMAIN heap' = DOMAIN heap /\ DOMAIN contexts' = DOMAIN contexts
           /\ \A t \in DOMAIN contexts :
                /\ contexts'[t].event = contexts[t].event
                /\ contexts'[t].post = contexts[t].post
           /\ UNCHANGED <<calls, copies, overflow, nextToken>>
<1>1. PICK t \in DOMAIN contexts :
        \/ \E x \in Values : EventSet(t, x)
        \/ EventCancel(t)
        \/ \E quiet \in BOOLEAN : EventSetDontBroadcast(t, quiet)
  BY DEF Callback
<1>2. contexts[t] \in Context /\ TypeOK
  BY DEF BridgeInv, TypeOK
<1>3. CASE \E x \in Values : EventSet(t, x)
  BY <1>2, <1>3 DEF EventSet, TypeOK
<1>4. CASE EventCancel(t)
  <2>1. [contexts[t] EXCEPT !.cancelled = TRUE] \in Context
    BY <1>2 DEF Context
  <2>. QED  BY <1>2, <1>4, <2>1 DEF EventCancel, TypeOK, Context
<1>5. CASE \E quiet \in BOOLEAN : EventSetDontBroadcast(t, quiet)
  BY <1>2, <1>5 DEF EventSetDontBroadcast, TypeOK, Context
<1>. QED  BY <1>1, <1>3, <1>4, <1>5

-----------------------------------------------------------------------------
(* The copy stack and the overflow counter account for the calls. *)

LEMMA FireWithRoomSlots ==
    ASSUME BridgeInv, NEW e \in Events, NEW x \in Values, NEW quiet \in BOOLEAN,
           FireWithRoom(e, x, quiet)
    PROVE  SlotInv'
<1>. DEFINE n == Len(calls)
            m == Len(copies)
<1>1. /\ TypeOK /\ SlotInv /\ n \in Nat /\ m \in Nat /\ \A i \in 1 .. n : calls[i] \in Frame
      /\ copies \in Seq(Events \cup {NoEvent}) /\ m + 1 \in 0 .. Capacity
      /\ Capacity \in Nat /\ nextToken \in Nat /\ 0 \in Nat
  BY Types DEF BridgeInv, TypeOK, FireWithRoom
<1>2. PICK copy \in Events \cup {NoEvent}, token \in Nat :
        copies' = Append(copies, copy) /\ Enter(e, quiet, copy, token, m + 1)
  BY <1>1 DEF FireWithRoom, Unallocated
<1>3. Len(copies') = m + 1
  BY <1>1, <1>2, AppendFacts
<1>4. PICK g \in Frame :
        calls' = Append(calls, g) /\ g.phase # "post" /\ g.slot = m + 1
  BY <1>1, <1>2, NewFrame DEF Enter
<1>5. /\ Len(calls') = n + 1 /\ \A i \in 1 .. n : calls'[i] = calls[i]
      /\ calls'[n + 1] = g
  BY <1>4, Push
<1>6. overflow = 0 /\ overflow' = 0
  BY DEF FireWithRoom
<1>. HIDE DEF n, m
<1>7. /\ \A i \in 1 .. n : calls[i].phase # "post" => calls[i].slot \in 0 .. m
      /\ \A k \in 1 .. m :
           \E i \in 1 .. n : calls[i].phase # "post" /\ calls[i].slot = k
      /\ \A i, j \in 1 .. n :
           i < j /\ calls[i].phase # "post" /\ calls[j].phase # "post" /\ calls[j].slot # 0
              => calls[i].slot \in 1 .. calls[j].slot - 1
      /\ \A i \in 1 .. n : calls[i].slot # 0
  <2>1. \A i \in 1 .. n : calls[i].slot = 0 <=> i > n - 0
    BY <1>1, <1>6 DEF SlotInv, n
  <2>2. \A i \in 1 .. n : calls[i].slot # 0
    BY <1>1, <2>1
  <2>. QED  BY <1>1, <2>2 DEF SlotInv, n, m
<1>8. \A i \in 1 .. n + 1 : \/ i \in 1 .. n /\ calls'[i] = calls[i]
                            \/ i = n + 1 /\ calls'[i] = g
  BY <1>1, <1>5
<1>9. \A i \in 1 .. n + 1 : calls'[i].phase # "post" => calls'[i].slot \in 0 .. m + 1
  BY <1>1, <1>4, <1>7, <1>8
<1>10. \A k \in 1 .. m + 1 :
         \E i \in 1 .. n + 1 : calls'[i].phase # "post" /\ calls'[i].slot = k
  <2>1. SUFFICES ASSUME NEW k \in 1 .. m + 1
                 PROVE  \E i \in 1 .. n + 1 : calls'[i].phase # "post" /\ calls'[i].slot = k
    OBVIOUS
  <2>2. CASE k = m + 1
    <3>1. n + 1 \in 1 .. n + 1
      BY <1>1
    <3>. QED  BY <2>2, <3>1, <1>4, <1>5
  <2>3. CASE k \in 1 .. m
    <3>1. PICK i \in 1 .. n : calls[i].phase # "post" /\ calls[i].slot = k
      BY <2>3, <1>7
    <3>2. i \in 1 .. n + 1 /\ calls'[i] = calls[i]
      BY <1>1, <1>5
    <3>. QED  BY <3>1, <3>2
  <2>. QED  BY <2>2, <2>3, <1>1
<1>11. \A i, j \in 1 .. n + 1 :
         i < j /\ calls'[i].phase # "post" /\ calls'[j].phase # "post" /\ calls'[j].slot # 0
            => calls'[i].slot \in 1 .. calls'[j].slot - 1
  <2>1. SUFFICES ASSUME NEW i \in 1 .. n + 1, NEW j \in 1 .. n + 1, i < j,
                        calls'[i].phase # "post", calls'[j].phase # "post",
                        calls'[j].slot # 0
                 PROVE  calls'[i].slot \in 1 .. calls'[j].slot - 1
    OBVIOUS
  <2>2. i \in 1 .. n /\ calls'[i] = calls[i]
    BY <1>1, <1>5, <2>1
  <2>3. calls[i].slot \in 1 .. m
    BY <1>1, <1>7, <2>1, <2>2
  <2>. QED  BY <1>1, <1>4, <1>7, <1>8, <2>1, <2>2, <2>3
<1>12. \A i \in 1 .. n + 1 : calls'[i].slot # 0
  BY <1>1, <1>4, <1>7, <1>8
<1>. QED
  <2>1. \A i \in 1 .. n + 1 : calls'[i].slot = 0 <=> i > (n + 1) - 0
    BY <1>1, <1>12
  <2>. QED  BY <1>1, <1>3, <1>5, <1>6, <1>9, <1>10, <1>11, <1>12, <2>1 DEF SlotInv

LEMMA FireOverflowSlots ==
    ASSUME BridgeInv, NEW e \in Events, NEW x \in Values, NEW quiet \in BOOLEAN,
           FireOverflow(e, x, quiet)
    PROVE  SlotInv'
<1>. DEFINE n == Len(calls)
            m == Len(copies)
<1>1. /\ TypeOK /\ SlotInv /\ n \in Nat /\ m \in Nat /\ overflow \in Nat
      /\ Capacity \in Nat /\ m <= Capacity /\ \A i \in 1 .. n : calls[i] \in Frame
  BY Types DEF BridgeInv, TypeOK
<1>2. PICK g \in Frame : calls' = Append(calls, g) /\ g.phase # "post" /\ g.slot = 0
  <2>1. NoEvent \in Events \cup {NoEvent} /\ 0 \in Nat /\ 0 \in 0 .. Capacity
    BY <1>1
  <2>. QED  BY <1>1, <2>1, NewFrame DEF FireOverflow, Enter
<1>3. /\ Len(calls') = n + 1 /\ \A i \in 1 .. n : calls'[i] = calls[i]
      /\ calls'[n + 1] = g
  BY <1>2, Push
<1>4. overflow' = overflow + 1 /\ copies' = copies /\ m = Capacity
  BY <1>1 DEF FireOverflow, SlotInv
<1>. HIDE DEF n, m
<1>5. \A i \in 1 .. n + 1 : \/ i \in 1 .. n /\ calls'[i] = calls[i]
                            \/ i = n + 1 /\ calls'[i] = g
  BY <1>1, <1>3
<1>6. \A i \in 1 .. n + 1 : calls'[i].phase # "post" => calls'[i].slot \in 0 .. m
  BY <1>1, <1>2, <1>5 DEF SlotInv, n, m
<1>7. \A k \in 1 .. m :
        \E i \in 1 .. n + 1 : calls'[i].phase # "post" /\ calls'[i].slot = k
  <2>1. SUFFICES ASSUME NEW k \in 1 .. m
                 PROVE  \E i \in 1 .. n + 1 : calls'[i].phase # "post" /\ calls'[i].slot = k
    OBVIOUS
  <2>2. PICK i \in 1 .. n : calls[i].phase # "post" /\ calls[i].slot = k
    BY <1>1 DEF SlotInv, n, m
  <2>3. i \in 1 .. n + 1 /\ calls'[i] = calls[i]
    BY <1>1, <1>3
  <2>. QED  BY <2>2, <2>3
<1>8. \A i, j \in 1 .. n + 1 :
        i < j /\ calls'[i].phase # "post" /\ calls'[j].phase # "post" /\ calls'[j].slot # 0
           => calls'[i].slot \in 1 .. calls'[j].slot - 1
  BY <1>1, <1>2, <1>5 DEF SlotInv, n
<1>9. \A i \in 1 .. n + 1 : calls'[i].slot = 0 <=> i > (n + 1) - (overflow + 1)
  BY <1>1, <1>2, <1>5 DEF SlotInv, n
<1>10. overflow + 1 <= n + 1
  BY <1>1 DEF SlotInv, n
<1>11. \A i \in 1 .. n + 1 : calls'[i].phase = "post" => calls'[i].slot # 0
  BY <1>1, <1>2, <1>5 DEF SlotInv, n
<1>. QED  BY <1>3, <1>4, <1>6, <1>7, <1>8, <1>9, <1>10, <1>11 DEF SlotInv, m

\* A step that keeps every call's slot and leaves every post hook pending.
LEMMA SameSlots ==
    ASSUME SlotInv, Len(calls) \in Nat, UNCHANGED <<copies, overflow>>,
           Len(calls') = Len(calls),
           \A i \in 1 .. Len(calls) : /\ calls'[i].slot = calls[i].slot
                                      /\ calls[i].phase = "post" <=> calls'[i].phase = "post"
    PROVE  SlotInv'
BY DEF SlotInv

\* The innermost call goes, and its stack entry or its count with it.
LEMMA PostOverflowSlots ==
    ASSUME BridgeInv, PostOverflow
    PROVE  SlotInv'
<1>. DEFINE n == Len(calls)
            m == Len(copies)
<1>1. /\ SlotInv /\ n \in Nat /\ n >= 1 /\ m \in Nat /\ overflow \in Nat /\ overflow # 0
      /\ Len(calls') = n - 1 /\ \A i \in 1 .. n - 1 : calls'[i] = calls[i]
      /\ calls[n].slot = 0 /\ overflow' = overflow - 1 /\ copies' = copies
  BY Types, InnerFacts, Pop DEF BridgeInv, PostOverflow, InnerIs
<1>. HIDE DEF n, m
<1>2. \A i \in 1 .. n - 1 : i \in 1 .. n /\ calls'[i] = calls[i]
  BY <1>1
<1>3. \A k \in 1 .. m :
        \E i \in 1 .. n - 1 : calls'[i].phase # "post" /\ calls'[i].slot = k
  <2>1. SUFFICES ASSUME NEW k \in 1 .. m
                 PROVE  \E i \in 1 .. n - 1 : calls'[i].phase # "post" /\ calls'[i].slot = k
    OBVIOUS
  <2>2. PICK i \in 1 .. n : calls[i].phase # "post" /\ calls[i].slot = k
    BY <1>1 DEF SlotInv, n, m
  <2>3. i \in 1 .. n - 1
    BY <1>1, <2>2
  <2>. QED  BY <1>2, <2>2, <2>3
<1>4. \A i \in 1 .. n - 1 : calls'[i].slot = 0 <=> i > (n - 1) - (overflow - 1)
  BY <1>1, <1>2 DEF SlotInv, n
<1>5. \A i \in 1 .. n - 1 :
        /\ calls'[i].phase # "post" => calls'[i].slot \in 0 .. m
        /\ calls'[i].phase = "post" => calls'[i].slot # 0
  BY <1>1, <1>2 DEF SlotInv, n, m
<1>6. \A i, j \in 1 .. n - 1 :
        i < j /\ calls'[i].phase # "post" /\ calls'[j].phase # "post" /\ calls'[j].slot # 0
           => calls'[i].slot \in 1 .. calls'[j].slot - 1
  BY <1>1, <1>2 DEF SlotInv, n
<1>7. overflow - 1 <= n - 1 /\ (overflow - 1 # 0 => m = Capacity)
  BY <1>1 DEF SlotInv, n, m
<1>. QED  BY <1>1, <1>3, <1>4, <1>5, <1>6, <1>7 DEF SlotInv, m

\* What PostCallbacks does to the stacks.
LEMMA PostCallbacksFacts ==
    ASSUME BridgeInv, PostCallbacks
    PROVE  /\ calls # <<>> /\ copies # <<>> /\ overflow = 0 /\ Inner.phase = "done"
           /\ Inner.slot = Len(copies) /\ CopyOf(Inner) = Last(copies)
           /\ Last(copies) = copies[Len(copies)] /\ Last(copies) \in Events \cup {NoEvent}
           /\ Len(copies) >= 1 /\ Len(copies) \in Nat
           /\ copies' \in Seq(Events \cup {NoEvent}) /\ Len(copies') = Len(copies) - 1
           /\ \A k \in 1 .. Len(copies) - 1 : copies'[k] = copies[k]
           /\ UNCHANGED <<heap, overflow>>
           /\ \/ Last(copies) = NoEvent /\ calls' = Outer /\ UNCHANGED <<contexts, nextToken>>
              \/ /\ Last(copies) # NoEvent
                 /\ calls' = Append(Outer, [Inner EXCEPT !.phase = "post",
                                       !.copy = Last(copies), !.token = nextToken])
                 /\ BeginEvent(Last(copies), TRUE, Inner.quiet)
           /\ [Inner EXCEPT !.phase = "post", !.copy = Last(copies),
                            !.token = nextToken] \in Frame
           /\ Inner.quiet \in BOOLEAN
<1>1. calls # <<>> /\ Inner.phase = "done" /\ overflow = 0
  BY DEF PostCallbacks, InnerIs
<1>2. /\ Inner.slot = Len(copies) /\ CopyOf(Inner) = Last(copies) /\ copies # <<>>
      /\ Len(copies) >= 1 /\ copies \in Seq(Events \cup {NoEvent}) /\ Inner \in Frame
      /\ nextToken \in Nat
  BY <1>1, InnerFacts, Types DEF BridgeInv, TypeOK
<1>3. copies' = Front(copies) /\ UNCHANGED <<heap, overflow>>
  BY <1>1, <1>2 DEF PostCallbacks
<1>4. \/ Last(copies) = NoEvent /\ calls' = Outer /\ UNCHANGED <<contexts, nextToken>>
      \/ /\ Last(copies) # NoEvent
         /\ calls' = Append(Outer, [Inner EXCEPT !.phase = "post",
                               !.copy = Last(copies), !.token = nextToken])
         /\ BeginEvent(Last(copies), TRUE, Inner.quiet)
  BY <1>1, <1>2 DEF PostCallbacks
<1>5. /\ Last(copies) = copies[Len(copies)] /\ Last(copies) \in Events \cup {NoEvent}
      /\ Len(copies) \in Nat
      /\ Front(copies) \in Seq(Events \cup {NoEvent}) /\ Len(Front(copies)) = Len(copies) - 1
      /\ \A k \in 1 .. Len(copies) - 1 : Front(copies)[k] = copies[k]
  BY <1>2, FrontFacts
<1>6. /\ [Inner EXCEPT !.phase = "post", !.copy = Last(copies),
                       !.token = nextToken] \in Frame
      /\ Inner.quiet \in BOOLEAN
  BY <1>2, <1>5 DEF Frame
<1>. QED  BY <1>1, <1>2, <1>3, <1>4, <1>5, <1>6

LEMMA PostCallbacksSlots ==
    ASSUME BridgeInv, PostCallbacks
    PROVE  /\ SlotInv'
           /\ \A i \in 1 .. Len(calls) - 1 :
                calls[i].phase # "post" => calls[i].slot \in 1 .. Len(copies) - 1
<1>. DEFINE n == Len(calls)
            m == Len(copies)
<1>1. /\ SlotInv /\ TypeOK /\ n \in Nat /\ n >= 1 /\ m \in Nat /\ m >= 1
      /\ overflow = 0 /\ overflow' = 0 /\ Len(copies') = m - 1
      /\ calls[n].slot = m /\ calls[n].phase # "post"
  BY InnerFacts, PostCallbacksFacts DEF BridgeInv
<1>2. /\ \A i \in 1 .. n - 1 : calls'[i] = calls[i]
      /\ \/ Len(calls') = n - 1
         \/ Len(calls') = n /\ calls'[n].phase = "post" /\ calls'[n].slot = m
  <2>1. CASE Last(copies) = NoEvent
    BY <2>1, PostCallbacksFacts, Pop
  <2>2. CASE Last(copies) # NoEvent
    <3>. DEFINE g == [Inner EXCEPT !.phase = "post", !.copy = Last(copies),
                                   !.token = nextToken]
    <3>1. g \in Frame /\ calls' = Append(Outer, g) /\ calls # <<>> /\ Inner \in Frame
      BY <2>2, PostCallbacksFacts, InnerFacts
    <3>2. g.phase = "post" /\ g.slot = m
      BY <3>1, PostCallbacksFacts DEF Frame
    <3>. HIDE DEF g
    <3>. QED  BY <3>1, <3>2, Replace
  <2>. QED  BY <2>1, <2>2
<1>. HIDE DEF n, m
<1>3. \A i \in 1 .. n - 1 : i \in 1 .. n /\ i < n /\ calls'[i] = calls[i]
  BY <1>1, <1>2
<1>4. n \in 1 .. n /\ \A i \in 1 .. n : i = n \/ i \in 1 .. n - 1
  BY <1>1
<1>5. \A i \in 1 .. n : calls[i].slot # 0
  <2>1. \A i \in 1 .. n : calls[i].slot = 0 <=> i > n - 0
    BY <1>1 DEF SlotInv, n
  <2>. QED  BY <1>1, <2>1
<1>6. \A i \in 1 .. n - 1 : calls[i].phase # "post" => calls[i].slot \in 1 .. m - 1
  <2>1. \A i, j \in 1 .. n :
          i < j /\ calls[i].phase # "post" /\ calls[j].phase # "post" /\ calls[j].slot # 0
             => calls[i].slot \in 1 .. calls[j].slot - 1
    BY <1>1 DEF SlotInv, n
  <2>2. \A i \in 1 .. n : i < n /\ calls[i].phase # "post" => calls[i].slot \in 1 .. m - 1
    BY <1>1, <1>4, <2>1
  <2>. QED  BY <1>3, <2>2
<1>7. \A i \in 1 .. n - 1 : calls'[i].phase # "post" => calls'[i].slot \in 1 .. m - 1
  BY <1>3, <1>6
<1>8. \A k \in 1 .. m - 1 :
        \E i \in 1 .. n - 1 : calls'[i].phase # "post" /\ calls'[i].slot = k
  <2>1. SUFFICES ASSUME NEW k \in 1 .. m - 1
                 PROVE  \E i \in 1 .. n - 1 : calls'[i].phase # "post" /\ calls'[i].slot = k
    OBVIOUS
  <2>2. k \in 1 .. m /\ k # m
    BY <1>1
  <2>3. PICK i \in 1 .. n : calls[i].phase # "post" /\ calls[i].slot = k
    BY <1>1, <2>2 DEF SlotInv, n, m
  <2>4. i \in 1 .. n - 1
    BY <1>1, <1>4, <2>2, <2>3
  <2>. QED  BY <1>3, <2>3, <2>4
<1>9. \A i, j \in 1 .. n - 1 :
        i < j /\ calls'[i].phase # "post" /\ calls'[j].phase # "post" /\ calls'[j].slot # 0
           => calls'[i].slot \in 1 .. calls'[j].slot - 1
  BY <1>1, <1>3 DEF SlotInv, n
<1>10. \A i \in 1 .. n - 1 : calls'[i].slot # 0
  BY <1>3, <1>5
<1>11. ASSUME Len(calls') = n - 1 PROVE SlotInv'
  <2>1. \A i \in 1 .. n - 1 : calls'[i].slot = 0 <=> i > (n - 1) - 0
    BY <1>1, <1>10
  <2>. QED  BY <1>1, <1>7, <1>8, <1>9, <1>10, <1>11, <2>1 DEF SlotInv
<1>12. ASSUME Len(calls') = n, calls'[n].phase = "post", calls'[n].slot = m
       PROVE  SlotInv'
  <2>1. \A i \in 1 .. n : calls'[i].slot # 0
    BY <1>1, <1>4, <1>10, <1>12
  <2>2. \A i \in 1 .. n : calls'[i].slot = 0 <=> i > n - 0
    BY <1>1, <2>1
  <2>3. \A i \in 1 .. n : calls'[i].phase # "post" => i \in 1 .. n - 1
    BY <1>4, <1>12
  <2>4. \A i \in 1 .. n : calls'[i].phase # "post" => calls'[i].slot \in 0 .. m - 1
    BY <1>1, <1>7, <2>3
  <2>5. \A k \in 1 .. m - 1 :
          \E i \in 1 .. n : calls'[i].phase # "post" /\ calls'[i].slot = k
    BY <1>3, <1>8
  <2>6. \A i, j \in 1 .. n :
          i < j /\ calls'[i].phase # "post" /\ calls'[j].phase # "post" /\ calls'[j].slot # 0
             => calls'[i].slot \in 1 .. calls'[j].slot - 1
    BY <1>9, <2>3
  <2>. QED  BY <1>1, <1>12, <2>1, <2>2, <2>4, <2>5, <2>6 DEF SlotInv
<1>. QED  BY <1>2, <1>6, <1>11, <1>12 DEF n, m

LEMMA EndPostSlots ==
    ASSUME BridgeInv, EndPost
    PROVE  SlotInv' /\ overflow = 0
<1>. DEFINE n == Len(calls)
            m == Len(copies)
<1>1. /\ SlotInv /\ TypeOK /\ n \in Nat /\ n >= 1 /\ m \in Nat /\ overflow \in Nat
      /\ Len(calls') = n - 1 /\ \A i \in 1 .. n - 1 : calls'[i] = calls[i]
      /\ overflow' = overflow /\ copies' = copies /\ calls[n].phase = "post"
  BY Types, InnerFacts, Pop DEF BridgeInv, EndPost, InnerIs
<1>2. overflow = 0
  <2>1. n \in 1 .. n
    BY <1>1
  <2>2. calls[n].slot # 0
    BY <1>1, <2>1 DEF SlotInv
  <2>3. ~(n > n - overflow)
    BY <1>1, <2>1, <2>2 DEF SlotInv
  <2>. QED  BY <1>1, <2>3
<1>. HIDE DEF n, m
<1>3. \A i \in 1 .. n - 1 : i \in 1 .. n /\ i < n /\ calls'[i] = calls[i]
  BY <1>1
<1>4. \A i \in 1 .. n : calls[i].phase # "post" => i \in 1 .. n - 1
  BY <1>1
<1>5. \A i \in 1 .. n - 1 : calls'[i].slot = 0 <=> i > (n - 1) - 0
  <2>1. \A i \in 1 .. n : calls[i].slot = 0 <=> i > n - 0
    BY <1>1, <1>2 DEF SlotInv, n
  <2>. QED  BY <1>1, <1>3, <2>1
<1>6. \A i \in 1 .. n - 1 :
        /\ calls'[i].phase # "post" => calls'[i].slot \in 0 .. m
        /\ calls'[i].phase = "post" => calls'[i].slot # 0
  BY <1>1, <1>3 DEF SlotInv, n, m
<1>7. \A k \in 1 .. m :
        \E i \in 1 .. n - 1 : calls'[i].phase # "post" /\ calls'[i].slot = k
  <2>1. SUFFICES ASSUME NEW k \in 1 .. m
                 PROVE  \E i \in 1 .. n - 1 : calls'[i].phase # "post" /\ calls'[i].slot = k
    OBVIOUS
  <2>2. PICK i \in 1 .. n : calls[i].phase # "post" /\ calls[i].slot = k
    BY <1>1 DEF SlotInv, n, m
  <2>. QED  BY <1>3, <1>4, <2>2
<1>8. \A i, j \in 1 .. n - 1 :
        i < j /\ calls'[i].phase # "post" /\ calls'[j].phase # "post" /\ calls'[j].slot # 0
           => calls'[i].slot \in 1 .. calls'[j].slot - 1
  BY <1>1, <1>3 DEF SlotInv, n
<1>. QED  BY <1>1, <1>2, <1>5, <1>6, <1>7, <1>8 DEF SlotInv, m

\* The end of the pre callbacks and the engine's own function keep the
\* innermost call's slot and, in its frame, change nothing SlotInv reads.
LEMMA InsideFacts ==
    ASSUME BridgeInv, EndPre \/ EngineFires
    PROVE  /\ calls # <<>> /\ UNCHANGED <<copies, overflow>>
           /\ Inner.phase \in {"pre", "engine"}
           /\ \E g \in Frame : /\ calls' = Append(Outer, g)
                               /\ g.slot = Inner.slot /\ g.event = Inner.event
                               /\ g.phase \in {"done", "engine"}
                               /\ \/ /\ g.phase = "done"
                                     /\ heap' = Without(heap, {Inner.event})
                                  \/ g.phase = "engine" /\ UNCHANGED heap
<1>1. calls # <<>> /\ UNCHANGED <<copies, overflow>>
  BY DEF EndPre, EngineFires, InnerIs
<1>2. Inner \in Frame
  BY <1>1, InnerFacts
<1>3. CASE EndPre /\ contexts[Inner.token].cancelled
  <2>. DEFINE g == [Inner EXCEPT !.phase = "done", !.copy = NoEvent, !.token = 0]
  <2>1. g \in Frame /\ g.slot = Inner.slot /\ g.event = Inner.event /\ g.phase = "done"
    BY <1>2 DEF Frame
  <2>2. calls' = Append(Outer, g) /\ heap' = Without(heap, {Inner.event})
        /\ Inner.phase = "pre"
    BY <1>3 DEF EndPre, InnerIs
  <2>. HIDE DEF g
  <2>. QED  BY <1>1, <2>1, <2>2
<1>4. CASE EndPre /\ ~contexts[Inner.token].cancelled
  <2>. DEFINE g == [Inner EXCEPT !.phase = "engine", !.copy = NoEvent, !.token = 0,
                                 !.quiet = contexts[Inner.token].quiet]
  <2>1. calls' = Append(Outer, [Inner EXCEPT !.phase = "engine",
                                            !.quiet = contexts[Inner.token].quiet,
                                            !.copy = NoEvent, !.token = 0])
        /\ UNCHANGED heap /\ Inner.phase = "pre"
    BY <1>4 DEF EndPre, InnerIs
  <2>2. contexts[Inner.token].quiet \in BOOLEAN
    <3>1. Inner.token \in DOMAIN contexts
      BY <1>1, <2>1, InnerFacts DEF BridgeInv, TokenInv, Calling
    <3>. QED  BY <3>1 DEF BridgeInv, TypeOK, Context
  <2>3. g \in Frame /\ g.slot = Inner.slot /\ g.event = Inner.event /\ g.phase = "engine"
    BY <1>2, <2>2 DEF Frame
  <2>4. calls' = Append(Outer, g)
    BY <1>2, <2>1 DEF Frame
  <2>. HIDE DEF g
  <2>. QED  BY <1>1, <2>1, <2>3, <2>4
<1>5. CASE EngineFires
  <2>. DEFINE g == [Inner EXCEPT !.phase = "done"]
  <2>1. g \in Frame /\ g.slot = Inner.slot /\ g.event = Inner.event /\ g.phase = "done"
    BY <1>2 DEF Frame
  <2>2. calls' = Append(Outer, g) /\ heap' = Without(heap, {Inner.event})
        /\ Inner.phase = "engine"
    BY <1>5 DEF EngineFires, InnerIs
  <2>. HIDE DEF g
  <2>. QED  BY <1>1, <2>1, <2>2
<1>. QED  BY <1>3, <1>4, <1>5

LEMMA InsideSlots ==
    ASSUME BridgeInv, EndPre \/ EngineFires
    PROVE  SlotInv'
<1>1. PICK g \in Frame : /\ calls' = Append(Outer, g) /\ g.slot = Inner.slot
                          /\ g.phase # "post"
  BY InsideFacts
<1>2. /\ calls # <<>> /\ UNCHANGED <<copies, overflow>> /\ Inner.phase # "post"
      /\ Len(calls) \in Nat /\ Len(calls) >= 1 /\ Inner = calls[Len(calls)]
  BY InsideFacts, InnerFacts
<1>3. /\ Len(calls') = Len(calls) /\ calls'[Len(calls)] = g
      /\ \A i \in 1 .. Len(calls) - 1 : calls'[i] = calls[i]
  BY <1>1, <1>2, Replace
<1>4. \A i \in 1 .. Len(calls) :
        /\ calls'[i].slot = calls[i].slot
        /\ calls[i].phase = "post" <=> calls'[i].phase = "post"
  BY <1>1, <1>2, <1>3
<1>5. SlotInv
  BY DEF BridgeInv
<1>6. Len(calls) \in Nat /\ Len(calls') = Len(calls) /\ UNCHANGED <<copies, overflow>>
  BY <1>2, <1>3
<1>. QED  BY <1>4, <1>5, <1>6, SameSlots

LEMMA ReloadSlots ==
    ASSUME BridgeInv, Reload
    PROVE  SlotInv' /\ Len(copies) = 0 /\ Len(calls) = 0
<1>1. calls = <<>> /\ calls' = <<>> /\ copies' = <<>> /\ overflow' = 0
  BY DEF Reload
<1>2. Len(<<>>) = 0
  BY EmptySeq
<1>3. Len(copies) = 0
  BY <1>1, <1>2, Types DEF BridgeInv, SlotInv
<1>. QED  BY <1>1, <1>2, <1>3 DEF SlotInv

-----------------------------------------------------------------------------
(* Every event object is freed once. *)

\* A call of event e enters with frame g and this copy: it takes unallocated
\* objects, and the outer calls are not touched.
Entered(e, quiet, copy, token, g) ==
    /\ e \notin DOMAIN heap /\ copy \notin DOMAIN heap \cup {e}
    /\ DOMAIN heap' = DOMAIN heap \cup {e} \cup ({copy} \ {NoEvent})
    /\ \A i \in 1 .. Len(calls) : calls'[i] = calls[i] /\ Back'[i] = Back[i]
    /\ calls' = Append(calls, g) /\ Len(calls') = Len(calls) + 1
    /\ calls'[Len(calls) + 1] = g /\ Back'[Len(calls) + 1] = copy
    /\ g.event = e /\ g.quiet = quiet /\ g.token = token
    /\ g.phase = IF copy = NoEvent THEN "engine" ELSE "pre"
    /\ IF copy = NoEvent
       THEN UNCHANGED <<contexts, nextToken>>
       ELSE token = nextToken /\ BeginEvent(copy, FALSE, quiet)

LEMMA FireFacts ==
    ASSUME BridgeInv, NEW e \in Events, NEW x \in Values, NEW quiet \in BOOLEAN,
           FireWithRoom(e, x, quiet) \/ FireOverflow(e, x, quiet)
    PROVE  \E copy \in Events \cup {NoEvent}, token \in Nat, g \in Frame :
             Entered(e, quiet, copy, token, g)
<1>. DEFINE n == Len(calls)
            m == Len(copies)
<1>1. /\ TypeOK /\ SlotInv /\ n \in Nat /\ m \in Nat /\ Capacity \in Nat /\ m <= Capacity
      /\ copies \in Seq(Events \cup {NoEvent}) /\ nextToken \in Nat
      /\ DOMAIN heap \subseteq Events /\ NoEvent \notin Events
      /\ e \notin DOMAIN heap
  BY Types, BridgeAssumption
     DEF BridgeInv, TypeOK, FireWithRoom, FireOverflow, Unallocated
<1>2. PICK copy \in Events \cup {NoEvent}, token \in Nat, slot \in 0 .. Capacity :
        /\ Enter(e, quiet, copy, token, slot)
        /\ copy \notin DOMAIN heap \cup {e}
        /\ DOMAIN heap' = DOMAIN heap \cup {e} \cup ({copy} \ {NoEvent})
        /\ \/ slot = m + 1 /\ copies' = Append(copies, copy)
           \/ slot = 0 /\ copies' = copies /\ copy = NoEvent
        /\ IF copy = NoEvent
           THEN UNCHANGED <<contexts, nextToken>>
           ELSE token = nextToken /\ BeginEvent(copy, FALSE, quiet)
  <2>1. CASE FireOverflow(e, x, quiet)
    <3>1. DOMAIN heap' = DOMAIN heap \cup {e} \cup ({NoEvent} \ {NoEvent})
      BY <1>1, <2>1, FireOverflowHeap DEF FireOverflow
    <3>2. 0 \in Nat /\ 0 \in 0 .. Capacity /\ NoEvent \in Events \cup {NoEvent}
      BY <1>1
    <3>3. NoEvent \notin DOMAIN heap \cup {e}
      BY <1>1
    <3>4. /\ Enter(e, quiet, NoEvent, 0, 0) /\ copies' = copies
          /\ UNCHANGED <<contexts, nextToken>>
      BY <2>1 DEF FireOverflow
    <3>. QED  BY <3>1, <3>2, <3>3, <3>4
  <2>2. CASE FireWithRoom(e, x, quiet)
    <3>1. m + 1 \in 0 .. Capacity
      BY <1>1, <2>2 DEF FireWithRoom
    <3>2. CASE \E copy \in Unallocated \ {e} :
              /\ copies' = Append(copies, copy)
              /\ heap' = With(With(heap, e, x), copy, x)
              /\ BeginEvent(copy, FALSE, quiet)
              /\ Enter(e, quiet, copy, nextToken, m + 1)
      <4>1. PICK copy \in Unallocated \ {e} :
              /\ copies' = Append(copies, copy)
              /\ heap' = With(With(heap, e, x), copy, x)
              /\ BeginEvent(copy, FALSE, quiet)
              /\ Enter(e, quiet, copy, nextToken, m + 1)
        BY <3>2
      <4>2. copy \in Events /\ copy \notin DOMAIN heap \cup {e} /\ copy # NoEvent
        BY <1>1 DEF Unallocated
      <4>3. DOMAIN heap' = DOMAIN heap \cup {e} \cup ({copy} \ {NoEvent})
        BY <4>1, <4>2 DEF With
      <4>. QED  BY <1>1, <3>1, <4>1, <4>2, <4>3
    <3>3. CASE /\ copies' = Append(copies, NoEvent)
               /\ heap' = With(heap, e, x)
               /\ UNCHANGED <<contexts, nextToken>>
               /\ Enter(e, quiet, NoEvent, 0, m + 1)
      <4>1. DOMAIN heap' = DOMAIN heap \cup {e} \cup ({NoEvent} \ {NoEvent})
        BY <3>3 DEF With
      <4>2. NoEvent \notin DOMAIN heap \cup {e} /\ NoEvent \in Events \cup {NoEvent}
            /\ 0 \in Nat
        BY <1>1
      <4>. QED  BY <3>1, <3>3, <4>1, <4>2
    <3>. QED  BY <2>2, <3>2, <3>3 DEF FireWithRoom
  <2>. QED  BY <2>1, <2>2
<1>. DEFINE g == [phase |-> IF copy = NoEvent THEN "engine" ELSE "pre", event |-> e,
                  quiet |-> quiet, copy |-> copy, token |-> token, slot |-> slot]
<1>3. /\ g \in Frame /\ calls' = Append(calls, g) /\ g.event = e /\ g.quiet = quiet
      /\ g.phase = IF copy = NoEvent THEN "engine" ELSE "pre"
      /\ g.token = token /\ g.slot = slot
  BY <1>1, <1>2, NewFrame DEF Enter
<1>. HIDE DEF g
<1>4. /\ Len(calls') = n + 1 /\ calls'[n + 1] = g
      /\ \A i \in 1 .. n : calls'[i] = calls[i]
  BY <1>3, Push
<1>5. /\ copies' \in Seq(Events \cup {NoEvent}) /\ Len(copies') \in m .. m + 1
      /\ \A k \in 1 .. m : copies'[k] = copies[k]
      /\ slot = m + 1 => Len(copies') = m + 1 /\ copies'[m + 1] = copy
      /\ slot = 0 \/ slot = m + 1
      /\ slot = 0 => copy = NoEvent
  <2>1. CASE slot = m + 1 /\ copies' = Append(copies, copy)
    BY <1>1, <2>1, AppendFacts
  <2>2. CASE slot = 0 /\ copies' = copies /\ copy = NoEvent
    BY <1>1, <2>2
  <2>. QED  BY <1>2, <2>1, <2>2
<1>6. \A i \in 1 .. n : Back'[i] = Back[i]
  <2>1. n \in 0 .. n /\ m \in 0 .. m /\ n <= n + 1 /\ m <= Len(copies') /\ n + 1 \in Nat
    BY <1>1, <1>5
  <2>2. \A i \in 1 .. n : calls[i].phase # "post" => calls[i].slot \in 0 .. m
    BY <1>1 DEF SlotInv
  <2>. QED  BY <1>4, <1>5, <2>1, <2>2, KeptBack
<1>7. Back'[n + 1] = copy
  <2>1. n + 1 \in Nat /\ n + 1 \in 1 .. n + 1 /\ g.phase # "post"
    BY <1>1, <1>3
  <2>2. CASE slot = m + 1
    <3>1. slot \in 1 .. Len(copies')
      BY <1>1, <1>5, <2>2
    <3>2. Back'[n + 1] = copies'[slot]
      BY <1>3, <1>4, <1>5, <2>1, <3>1, BackNext
    <3>. QED  BY <1>5, <2>2, <3>2
  <2>3. CASE slot = 0
    <3>1. slot \notin 1 .. Len(copies')
      BY <2>3
    <3>2. Back'[n + 1] = NoEvent
      BY <1>3, <1>4, <1>5, <2>1, <3>1, BackNext
    <3>. QED  BY <1>5, <2>3, <3>2
  <2>. QED  BY <1>5, <2>2, <2>3
<1>. HIDE DEF n, m
<1>8. n = Len(calls)
  BY DEF n
<1>9. Entered(e, quiet, copy, token, g)
  BY <1>1, <1>2, <1>3, <1>4, <1>6, <1>7, <1>8 DEF Entered
<1>. QED  BY <1>3, <1>9

LEMMA FireHeap ==
    ASSUME BridgeInv, NEW e \in Events, NEW x \in Values, NEW quiet \in BOOLEAN,
           FireWithRoom(e, x, quiet) \/ FireOverflow(e, x, quiet)
    PROVE  HeapInv'
<1>. DEFINE n == Len(calls)
<1>1. HeapInv /\ n \in Nat /\ DOMAIN heap \subseteq Events /\ NoEvent \notin Events
  BY Types, BridgeAssumption DEF BridgeInv, TypeOK
<1>2. PICK copy \in Events \cup {NoEvent}, token \in Nat, g \in Frame :
        Entered(e, quiet, copy, token, g)
  BY FireFacts
<1>3. /\ e \notin DOMAIN heap /\ copy \notin DOMAIN heap \cup {e}
      /\ DOMAIN heap' = DOMAIN heap \cup {e} \cup ({copy} \ {NoEvent})
      /\ \A i \in 1 .. n : calls'[i] = calls[i] /\ Back'[i] = Back[i]
      /\ Len(calls') = n + 1 /\ Back'[n + 1] = copy
      /\ calls'[n + 1].event = e /\ Alive(calls'[n + 1])
  BY <1>2 DEF Entered, Alive
<1>. HIDE DEF n
<1>4. /\ \A i \in 1 .. n : i \in 1 .. n + 1
      /\ n + 1 \in 1 .. n + 1
      /\ \A i \in 1 .. n + 1 : i \in 1 .. n \/ i = n + 1
      /\ \A i \in 1 .. n : i # n + 1
  BY <1>1
<1>5. /\ \A i \in 1 .. n : Alive(calls[i]) => calls[i].event \in DOMAIN heap
      /\ \A i \in 1 .. n : Back[i] # NoEvent => Back[i] \in DOMAIN heap
      /\ \A y \in DOMAIN heap : \E i \in 1 .. n :
           y = Back[i] \/ (Alive(calls[i]) /\ y = calls[i].event)
      /\ \A i, j \in 1 .. n :
           /\ Alive(calls[i]) => calls[i].event # Back[j]
           /\ i # j /\ Alive(calls[i]) /\ Alive(calls[j]) => calls[i].event # calls[j].event
           /\ i # j /\ Back[i] = Back[j] => Back[i] = NoEvent
  BY <1>1 DEF HeapInv, n
<1>6. \A i \in 1 .. n + 1 :
        /\ Alive(calls'[i]) => calls'[i].event \in DOMAIN heap'
        /\ Back'[i] # NoEvent => Back'[i] \in DOMAIN heap'
  BY <1>3, <1>4, <1>5
<1>7. \A y \in DOMAIN heap' : \E i \in 1 .. n + 1 :
        y = Back'[i] \/ (Alive(calls'[i]) /\ y = calls'[i].event)
  <2>1. SUFFICES ASSUME NEW y \in DOMAIN heap'
                 PROVE  \E i \in 1 .. n + 1 :
                          y = Back'[i] \/ (Alive(calls'[i]) /\ y = calls'[i].event)
    OBVIOUS
  <2>2. CASE y \in DOMAIN heap
    <3>1. PICK i \in 1 .. n : y = Back[i] \/ (Alive(calls[i]) /\ y = calls[i].event)
      BY <2>2, <1>5
    <3>. QED  BY <3>1, <1>3, <1>4
  <2>3. CASE y \in {e, copy}
    BY <2>3, <1>3, <1>4
  <2>. QED  BY <2>2, <2>3, <1>3
<1>8. ASSUME NEW i \in 1 .. n + 1, NEW j \in 1 .. n + 1
      PROVE  /\ Alive(calls'[i]) => calls'[i].event # Back'[j]
             /\ i # j /\ Alive(calls'[i]) /\ Alive(calls'[j]) =>
                  calls'[i].event # calls'[j].event
             /\ i # j /\ Back'[i] = Back'[j] => Back'[i] = NoEvent
  <2>1. CASE i \in 1 .. n /\ j \in 1 .. n
    BY <2>1, <1>3, <1>5
  <2>2. CASE i \in 1 .. n /\ j = n + 1
    BY <2>2, <1>1, <1>3, <1>5
  <2>3. CASE i = n + 1 /\ j \in 1 .. n
    BY <2>3, <1>1, <1>3, <1>5
  <2>4. CASE i = n + 1 /\ j = n + 1
    BY <2>4, <1>3
  <2>. QED  BY <1>4, <2>1, <2>2, <2>3, <2>4
<1>9. Len(calls') = n + 1
  BY <1>3
<1>. QED  BY <1>6, <1>7, <1>8, <1>9 DEF HeapInv, Alive

\* The innermost call goes, its event being freed already, and with it the
\* copy it held, if any.
LEMMA PopHeap ==
    ASSUME BridgeInv, calls # <<>>, calls' = Outer, ~Alive(Inner),
           \A i \in 1 .. Len(calls) - 1 : Back'[i] = Back[i],
           DOMAIN heap' = DOMAIN heap \ {Back[Len(calls)]}
    PROVE  HeapInv'
<1>. DEFINE n == Len(calls)
<1>1. /\ HeapInv /\ n \in Nat /\ n >= 1 /\ Len(calls') = n - 1 /\ ~Alive(calls[n])
      /\ \A i \in 1 .. n - 1 : calls'[i] = calls[i] /\ Back'[i] = Back[i]
      /\ DOMAIN heap' = DOMAIN heap \ {Back[n]}
  BY InnerFacts, Pop DEF BridgeInv
<1>. HIDE DEF n
<1>2. /\ \A i \in 1 .. n - 1 : i \in 1 .. n /\ i # n
      /\ \A i \in 1 .. n : i \in 1 .. n - 1 \/ i = n
      /\ n \in 1 .. n
  BY <1>1
<1>3. /\ \A i \in 1 .. n : Alive(calls[i]) => calls[i].event \in DOMAIN heap
      /\ \A i \in 1 .. n : Back[i] # NoEvent => Back[i] \in DOMAIN heap
      /\ \A y \in DOMAIN heap : \E i \in 1 .. n :
           y = Back[i] \/ (Alive(calls[i]) /\ y = calls[i].event)
      /\ \A i, j \in 1 .. n :
           /\ Alive(calls[i]) => calls[i].event # Back[j]
           /\ i # j /\ Alive(calls[i]) /\ Alive(calls[j]) => calls[i].event # calls[j].event
           /\ i # j /\ Back[i] = Back[j] => Back[i] = NoEvent
  BY <1>1 DEF HeapInv, n
<1>4. \A i \in 1 .. n - 1 :
        /\ Alive(calls'[i]) => calls'[i].event \in DOMAIN heap'
        /\ Back'[i] # NoEvent => Back'[i] \in DOMAIN heap'
  <2>1. SUFFICES ASSUME NEW i \in 1 .. n - 1
                 PROVE  /\ Alive(calls'[i]) => calls'[i].event \in DOMAIN heap'
                        /\ Back'[i] # NoEvent => Back'[i] \in DOMAIN heap'
    OBVIOUS
  <2>2. /\ Alive(calls[i]) => calls[i].event \in DOMAIN heap /\ calls[i].event # Back[n]
        /\ Back[i] # NoEvent => Back[i] \in DOMAIN heap /\ Back[i] # Back[n]
    BY <1>2, <1>3
  <2>. QED  BY <1>1, <2>2
<1>5. \A y \in DOMAIN heap' : \E i \in 1 .. n - 1 :
        y = Back'[i] \/ (Alive(calls'[i]) /\ y = calls'[i].event)
  <2>1. SUFFICES ASSUME NEW y \in DOMAIN heap'
                 PROVE  \E i \in 1 .. n - 1 :
                          y = Back'[i] \/ (Alive(calls'[i]) /\ y = calls'[i].event)
    OBVIOUS
  <2>2. y \in DOMAIN heap /\ y # Back[n]
    BY <1>1
  <2>3. PICK i \in 1 .. n : y = Back[i] \/ (Alive(calls[i]) /\ y = calls[i].event)
    BY <2>2, <1>3
  <2>4. i \in 1 .. n - 1
    BY <2>2, <2>3, <1>1, <1>2
  <2>. QED  BY <2>3, <2>4, <1>1
<1>6. ASSUME NEW i \in 1 .. n - 1, NEW j \in 1 .. n - 1
      PROVE  /\ Alive(calls'[i]) => calls'[i].event # Back'[j]
             /\ i # j /\ Alive(calls'[i]) /\ Alive(calls'[j]) =>
                  calls'[i].event # calls'[j].event
             /\ i # j /\ Back'[i] = Back'[j] => Back'[i] = NoEvent
  BY <1>1, <1>2, <1>3
<1>7. Len(calls') = n - 1
  BY <1>1
<1>. QED  BY <1>4, <1>5, <1>6, <1>7 DEF HeapInv, Alive

\* The innermost call goes on, with the same copy to get back; its event is
\* freed when, and only when, this is the end of it.
LEMMA ReplaceHeap ==
    ASSUME BridgeInv, calls # <<>>, NEW g \in Frame, calls' = Append(Outer, g),
           \A i \in 1 .. Len(calls) : Back'[i] = Back[i],
           g.event = Inner.event,
           \/ /\ Alive(Inner) /\ ~Alive(g)
              /\ DOMAIN heap' = DOMAIN heap \ {Inner.event}
           \/ /\ Alive(Inner) <=> Alive(g)
              /\ DOMAIN heap' = DOMAIN heap
    PROVE  HeapInv'
<1>. DEFINE n == Len(calls)
<1>1. /\ HeapInv /\ n \in Nat /\ n >= 1 /\ Len(calls') = n /\ Inner = calls[n]
      /\ \A i \in 1 .. n - 1 : calls'[i] = calls[i]
      /\ \A i \in 1 .. n : Back'[i] = Back[i]
      /\ calls'[n] = g /\ g.event = calls[n].event
  BY InnerFacts, Replace DEF BridgeInv
<1>2. /\ \A i \in 1 .. n : i \in 1 .. n - 1 \/ i = n
      /\ n \in 1 .. n
  BY <1>1
<1>3. /\ \A i \in 1 .. n : Alive(calls[i]) => calls[i].event \in DOMAIN heap
      /\ \A i \in 1 .. n : Back[i] # NoEvent => Back[i] \in DOMAIN heap
      /\ \A y \in DOMAIN heap : \E i \in 1 .. n :
           y = Back[i] \/ (Alive(calls[i]) /\ y = calls[i].event)
      /\ \A i, j \in 1 .. n :
           /\ Alive(calls[i]) => calls[i].event # Back[j]
           /\ i # j /\ Alive(calls[i]) /\ Alive(calls[j]) => calls[i].event # calls[j].event
           /\ i # j /\ Back[i] = Back[j] => Back[i] = NoEvent
  BY <1>1 DEF HeapInv, n
<1>. HIDE DEF n
<1>4. \A i \in 1 .. n : /\ calls'[i].event = calls[i].event
                        /\ Alive(calls'[i]) => Alive(calls[i])
  BY <1>1, <1>2
<1>5. CASE /\ Alive(Inner) /\ ~Alive(g)
           /\ DOMAIN heap' = DOMAIN heap \ {Inner.event}
  <2>1. \A i \in 1 .. n :
          /\ Alive(calls'[i]) => calls'[i].event \in DOMAIN heap'
          /\ Back'[i] # NoEvent => Back'[i] \in DOMAIN heap'
    <3>1. \A i \in 1 .. n : Alive(calls'[i]) => i # n /\ Alive(calls[i])
      BY <1>1, <1>4, <1>5
    <3>2. Alive(calls[n]) /\ DOMAIN heap' = DOMAIN heap \ {calls[n].event}
      BY <1>1, <1>5
    <3>. QED  BY <3>1, <3>2, <1>1, <1>2, <1>3, <1>4
  <2>2. \A y \in DOMAIN heap' : \E i \in 1 .. n :
          y = Back'[i] \/ (Alive(calls'[i]) /\ y = calls'[i].event)
    <3>1. SUFFICES ASSUME NEW y \in DOMAIN heap'
                   PROVE  \E i \in 1 .. n :
                            y = Back'[i] \/ (Alive(calls'[i]) /\ y = calls'[i].event)
      OBVIOUS
    <3>2. y \in DOMAIN heap /\ y # calls[n].event
      BY <1>1, <1>5
    <3>3. PICK i \in 1 .. n : y = Back[i] \/ (Alive(calls[i]) /\ y = calls[i].event)
      BY <3>2, <1>3
    <3>. QED  BY <3>2, <3>3, <1>1, <1>2
  <2>3. ASSUME NEW i \in 1 .. n, NEW j \in 1 .. n
        PROVE  /\ Alive(calls'[i]) => calls'[i].event # Back'[j]
               /\ i # j /\ Alive(calls'[i]) /\ Alive(calls'[j]) =>
                    calls'[i].event # calls'[j].event
               /\ i # j /\ Back'[i] = Back'[j] => Back'[i] = NoEvent
    BY <1>1, <1>3, <1>4
  <2>4. Len(calls') = n
    BY <1>1
  <2>. QED  BY <2>1, <2>2, <2>3, <2>4 DEF HeapInv, Alive
<1>6. CASE (Alive(Inner) <=> Alive(g)) /\ DOMAIN heap' = DOMAIN heap
  <2>1. \A i \in 1 .. n :
          /\ Alive(calls'[i]) => calls'[i].event \in DOMAIN heap'
          /\ Back'[i] # NoEvent => Back'[i] \in DOMAIN heap'
    BY <1>1, <1>3, <1>4, <1>6
  <2>2. \A y \in DOMAIN heap' : \E i \in 1 .. n :
          y = Back'[i] \/ (Alive(calls'[i]) /\ y = calls'[i].event)
    <3>1. SUFFICES ASSUME NEW y \in DOMAIN heap'
                   PROVE  \E i \in 1 .. n :
                            y = Back'[i] \/ (Alive(calls'[i]) /\ y = calls'[i].event)
      OBVIOUS
    <3>2. PICK i \in 1 .. n : y = Back[i] \/ (Alive(calls[i]) /\ y = calls[i].event)
      BY <1>3, <1>6
    <3>. QED  BY <3>2, <1>1, <1>2, <1>6
  <2>3. ASSUME NEW i \in 1 .. n, NEW j \in 1 .. n
        PROVE  /\ Alive(calls'[i]) => calls'[i].event # Back'[j]
               /\ i # j /\ Alive(calls'[i]) /\ Alive(calls'[j]) =>
                    calls'[i].event # calls'[j].event
               /\ i # j /\ Back'[i] = Back'[j] => Back'[i] = NoEvent
    BY <1>1, <1>3, <1>4
  <2>4. Len(calls') = n
    BY <1>1
  <2>. QED  BY <2>1, <2>2, <2>3, <2>4 DEF HeapInv, Alive
<1>. QED  BY <1>5, <1>6

-----------------------------------------------------------------------------
(* The contexts are those of the callbacks in progress. *)

\* No callback begins: the k outer calls stay, the others are not calling any
\* more, and their contexts, no others, are gone.
LEMMA EndTokens ==
    ASSUME BridgeInv, NEW k \in 0 .. Len(calls), Len(calls') \in Nat, k <= Len(calls'),
           \A i \in 1 .. k : calls'[i] = calls[i] /\ Back'[i] = Back[i],
           \A i \in k + 1 .. Len(calls') : ~Calling(calls'[i]),
           \A t \in DOMAIN contexts' : t \in DOMAIN contexts /\ contexts'[t] = contexts[t],
           \A t \in DOMAIN contexts : t \in DOMAIN contexts' <=>
             \A i \in k + 1 .. Len(calls) : Calling(calls[i]) => t # calls[i].token
    PROVE  TokenInv'
<1>. DEFINE n == Len(calls)
            p == Len(calls')
<1>1. /\ TokenInv /\ n \in Nat /\ p \in Nat /\ k \in Int
      /\ \A i \in 1 .. n : i \in 1 .. k \/ i \in k + 1 .. n
      /\ \A i \in 1 .. p : i \in 1 .. k \/ i \in k + 1 .. p
      /\ \A i \in 1 .. k : i \in 1 .. n /\ i \in 1 .. p
      /\ \A i \in k + 1 .. n : i \in 1 .. n
      /\ \A i \in 1 .. k, j \in k + 1 .. n : i # j
  BY Types DEF BridgeInv
<1>2. \A i \in 1 .. p : Calling(calls'[i]) =>
        /\ i \in 1 .. k /\ i \in 1 .. n /\ calls'[i] = calls[i] /\ Back'[i] = Back[i]
        /\ Calling(calls[i])
  BY <1>1
<1>3. ASSUME NEW i \in 1 .. p, Calling(calls'[i])
      PROVE  /\ calls'[i].token \in DOMAIN contexts'
             /\ contexts'[calls'[i].token].event = Back'[i]
             /\ contexts'[calls'[i].token].post = (calls'[i].phase = "post")
  <2>1. /\ i \in 1 .. k /\ i \in 1 .. n /\ calls'[i] = calls[i] /\ Back'[i] = Back[i]
        /\ Calling(calls[i])
    BY <1>2, <1>3
  <2>2. /\ calls[i].token \in DOMAIN contexts
        /\ contexts[calls[i].token].event = Back[i]
        /\ contexts[calls[i].token].post = (calls[i].phase = "post")
    BY <1>1, <2>1 DEF TokenInv
  <2>3. \A j \in k + 1 .. n : Calling(calls[j]) => calls[i].token # calls[j].token
    BY <1>1, <2>1 DEF TokenInv
  <2>4. calls[i].token \in DOMAIN contexts'
    BY <2>2, <2>3
  <2>. QED  BY <2>1, <2>2, <2>4
<1>4. ASSUME NEW t \in DOMAIN contexts'
      PROVE  \E i \in 1 .. p : Calling(calls'[i]) /\ t = calls'[i].token
  <2>1. t \in DOMAIN contexts
    OBVIOUS
  <2>2. PICK i \in 1 .. n : Calling(calls[i]) /\ t = calls[i].token
    BY <1>1, <2>1 DEF TokenInv
  <2>3. i \notin k + 1 .. n
    BY <2>1, <2>2
  <2>4. i \in 1 .. k
    BY <1>1, <2>3
  <2>. QED  BY <1>1, <2>2, <2>4
<1>5. ASSUME NEW i \in 1 .. p, NEW j \in 1 .. p, i # j,
             Calling(calls'[i]), Calling(calls'[j])
      PROVE  calls'[i].token # calls'[j].token
  <2>1. /\ i \in 1 .. n /\ calls'[i] = calls[i] /\ Calling(calls[i])
        /\ j \in 1 .. n /\ calls'[j] = calls[j] /\ Calling(calls[j])
    BY <1>2, <1>5
  <2>2. calls[i].token # calls[j].token
    BY <1>1, <1>5, <2>1 DEF TokenInv
  <2>. QED  BY <2>1, <2>2
<1>. QED  BY <1>3, <1>4, <1>5 DEF TokenInv, Calling

\* The k-th call, now the innermost one, begins its callbacks.
LEMMA BeginTokens ==
    ASSUME BridgeInv, NEW k \in 1 .. Len(calls) + 1, Len(calls') = k,
           \A i \in 1 .. k - 1 : calls'[i] = calls[i] /\ Back'[i] = Back[i],
           \A i \in k .. Len(calls) : ~Calling(calls[i]),
           NEW e \in Events, NEW post \in BOOLEAN, NEW quiet \in BOOLEAN,
           BeginEvent(e, post, quiet), Calling(calls'[k]),
           calls'[k].token = nextToken, Back'[k] = e,
           post = (calls'[k].phase = "post")
    PROVE  TokenInv'
<1>. DEFINE n == Len(calls)
<1>1. /\ TokenInv /\ n \in Nat /\ k \in Nat
      /\ \A i \in 1 .. n : i \in 1 .. k - 1 \/ i \in k .. n
      /\ \A i \in 1 .. k : i \in 1 .. k - 1 \/ i = k
      /\ \A i \in 1 .. k - 1 : i \in 1 .. n /\ i \in 1 .. k
      /\ k \in 1 .. k
  BY Types DEF BridgeInv
<1>2. /\ DOMAIN contexts' = DOMAIN contexts \cup {nextToken}
      /\ nextToken \notin DOMAIN contexts
      /\ \A t \in DOMAIN contexts : contexts'[t] = contexts[t]
      /\ contexts'[nextToken].event = e /\ contexts'[nextToken].post = post
  <2>1. TypeOK
    BY DEF BridgeInv
  <2>2. contexts'[nextToken] =
          [event |-> e, post |-> post, cancelled |-> FALSE, quiet |-> quiet]
    BY <2>1, BeginEventType
  <2>3. /\ DOMAIN contexts' = DOMAIN contexts \cup {nextToken}
        /\ nextToken \notin DOMAIN contexts
        /\ \A t \in DOMAIN contexts : contexts'[t] = contexts[t]
    BY <2>1, BeginEventType
  <2>. QED  BY <2>2, <2>3
<1>3. ASSUME NEW i \in 1 .. k - 1, Calling(calls'[i])
      PROVE  /\ calls[i].token \in DOMAIN contexts
             /\ calls[i].token # nextToken
             /\ contexts[calls[i].token].event = Back[i]
             /\ contexts[calls[i].token].post = (calls[i].phase = "post")
  <2>1. calls'[i] = calls[i]
    OBVIOUS
  <2>2. i \in 1 .. n /\ Calling(calls[i])
    BY <1>1, <1>3, <2>1
  <2>3. /\ calls[i].token \in DOMAIN contexts
        /\ contexts[calls[i].token].event = Back[i]
        /\ contexts[calls[i].token].post = (calls[i].phase = "post")
    BY <1>1, <2>2 DEF TokenInv
  <2>. QED  BY <1>2, <2>3
<1>4. ASSUME NEW i \in 1 .. k, Calling(calls'[i])
      PROVE  /\ calls'[i].token \in DOMAIN contexts'
             /\ contexts'[calls'[i].token].event = Back'[i]
             /\ contexts'[calls'[i].token].post = (calls'[i].phase = "post")
  <2>1. CASE i = k
    BY <1>2, <2>1
  <2>2. CASE i \in 1 .. k - 1
    BY <1>2, <1>3, <1>4, <2>2
  <2>. QED  BY <1>1, <2>1, <2>2
<1>5. ASSUME NEW t \in DOMAIN contexts'
      PROVE  \E i \in 1 .. k : Calling(calls'[i]) /\ t = calls'[i].token
  <2>1. CASE t = nextToken
    BY <1>1, <2>1
  <2>2. CASE t \in DOMAIN contexts
    <3>1. PICK i \in 1 .. n : Calling(calls[i]) /\ t = calls[i].token
      BY <1>1, <2>2 DEF TokenInv
    <3>2. i \in 1 .. k - 1
      BY <1>1, <3>1
    <3>. QED  BY <1>1, <3>1, <3>2
  <2>. QED  BY <1>2, <2>1, <2>2
<1>6. ASSUME NEW i \in 1 .. k, NEW j \in 1 .. k, i # j,
             Calling(calls'[i]), Calling(calls'[j])
      PROVE  calls'[i].token # calls'[j].token
  <2>1. CASE i = k
    <3>1. j \in 1 .. k - 1 /\ calls'[j] = calls[j]
      BY <1>1, <1>6, <2>1
    <3>. QED  BY <1>3, <1>6, <2>1, <3>1
  <2>2. CASE j = k
    <3>1. i \in 1 .. k - 1 /\ calls'[i] = calls[i]
      BY <1>1, <1>6, <2>2
    <3>. QED  BY <1>3, <1>6, <2>2, <3>1
  <2>3. CASE i \in 1 .. k - 1 /\ j \in 1 .. k - 1
    BY <1>1, <1>6, <2>3 DEF TokenInv
  <2>. QED  BY <1>1, <2>1, <2>2, <2>3
<1>. QED  BY <1>4, <1>5, <1>6 DEF TokenInv, Calling

-----------------------------------------------------------------------------
(* Every step preserves the invariant. *)

LEMMA FirePreserves ==
    ASSUME BridgeInv, NEW e \in Events, NEW x \in Values, NEW quiet \in BOOLEAN,
           FireWithRoom(e, x, quiet) \/ FireOverflow(e, x, quiet)
    PROVE  BridgeInv'
<1>1. TypeOK' /\ SlotInv' /\ HeapInv'
  BY FireWithRoomType, FireOverflowType, FireWithRoomSlots, FireOverflowSlots, FireHeap
<1>2. PICK copy \in Events \cup {NoEvent}, token \in Nat, g \in Frame :
        Entered(e, quiet, copy, token, g)
  BY FireFacts
<1>. DEFINE n == Len(calls)
<1>3. /\ n \in Nat /\ Len(calls') = n + 1 /\ calls'[n + 1] = g /\ Back'[n + 1] = copy
      /\ \A i \in 1 .. n : calls'[i] = calls[i] /\ Back'[i] = Back[i]
      /\ g.token = token /\ g.phase = IF copy = NoEvent THEN "engine" ELSE "pre"
  BY <1>2, Types DEF BridgeInv, Entered
<1>4. CASE copy = NoEvent
  <2>1. UNCHANGED contexts /\ ~Calling(g)
    BY <1>2, <1>3, <1>4 DEF Entered, Calling
  <2>2. /\ n \in 0 .. n /\ Len(calls') \in Nat /\ n <= Len(calls')
        /\ \A i \in n + 1 .. Len(calls') : ~Calling(calls'[i])
        /\ \A t \in DOMAIN contexts' : t \in DOMAIN contexts /\ contexts'[t] = contexts[t]
        /\ \A t \in DOMAIN contexts : t \in DOMAIN contexts' <=>
             \A i \in n + 1 .. n : Calling(calls[i]) => t # calls[i].token
    BY <1>3, <2>1
  <2>3. TokenInv'
    BY <1>3, <2>2, EndTokens
  <2>. QED  BY <1>1, <2>3 DEF BridgeInv
<1>5. CASE copy # NoEvent
  <2>1. /\ BeginEvent(copy, FALSE, quiet) /\ copy \in Events /\ token = nextToken
        /\ Calling(g) /\ g.phase # "post"
    BY <1>2, <1>3, <1>5 DEF Entered, Calling
  <2>2. /\ n + 1 \in 1 .. n + 1
        /\ \A i \in 1 .. (n + 1) - 1 : calls'[i] = calls[i] /\ Back'[i] = Back[i]
        /\ \A i \in n + 1 .. n : ~Calling(calls[i])
        /\ FALSE = (calls'[n + 1].phase = "post")
    BY <1>3, <2>1
  <2>3. TokenInv'
    BY <1>3, <2>1, <2>2, BeginTokens
  <2>. QED  BY <1>1, <2>3 DEF BridgeInv
<1>. QED  BY <1>4, <1>5

LEMMA InsideKept ==
    ASSUME BridgeInv, EndPre \/ EngineFires
    PROVE  \A i \in 1 .. Len(calls) : Back'[i] = Back[i]
<1>1. PICK g \in Frame : /\ calls' = Append(Outer, g) /\ g.slot = Inner.slot
                        /\ g.phase # "post"
  BY InsideFacts
<1>2. calls # <<>> /\ UNCHANGED copies /\ Inner.phase # "post"
  BY InsideFacts
<1>. QED  BY <1>1, <1>2, KeptBackInside

LEMMA InsidePreserves ==
    ASSUME BridgeInv, EndPre \/ EngineFires
    PROVE  BridgeInv'
<1>1. TypeOK' /\ SlotInv'
  BY HookType, InsideSlots DEF Hooks
<1>2. PICK g \in Frame : /\ calls' = Append(Outer, g)
                          /\ g.slot = Inner.slot /\ g.event = Inner.event
                          /\ g.phase \in {"done", "engine"}
                          /\ \/ /\ g.phase = "done"
                                /\ heap' = Without(heap, {Inner.event})
                             \/ g.phase = "engine" /\ UNCHANGED heap
  BY InsideFacts
<1>. DEFINE n == Len(calls)
<1>3. /\ calls # <<>> /\ UNCHANGED copies /\ Inner.phase \in {"pre", "engine"}
      /\ n \in Nat /\ n >= 1 /\ Inner = calls[n] /\ Len(calls') = n /\ calls'[n] = g
      /\ \A i \in 1 .. n - 1 : calls'[i] = calls[i]
  BY <1>2, InsideFacts, InnerFacts, Replace
<1>4. \A i \in 1 .. n : Back'[i] = Back[i]
  BY InsideKept
<1>5. HeapInv'
  <2>1. \/ /\ Alive(Inner) /\ ~Alive(g)
           /\ DOMAIN heap' = DOMAIN heap \ {Inner.event}
        \/ /\ Alive(Inner) <=> Alive(g)
           /\ DOMAIN heap' = DOMAIN heap
    BY <1>2, <1>3 DEF Alive, Without
  <2>. QED  BY <1>2, <1>3, <1>4, <2>1, ReplaceHeap
<1>6. TokenInv'
  <2>1. /\ n - 1 \in 0 .. n /\ Len(calls') \in Nat /\ n - 1 <= Len(calls')
        /\ \A i \in 1 .. n - 1 : calls'[i] = calls[i] /\ Back'[i] = Back[i]
    BY <1>3, <1>4
  <2>2. \A i \in (n - 1) + 1 .. Len(calls') : ~Calling(calls'[i])
    BY <1>2, <1>3 DEF Calling
  <2>3. \A i \in (n - 1) + 1 .. n : calls[i] = Inner
    BY <1>3
  <2>4. \A i \in (n - 1) + 1 .. n : i = n
    BY <1>3
  <2>5. n \in (n - 1) + 1 .. n
    BY <1>3
  <2>6. /\ \A t \in DOMAIN contexts' : t \in DOMAIN contexts /\ contexts'[t] = contexts[t]
        /\ \A t \in DOMAIN contexts : t \in DOMAIN contexts' <=>
             (Calling(Inner) => t # Inner.token)
    <3>1. CASE EndPre
      <4>1. Calling(Inner) /\ EndEvent(Inner.token)
        BY <3>1 DEF EndPre, InnerIs, Calling
      <4>. QED  BY <4>1 DEF EndEvent, Without
    <3>2. CASE EngineFires
      BY <3>2 DEF EngineFires, InnerIs, Calling
    <3>. QED  BY <3>1, <3>2
  <2>7. \A t \in DOMAIN contexts : t \in DOMAIN contexts' <=>
             \A i \in (n - 1) + 1 .. n : Calling(calls[i]) => t # calls[i].token
    BY <1>3, <2>4, <2>5, <2>6
  <2>. QED  BY <2>1, <2>2, <2>6, <2>7, EndTokens
<1>. QED  BY <1>1, <1>5, <1>6 DEF BridgeInv

\* The innermost call returns: what remains to show is that the outer calls
\* will get back what they would have, and what is freed.
LEMMA PopPreserves ==
    ASSUME BridgeInv, calls # <<>>, calls' = Outer, TypeOK', SlotInv',
           ~Alive(Inner),
           \A i \in 1 .. Len(calls) - 1 : Back'[i] = Back[i],
           DOMAIN heap' = DOMAIN heap \ {Back[Len(calls)]},
           \/ ~Calling(Inner) /\ UNCHANGED contexts
           \/ Calling(Inner) /\ EndEvent(Inner.token)
    PROVE  BridgeInv'
<1>. DEFINE n == Len(calls)
<1>1. /\ n \in Nat /\ n >= 1 /\ Inner = calls[n] /\ Len(calls') = n - 1
      /\ \A i \in 1 .. n - 1 : calls'[i] = calls[i]
  BY InnerFacts, Pop
<1>2. HeapInv'
  BY PopHeap
<1>3. TokenInv'
  <2>1. /\ n - 1 \in 0 .. n /\ Len(calls') \in Nat /\ n - 1 <= Len(calls')
        /\ \A i \in 1 .. n - 1 : calls'[i] = calls[i] /\ Back'[i] = Back[i]
        /\ \A i \in (n - 1) + 1 .. Len(calls') : ~Calling(calls'[i])
    BY <1>1
  <2>2. (\A i \in (n - 1) + 1 .. n : i = n) /\ n \in (n - 1) + 1 .. n
    BY <1>1
  <2>3. /\ \A t \in DOMAIN contexts' : t \in DOMAIN contexts /\ contexts'[t] = contexts[t]
        /\ \A t \in DOMAIN contexts : t \in DOMAIN contexts' <=>
             (Calling(Inner) => t # Inner.token)
    BY DEF EndEvent, Without
  <2>4. \A t \in DOMAIN contexts : t \in DOMAIN contexts' <=>
             \A i \in (n - 1) + 1 .. n : Calling(calls[i]) => t # calls[i].token
    BY <1>1, <2>2, <2>3
  <2>. QED  BY <2>1, <2>3, <2>4, EndTokens
<1>. QED  BY <1>2, <1>3 DEF BridgeInv

\* The post hook takes the innermost call's entry off the stack, or its count,
\* and no other: the outer calls will get back what they would have.
LEMMA OuterKept ==
    ASSUME BridgeInv, PostOverflow \/ PostCallbacks \/ EndPost
    PROVE  /\ calls # <<>> /\ Len(calls) \in Nat /\ Len(calls) >= 1
           /\ Inner = calls[Len(calls)] /\ Back[Len(calls)] = CopyOf(Inner)
           /\ \A i \in 1 .. Len(calls) - 1 : calls'[i] = calls[i] /\ Back'[i] = Back[i]
<1>. DEFINE n == Len(calls)
            m == Len(copies)
<1>1. calls # <<>>
  BY DEF PostOverflow, PostCallbacks, EndPost, InnerIs
<1>2. n \in Nat /\ n >= 1 /\ Inner = calls[n] /\ n \in 1 .. n
  BY <1>1, InnerFacts
<1>3. Back[n] = CopyOf(Inner)
  BY <1>2, BackFacts DEF BridgeInv
<1>4. /\ m \in Nat /\ copies \in Seq(Events \cup {NoEvent})
      /\ \A i \in 1 .. n : calls[i].phase # "post" => calls[i].slot \in 0 .. m
  BY Types DEF BridgeInv, TypeOK, SlotInv
<1>5. CASE PostOverflow \/ EndPost
  <2>1. calls' = Outer /\ copies' = copies
    BY <1>5 DEF PostOverflow, EndPost
  <2>2. Len(calls') = n - 1 /\ \A i \in 1 .. n - 1 : calls'[i] = calls[i]
    BY <1>1, <2>1, Pop
  <2>3. /\ n - 1 \in 0 .. n /\ Len(calls') \in Nat /\ n - 1 <= Len(calls')
        /\ m \in 0 .. m /\ m <= Len(copies')
        /\ \A i \in 1 .. m : copies'[i] = copies[i]
        /\ \A i \in 1 .. n - 1 : calls[i].phase # "post" => calls[i].slot \in 0 .. m
    BY <1>2, <1>4, <2>1, <2>2
  <2>4. \A i \in 1 .. n - 1 : Back'[i] = Back[i]
    BY <1>4, <2>1, <2>2, <2>3, KeptBack
  <2>. QED  BY <1>1, <1>2, <1>3, <2>2, <2>4
<1>6. CASE PostCallbacks
  <2>1. /\ m >= 1 /\ copies' \in Seq(Events \cup {NoEvent}) /\ Len(copies') = m - 1
        /\ \A k \in 1 .. m - 1 : copies'[k] = copies[k]
        /\ \A i \in 1 .. n - 1 : calls[i].phase # "post" => calls[i].slot \in 1 .. m - 1
    BY <1>6, PostCallbacksFacts, PostCallbacksSlots
  <2>2. Len(calls') \in n - 1 .. n /\ \A i \in 1 .. n - 1 : calls'[i] = calls[i]
    <3>1. CASE calls' = Outer
      BY <1>1, <1>2, <3>1, Pop
    <3>2. CASE calls' # Outer
      <4>. DEFINE g == [Inner EXCEPT !.phase = "post", !.copy = Last(copies),
                                     !.token = nextToken]
      <4>1. g \in Frame /\ calls' = Append(Outer, g)
        BY <1>6, <3>2, PostCallbacksFacts
      <4>. HIDE DEF g
      <4>. QED  BY <1>1, <1>2, <4>1, Replace
    <3>. QED  BY <3>1, <3>2
  <2>3. /\ n - 1 \in 0 .. n /\ Len(calls') \in Nat /\ n - 1 <= Len(calls')
        /\ m - 1 \in 0 .. m /\ m - 1 <= Len(copies')
        /\ \A i \in 1 .. n - 1 : calls[i].phase # "post" => calls[i].slot \in 0 .. m - 1
    BY <1>2, <1>4, <2>1, <2>2
  <2>4. \A i \in 1 .. n - 1 : Back'[i] = Back[i]
    BY <2>1, <2>2, <2>3, KeptBack
  <2>. QED  BY <1>1, <1>2, <1>3, <2>2, <2>4
<1>. QED  BY <1>5, <1>6

LEMMA PostOverflowPreserves ==
    ASSUME BridgeInv, PostOverflow
    PROVE  BridgeInv'
<1>1. /\ calls # <<>> /\ calls' = Outer /\ Inner.phase = "done" /\ overflow # 0
      /\ UNCHANGED <<copies, heap, contexts>>
  BY DEF PostOverflow, InnerIs
<1>2. CopyOf(Inner) = NoEvent /\ DOMAIN heap \subseteq Events
  BY <1>1, InnerFacts DEF BridgeInv, TypeOK
<1>3. DOMAIN heap' = DOMAIN heap \ {Back[Len(calls)]}
  BY <1>1, <1>2, OuterKept, BridgeAssumption
<1>4. TypeOK' /\ SlotInv' /\ ~Alive(Inner) /\ ~Calling(Inner)
  BY <1>1, HookType, PostOverflowSlots DEF Hooks, Alive, Calling
<1>. QED  BY <1>1, <1>3, <1>4, OuterKept, PopPreserves

LEMMA PostCallbacksPreserves ==
    ASSUME BridgeInv, PostCallbacks
    PROVE  BridgeInv'
<1>. DEFINE n == Len(calls)
            g == [Inner EXCEPT !.phase = "post", !.copy = Last(copies), !.token = nextToken]
<1>1. /\ calls # <<>> /\ Inner.phase = "done"
      /\ CopyOf(Inner) = Last(copies) /\ Last(copies) \in Events \cup {NoEvent}
      /\ copies' \in Seq(Events \cup {NoEvent})
      /\ UNCHANGED heap /\ DOMAIN heap \subseteq Events
  BY PostCallbacksFacts DEF BridgeInv, TypeOK
<1>2. /\ n \in Nat /\ n >= 1 /\ Inner = calls[n] /\ Inner \in Frame /\ n \in 1 .. n
  BY <1>1, InnerFacts
<1>3. TypeOK' /\ SlotInv'
  BY HookType, PostCallbacksSlots DEF Hooks
<1>4. /\ Back[n] = Last(copies)
      /\ \A i \in 1 .. n - 1 : calls'[i] = calls[i] /\ Back'[i] = Back[i]
  BY <1>1, OuterKept
<1>5. CASE Last(copies) = NoEvent
  <2>1. calls' = Outer /\ UNCHANGED contexts
    BY <1>5, PostCallbacksFacts
  <2>2. DOMAIN heap' = DOMAIN heap \ {Back[n]}
    BY <1>1, <1>4, <1>5, BridgeAssumption
  <2>3. ~Alive(Inner) /\ ~Calling(Inner)
    BY <1>1 DEF Alive, Calling
  <2>. QED  BY <1>1, <1>3, <1>4, <2>1, <2>2, <2>3, PopPreserves
<1>6. CASE Last(copies) # NoEvent
  <2>1. calls' = Append(Outer, g) /\ BeginEvent(Last(copies), TRUE, Inner.quiet)
    BY <1>6, PostCallbacksFacts
  <2>2. /\ g \in Frame /\ g.phase = "post" /\ g.copy = Last(copies) /\ g.token = nextToken
        /\ g.event = Inner.event /\ Inner.quiet \in BOOLEAN
    BY <1>2, PostCallbacksFacts DEF Frame
  <2>. HIDE DEF g
  <2>3. Len(calls') = n /\ calls'[n] = g
    BY <1>1, <2>1, <2>2, Replace
  <2>4. Back'[n] = Last(copies)
    BY <1>1, <1>2, <2>2, <2>3, BackNext
  <2>5. \A i \in 1 .. n : Back'[i] = Back[i]
    BY <1>2, <1>4, <2>4
  <2>6. HeapInv'
    <3>1. ~Alive(Inner) /\ ~Alive(g) /\ DOMAIN heap' = DOMAIN heap
      BY <1>1, <2>2 DEF Alive
    <3>. QED  BY <1>1, <2>1, <2>2, <2>5, <3>1, ReplaceHeap
  <2>7. TokenInv'
    <3>1. /\ n \in 1 .. n + 1 /\ Last(copies) \in Events /\ TRUE \in BOOLEAN
          /\ TRUE = (calls'[n].phase = "post")
      BY <1>1, <1>2, <1>6, <2>2, <2>3
    <3>2. Calling(calls'[n]) /\ ~Calling(calls[n])
      BY <1>1, <1>2, <2>2, <2>3 DEF Calling
    <3>3. \A i \in n .. n : ~Calling(calls[i])
      BY <1>2, <3>2
    <3>. QED  BY <1>4, <2>1, <2>2, <2>3, <2>4, <3>1, <3>2, <3>3, BeginTokens
  <2>. QED  BY <1>3, <2>6, <2>7 DEF BridgeInv
<1>. QED  BY <1>5, <1>6

LEMMA EndPostPreserves ==
    ASSUME BridgeInv, EndPost
    PROVE  BridgeInv'
<1>1. /\ calls # <<>> /\ calls' = Outer /\ Inner.phase = "post" /\ Inner \in Frame
      /\ EndEvent(Inner.token) /\ DOMAIN heap' = DOMAIN heap \ {Inner.copy}
  BY InnerFacts DEF EndPost, InnerIs, Without
<1>2. CopyOf(Inner) = Inner.copy
  BY <1>1, CopyFacts DEF BridgeInv
<1>3. TypeOK' /\ SlotInv' /\ ~Alive(Inner) /\ Calling(Inner)
  BY <1>1, HookType, EndPostSlots DEF Hooks, Alive, Calling
<1>. QED  BY <1>1, <1>2, <1>3, OuterKept, PopPreserves

LEMMA ReloadPreserves ==
    ASSUME BridgeInv, Reload
    PROVE  BridgeInv'
<1>1. /\ Len(calls) = 0 /\ Len(calls') = 0 /\ TypeOK' /\ SlotInv'
      /\ DOMAIN heap' \subseteq DOMAIN heap /\ DOMAIN contexts' = {}
  BY ReloadType, ReloadSlots DEF Reload, Without
<1>2. DOMAIN heap = {}
  BY <1>1 DEF BridgeInv, HeapInv
<1>3. HeapInv'
  BY <1>1, <1>2 DEF HeapInv
<1>4. TokenInv'
  BY <1>1 DEF TokenInv
<1>. QED  BY <1>1, <1>3, <1>4 DEF BridgeInv

\* Callbacks write fields and decisions; the invariant reads neither.
LEMMA CallbackPreserves ==
    ASSUME BridgeInv, Callback
    PROVE  BridgeInv'
<1>1. /\ TypeOK' /\ DOMAIN heap' = DOMAIN heap /\ DOMAIN contexts' = DOMAIN contexts
      /\ \A t \in DOMAIN contexts :
           /\ contexts'[t].event = contexts[t].event
           /\ contexts'[t].post = contexts[t].post
      /\ calls' = calls /\ copies' = copies /\ overflow' = overflow
  BY CallbackType
<1>2. Back' = Back
  BY <1>1 DEF Back, CopyOf
<1>3. SlotInv'
  BY <1>1 DEF SlotInv, BridgeInv
<1>4. HeapInv'
  BY <1>1, <1>2 DEF HeapInv, BridgeInv
<1>5. TokenInv'
  BY <1>1, <1>2 DEF TokenInv, BridgeInv
<1>. QED  BY <1>1, <1>3, <1>4, <1>5 DEF BridgeInv

LEMMA InitInv == Init => BridgeInv
<1>. SUFFICES ASSUME Init PROVE BridgeInv
  OBVIOUS
<1>1. /\ calls = <<>> /\ copies = <<>> /\ Len(calls) = 0 /\ Len(copies) = 0
      /\ calls \in Seq(Frame) /\ copies \in Seq(Events \cup {NoEvent})
  BY EmptySeq DEF Init
<1>2. TypeOK
  BY <1>1, BridgeAssumption DEF Init, TypeOK
<1>3. SlotInv /\ HeapInv /\ TokenInv
  BY <1>1 DEF Init, SlotInv, HeapInv, TokenInv
<1>. QED  BY <1>2, <1>3 DEF BridgeInv

LEMMA StepInv == BridgeInv /\ [Next]_vars => BridgeInv'
<1>. SUFFICES ASSUME BridgeInv, [Next]_vars PROVE BridgeInv'
  OBVIOUS
<1>1. CASE \E e \in Events, x \in Values, quiet \in BOOLEAN :
             FireWithRoom(e, x, quiet) \/ FireOverflow(e, x, quiet)
  BY <1>1, FirePreserves
<1>2. CASE EndPre \/ EngineFires
  BY <1>2, InsidePreserves
<1>3. CASE PostOverflow
  BY <1>3, PostOverflowPreserves
<1>4. CASE PostCallbacks
  BY <1>4, PostCallbacksPreserves
<1>5. CASE EndPost
  BY <1>5, EndPostPreserves
<1>6. CASE Reload
  BY <1>6, ReloadPreserves
<1>7. CASE Callback
  BY <1>7, CallbackPreserves
<1>8. CASE UNCHANGED vars
  <2>1. UNCHANGED <<calls, heap, copies, overflow, contexts, nextToken>>
    BY <1>8 DEF vars
  <2>2. Back' = Back
    BY <2>1 DEF Back, CopyOf
  <2>. QED  BY <2>1, <2>2 DEF BridgeInv, TypeOK, SlotInv, HeapInv, TokenInv
<1>. QED  BY <1>1, <1>2, <1>3, <1>4, <1>5, <1>6, <1>7, <1>8 DEF Next, Engine, Hooks

LEMMA Invariance == Spec => []BridgeInv
BY InitInv, StepInv, PTL DEF Spec

-----------------------------------------------------------------------------
(* The properties. *)

\* Type correctness: the copy stack never grows past kEventCopyCapacity, in
\* particular.
THEOREM TypeCorrect == Spec => []TypeOK
BY Invariance, PTL DEF BridgeInv

LEMMA SlotsAccount == BridgeInv => StackAccountsForCalls
<1>. SUFFICES ASSUME BridgeInv PROVE StackAccountsForCalls
  OBVIOUS
<1>1. /\ SlotInv /\ DOMAIN calls = 1 .. Len(calls) /\ DOMAIN copies = 1 .. Len(copies)
      /\ Len(calls) \in Nat /\ Len(copies) \in Nat
  BY Types DEF BridgeInv
<1>2. Pending = {i \in 1 .. Len(calls) : calls[i].phase # "post"}
  BY <1>1 DEF Pending
<1>3. {calls[i].slot : i \in Pending} \ {0} = DOMAIN copies
  <2>1. ASSUME NEW i \in Pending, calls[i].slot # 0
        PROVE  calls[i].slot \in 1 .. Len(copies)
    BY <1>1, <1>2, <2>1 DEF SlotInv
  <2>2. ASSUME NEW k \in 1 .. Len(copies)
        PROVE  k # 0 /\ \E i \in Pending : calls[i].slot = k
    BY <1>1, <1>2 DEF SlotInv
  <2>. QED  BY <1>1, <2>1, <2>2
<1>4. \A i \in Pending, j \in Pending :
        i < j /\ calls[j].slot # 0 => calls[i].slot \in 1 .. calls[j].slot - 1
  BY <1>1, <1>2 DEF SlotInv
<1>5. /\ overflow <= Len(calls) /\ (overflow # 0 => Len(copies) = Capacity)
      /\ \A i \in DOMAIN calls : calls[i].slot = 0 <=> i > Len(calls) - overflow
  BY <1>1 DEF SlotInv
<1>. QED  BY <1>3, <1>4, <1>5 DEF StackAccountsForCalls

\* The copy stack and the overflow counter account for every call whose post
\* hook is still to come.
THEOREM StackAccounts == Spec => []StackAccountsForCalls
BY Invariance, SlotsAccount, PTL

\* Every stack entry is what some call will get back.
LEMMA StackIsBack ==
    ASSUME BridgeInv
    PROVE  CopiesInUse = {Back[i] : i \in 1 .. Len(calls)} \ {NoEvent}
<1>1. /\ SlotInv /\ DOMAIN calls = 1 .. Len(calls) /\ DOMAIN copies = 1 .. Len(copies)
      /\ Len(calls) \in Nat /\ Len(copies) \in Nat
      /\ \A i \in 1 .. Len(calls) : Back[i] = CopyOf(calls[i])
  BY Types, BackFacts DEF BridgeInv
<1>2. ASSUME NEW k \in 1 .. Len(copies)
      PROVE  \E i \in 1 .. Len(calls) : copies[k] = Back[i]
  <2>1. PICK i \in 1 .. Len(calls) : calls[i].phase # "post" /\ calls[i].slot = k
    BY <1>1 DEF SlotInv
  <2>2. Back[i] = copies[k]
    BY <2>1, BackFacts DEF BridgeInv
  <2>. QED  BY <2>2
<1>3. ToSet(copies) = {copies[k] : k \in 1 .. Len(copies)}
  BY <1>1 DEF ToSet
<1>. QED  BY <1>1, <1>2, <1>3 DEF CopiesInUse

LEMMA HeapIsUsed == BridgeInv => EventsFreedOnce
<1>. SUFFICES ASSUME BridgeInv PROVE EventsFreedOnce
  OBVIOUS
<1>1. /\ HeapInv /\ DOMAIN calls = 1 .. Len(calls)
      /\ \A i \in 1 .. Len(calls) : Back[i] = CopyOf(calls[i])
      /\ NoEvent \notin DOMAIN heap
  BY Types, BackFacts, BridgeAssumption DEF BridgeInv, TypeOK
<1>2. EventsInUse = {calls[i].event : i \in {j \in 1 .. Len(calls) : Alive(calls[j])}}
  BY <1>1 DEF EventsInUse, Alive
<1>3. CopiesInUse = {Back[i] : i \in 1 .. Len(calls)} \ {NoEvent}
  BY StackIsBack
<1>4. DOMAIN heap = EventsInUse \cup CopiesInUse
  <2>1. ASSUME NEW e \in DOMAIN heap PROVE e \in EventsInUse \cup CopiesInUse
    BY <1>1, <1>2, <1>3 DEF HeapInv
  <2>2. ASSUME NEW e \in EventsInUse PROVE e \in DOMAIN heap
    BY <1>1, <1>2 DEF HeapInv
  <2>3. ASSUME NEW e \in CopiesInUse PROVE e \in DOMAIN heap
    BY <1>1, <1>3 DEF HeapInv
  <2>. QED  BY <2>1, <2>2, <2>3
<1>5. EventsInUse \cap CopiesInUse = {}
  BY <1>1, <1>2, <1>3 DEF HeapInv
<1>6. \A i, j \in DOMAIN calls : i # j =>
        /\ calls[i].phase \in {"pre", "engine"} /\ calls[j].phase \in {"pre", "engine"}
             => calls[i].event # calls[j].event
        /\ CopyOf(calls[i]) = CopyOf(calls[j]) => CopyOf(calls[i]) = NoEvent
  BY <1>1 DEF HeapInv, Alive
<1>. QED  BY <1>4, <1>5, <1>6 DEF EventsFreedOnce

\* Events are freed exactly once, on every path.
THEOREM FreedOnce == Spec => []EventsFreedOnce
BY Invariance, HeapIsUsed, PTL

LEMMA TokensReach == BridgeInv => TokensReachLiveCopies
<1>. SUFFICES ASSUME BridgeInv PROVE TokensReachLiveCopies
  OBVIOUS
<1>1. /\ HeapInv /\ TokenInv /\ DOMAIN calls = 1 .. Len(calls)
      /\ \A i \in 1 .. Len(calls) : Back[i] = CopyOf(calls[i])
      /\ NoEvent \notin Events
      /\ \A t \in DOMAIN contexts : contexts[t].event \in Events
  BY Types, BackFacts, BridgeAssumption DEF BridgeInv, TypeOK, Context
<1>2. DOMAIN contexts = {calls[i].token : i \in {j \in DOMAIN calls :
                                            calls[j].phase \in {"pre", "post"}}}
  <2>1. ASSUME NEW t \in DOMAIN contexts
        PROVE  \E i \in {j \in DOMAIN calls : calls[j].phase \in {"pre", "post"}} :
                 t = calls[i].token
    BY <1>1 DEF TokenInv, Calling
  <2>2. ASSUME NEW i \in {j \in DOMAIN calls : calls[j].phase \in {"pre", "post"}}
        PROVE  calls[i].token \in DOMAIN contexts
    BY <1>1 DEF TokenInv, Calling
  <2>. QED  BY <2>1, <2>2
<1>3. ASSUME NEW i \in DOMAIN calls, calls[i].phase \in {"pre", "post"}
      PROVE  /\ contexts[calls[i].token].event = CopyOf(calls[i])
             /\ contexts[calls[i].token].event \in DOMAIN heap
             /\ contexts[calls[i].token].post = (calls[i].phase = "post")
  <2>1. /\ calls[i].token \in DOMAIN contexts
        /\ contexts[calls[i].token].event = Back[i]
        /\ contexts[calls[i].token].post = (calls[i].phase = "post")
    BY <1>1, <1>3 DEF TokenInv, Calling
  <2>2. Back[i] # NoEvent
    BY <1>1, <2>1
  <2>3. Back[i] \in DOMAIN heap
    BY <1>1, <2>2 DEF HeapInv
  <2>. QED  BY <1>1, <2>1, <2>3
<1>. QED  BY <1>2, <1>3 DEF TokensReachLiveCopies

\* No token outlives the object it gives access to.
THEOREM TokensReachCopies == Spec => []TokensReachLiveCopies
BY Invariance, TokensReach, PTL

\* What a step may do to a token, as in TokensAreNotReused.
LEMMA TokensMonotone ==
    ASSUME BridgeInv, [Next]_vars
    PROVE  [/\ \A t \in DOMAIN contexts' :
                 IF t \in DOMAIN contexts
                 THEN /\ contexts'[t].event = contexts[t].event
                      /\ contexts'[t].post = contexts[t].post
                 ELSE t >= nextToken
            /\ nextToken' < nextToken => calls = <<>> /\ DOMAIN contexts = {}]_vars
<1>. DEFINE A == /\ \A t \in DOMAIN contexts' :
                      IF t \in DOMAIN contexts
                      THEN /\ contexts'[t].event = contexts[t].event
                           /\ contexts'[t].post = contexts[t].post
                      ELSE t >= nextToken
                 /\ nextToken' < nextToken => calls = <<>> /\ DOMAIN contexts = {}
<1>1. TypeOK /\ nextToken \in Nat
  BY Types DEF BridgeInv
<1>2. ASSUME UNCHANGED <<contexts, nextToken>> PROVE A
  BY <1>1, <1>2
<1>3. ASSUME NEW e \in Events, NEW post \in BOOLEAN, NEW quiet \in BOOLEAN,
             BeginEvent(e, post, quiet)
      PROVE  A
  <2>1. /\ DOMAIN contexts' = DOMAIN contexts \cup {nextToken}
        /\ nextToken' = nextToken + 1
        /\ \A t \in DOMAIN contexts : contexts'[t] = contexts[t]
    BY <1>1, <1>3, BeginEventType
  <2>. QED  BY <1>1, <2>1
<1>4. ASSUME NEW token, EndEvent(token) PROVE A
  <2>1. /\ DOMAIN contexts' = DOMAIN contexts \ {token} /\ nextToken' = nextToken
        /\ \A t \in DOMAIN contexts' : contexts'[t] = contexts[t]
    BY <1>1, <1>4, EndEventType
  <2>. QED  BY <1>1, <2>1
<1>5. ASSUME Reload PROVE A
  <2>1. calls = <<>> /\ DOMAIN contexts' = {}
    BY <1>5 DEF Reload
  <2>2. Len(calls) = 0
    BY <2>1, EmptySeq
  <2>3. DOMAIN contexts = {}
    BY <2>2 DEF BridgeInv, TokenInv
  <2>. QED  BY <2>1, <2>3
<1>6. ASSUME Callback PROVE A
  BY <1>1, <1>6, CallbackType
<1>7. CASE \E e \in Events, x \in Values, quiet \in BOOLEAN :
             FireWithRoom(e, x, quiet) \/ FireOverflow(e, x, quiet)
  <2>1. PICK e \in Events, x \in Values, quiet \in BOOLEAN :
          FireWithRoom(e, x, quiet) \/ FireOverflow(e, x, quiet)
    BY <1>7
  <2>2. PICK copy \in Events \cup {NoEvent}, token \in Nat, g \in Frame :
          Entered(e, quiet, copy, token, g)
    BY <2>1, FireFacts
  <2>. QED  BY <1>2, <1>3, <2>2 DEF Entered
<1>8. CASE EndPre \/ EndPost
  BY <1>4, <1>8 DEF EndPre, EndPost
<1>9. CASE EngineFires \/ PostOverflow
  BY <1>2, <1>9 DEF EngineFires, PostOverflow
<1>10. CASE PostCallbacks
  <2>1. /\ Inner.quiet \in BOOLEAN /\ Last(copies) \in Events \cup {NoEvent}
        /\ \/ UNCHANGED <<contexts, nextToken>>
           \/ Last(copies) # NoEvent /\ BeginEvent(Last(copies), TRUE, Inner.quiet)
    BY <1>10, PostCallbacksFacts
  <2>. QED  BY <1>2, <1>3, <2>1
<1>11. CASE UNCHANGED vars
  BY <1>11 DEF vars
<1>. QED  BY <1>5, <1>6, <1>7, <1>8, <1>9, <1>10, <1>11 DEF Next, Engine, Hooks

\* A token is used once, as long as any call is in progress.
THEOREM TokensOnce == Spec => TokensAreNotReused
BY Invariance, TokensMonotone, PTL DEF Spec, TokensAreNotReused

-----------------------------------------------------------------------------
(* The bridge implements EventCalls. *)

LEMMA FunctionIsSeq ==
    ASSUME NEW S, NEW n \in Nat, NEW f \in [1 .. n -> S]
    PROVE  f \in Seq(S) /\ Len(f) = n
<1>1. f \in Seq(S)
  BY SeqDef
<1>2. Len(f) \in Nat /\ 1 .. Len(f) = 1 .. n
  BY <1>1, LenProperties
<1>3. ASSUME Len(f) > n PROVE FALSE
  <2>1. Len(f) \in 1 .. Len(f) /\ Len(f) \notin 1 .. n
    BY <1>2, <1>3
  <2>. QED  BY <1>2, <2>1
<1>4. ASSUME n > Len(f) PROVE FALSE
  <2>1. n \in 1 .. n /\ n \notin 1 .. Len(f)
    BY <1>2, <1>4
  <2>. QED  BY <1>2, <2>1
<1>. QED  BY <1>1, <1>2, <1>3, <1>4

\* The ways the abstract call stack changes.
LEMMA AddLast ==
    ASSUME NEW S, NEW s \in Seq(S), NEW t \in Seq(S), NEW x \in S,
           Len(t) = Len(s) + 1, \A i \in 1 .. Len(s) : t[i] = s[i], t[Len(s) + 1] = x
    PROVE  t = Append(s, x)
<1>1. /\ Append(s, x) \in Seq(S) /\ Len(s) \in Nat /\ Len(Append(s, x)) = Len(s) + 1
      /\ \A i \in 1 .. Len(s) : Append(s, x)[i] = s[i]
      /\ Append(s, x)[Len(s) + 1] = x
  BY AppendFacts
<1>2. \A i \in 1 .. Len(t) : t[i] = Append(s, x)[i]
  BY <1>1
<1>. QED  BY <1>1, <1>2, SeqEqual

LEMMA ChangeLast ==
    ASSUME NEW S, NEW s \in Seq(S), s # <<>>, NEW t \in Seq(S), NEW x \in S,
           Len(t) = Len(s), \A i \in 1 .. Len(s) - 1 : t[i] = s[i], t[Len(s)] = x
    PROVE  t = Append(Front(s), x)
<1>1. /\ Front(s) \in Seq(S) /\ Len(s) \in Nat /\ Len(Front(s)) = Len(s) - 1
      /\ \A i \in 1 .. Len(s) - 1 : Front(s)[i] = s[i]
  BY FrontFacts
<1>2. /\ Len(t) = Len(Front(s)) + 1 /\ t[Len(Front(s)) + 1] = x
      /\ \A i \in 1 .. Len(Front(s)) : t[i] = Front(s)[i]
  BY <1>1
<1>. QED  BY <1>1, <1>2, AddLast

LEMMA DropLast ==
    ASSUME NEW S, NEW s \in Seq(S), s # <<>>, NEW t \in Seq(S),
           Len(t) = Len(s) - 1, \A i \in 1 .. Len(s) - 1 : t[i] = s[i]
    PROVE  t = Front(s)
<1>1. /\ Front(s) \in Seq(S) /\ Len(s) \in Nat /\ Len(Front(s)) = Len(s) - 1
      /\ \A i \in 1 .. Len(s) - 1 : Front(s)[i] = s[i]
  BY FrontFacts
<1>2. \A i \in 1 .. Len(t) : t[i] = Front(s)[i]
  BY <1>1
<1>. QED  BY <1>1, <1>2, SeqEqual

LEMMA SameCall ==
    ASSUME NEW c \in Abstract!Call, NEW d \in Abstract!Call,
           c.phase = d.phase, c.event = d.event, c.copy = d.copy, c.quiet = d.quiet
    PROVE  c = d
BY DEF Abstract!Call

\* The abstract call stack, field by field.
AbstractFields ==
    /\ AbstractCalls \in Seq(Abstract!Call) /\ Len(AbstractCalls) = Len(calls)
    /\ DOMAIN AbstractCalls = 1 .. Len(calls)
    /\ \A i \in 1 .. Len(calls) :
         /\ AbstractCalls[i] \in Abstract!Call
         /\ AbstractCalls[i].event = calls[i].event
         /\ AbstractCalls[i].copy = Back[i]
         /\ calls[i].phase = "pre" =>
              /\ AbstractCalls[i].phase =
                   IF contexts[calls[i].token].cancelled THEN "cancelled" ELSE "pre"
              /\ AbstractCalls[i].quiet = contexts[calls[i].token].quiet
         /\ calls[i].phase # "pre" =>
              /\ AbstractCalls[i].phase = calls[i].phase
              /\ AbstractCalls[i].quiet = calls[i].quiet

LEMMA Fields == BridgeInv => AbstractFields
<1>. SUFFICES ASSUME BridgeInv PROVE AbstractFields
  OBVIOUS
<1>1. /\ Len(calls) \in Nat /\ DOMAIN calls = 1 .. Len(calls)
      /\ \A i \in 1 .. Len(calls) : calls[i] \in Frame
  BY Types DEF BridgeInv
<1>2. ASSUME NEW i \in 1 .. Len(calls)
      PROVE  /\ AbstractCalls[i] \in Abstract!Call
             /\ AbstractCalls[i].event = calls[i].event
             /\ AbstractCalls[i].copy = Back[i]
             /\ calls[i].phase = "pre" =>
                  /\ AbstractCalls[i].phase =
                       IF contexts[calls[i].token].cancelled THEN "cancelled" ELSE "pre"
                  /\ AbstractCalls[i].quiet = contexts[calls[i].token].quiet
             /\ calls[i].phase # "pre" =>
                  /\ AbstractCalls[i].phase = calls[i].phase
                  /\ AbstractCalls[i].quiet = calls[i].quiet
  <2>. DEFINE phase == IF calls[i].phase = "pre" /\ contexts[calls[i].token].cancelled
                       THEN "cancelled" ELSE calls[i].phase
              quiet == IF calls[i].phase = "pre" THEN contexts[calls[i].token].quiet
                                                 ELSE calls[i].quiet
  <2>1. AbstractCalls[i] = [phase |-> phase, event |-> calls[i].event,
                            copy |-> CopyOf(calls[i]), quiet |-> quiet]
    BY <1>1 DEF AbstractCalls
  <2>2. calls[i].phase = "pre" => contexts[calls[i].token].quiet \in BOOLEAN
    <3>1. calls[i].phase = "pre" => calls[i].token \in DOMAIN contexts
      BY DEF BridgeInv, TokenInv, Calling
    <3>. QED  BY <3>1 DEF BridgeInv, TypeOK, Context
  <2>3. /\ phase \in {"pre", "cancelled", "engine", "done", "post"}
        /\ calls[i].event \in Events /\ quiet \in BOOLEAN
    BY <1>1, <2>2 DEF Frame
  <2>4. Back[i] = CopyOf(calls[i]) /\ Back[i] \in Events \cup {NoEvent}
    BY BackFacts DEF BridgeInv
  <2>5. AbstractCalls[i] \in Abstract!Call
    BY <2>1, <2>3, <2>4 DEF Abstract!Call
  <2>6. /\ AbstractCalls[i].event = calls[i].event /\ AbstractCalls[i].copy = Back[i]
        /\ AbstractCalls[i].phase = phase /\ AbstractCalls[i].quiet = quiet
    BY <2>1, <2>4
  <2>. QED  BY <2>5, <2>6
<1>3. AbstractCalls \in [1 .. Len(calls) -> Abstract!Call]
  BY <1>1, <1>2 DEF AbstractCalls
<1>4. AbstractCalls \in Seq(Abstract!Call) /\ Len(AbstractCalls) = Len(calls)
  BY <1>1, <1>3, FunctionIsSeq
<1>5. DOMAIN AbstractCalls = 1 .. Len(calls)
  BY <1>1 DEF AbstractCalls
<1>. QED  BY <1>2, <1>4, <1>5 DEF AbstractFields

LEMMA FieldsNext == BridgeInv' => AbstractFields'
BY Fields, PTL

LEMMA AbstractInner ==
    ASSUME BridgeInv, calls # <<>>
    PROVE  /\ AbstractCalls # <<>> /\ AbstractCalls \in Seq(Abstract!Call)
           /\ Abstract!Inner = AbstractCalls[Len(calls)] /\ Abstract!Inner \in Abstract!Call
           /\ Abstract!Outer = Front(AbstractCalls)
           /\ Len(calls) \in 1 .. Len(calls) /\ Len(AbstractCalls) = Len(calls)
<1>1. /\ AbstractCalls \in Seq(Abstract!Call) /\ Len(AbstractCalls) = Len(calls)
      /\ Len(calls) \in Nat /\ Len(calls) >= 1
  BY Fields, InnerFacts DEF AbstractFields
<1>2. AbstractCalls # <<>>
  BY <1>1, EmptySeq
<1>3. Last(AbstractCalls) = AbstractCalls[Len(calls)] /\ Last(AbstractCalls) \in Abstract!Call
  BY <1>1, <1>2, FrontFacts
<1>4. Abstract!Inner = Last(AbstractCalls) /\ Abstract!Outer = Front(AbstractCalls)
  BY DEF Abstract!Inner, Abstract!Outer, Abstract!Last, Abstract!Front, Last, Front
<1>. QED  BY <1>1, <1>2, <1>3, <1>4

\* A call that no step touches, whose decisions no step touches, looks the
\* same.
LEMMA KeptFields ==
    ASSUME BridgeInv, BridgeInv', NEW i \in 1 .. Len(calls), i \in 1 .. Len(calls'),
           calls'[i] = calls[i], Back'[i] = Back[i],
           calls[i].phase = "pre" =>
             contexts'[calls[i].token] = contexts[calls[i].token]
    PROVE  AbstractCalls'[i] = AbstractCalls[i]
<1>1. AbstractFields /\ AbstractFields'
  BY Fields, FieldsNext
<1>2. /\ AbstractCalls[i] \in Abstract!Call
      /\ AbstractCalls[i].event = calls[i].event
      /\ AbstractCalls[i].copy = Back[i]
      /\ calls[i].phase = "pre" =>
           /\ AbstractCalls[i].phase =
                IF contexts[calls[i].token].cancelled THEN "cancelled" ELSE "pre"
           /\ AbstractCalls[i].quiet = contexts[calls[i].token].quiet
      /\ calls[i].phase # "pre" =>
           /\ AbstractCalls[i].phase = calls[i].phase
           /\ AbstractCalls[i].quiet = calls[i].quiet
  BY <1>1 DEF AbstractFields
<1>3. /\ AbstractCalls'[i] \in Abstract!Call
      /\ AbstractCalls'[i].event = calls'[i].event
      /\ AbstractCalls'[i].copy = Back'[i]
      /\ calls'[i].phase = "pre" =>
           /\ AbstractCalls'[i].phase =
                IF contexts'[calls'[i].token].cancelled THEN "cancelled" ELSE "pre"
           /\ AbstractCalls'[i].quiet = contexts'[calls'[i].token].quiet
      /\ calls'[i].phase # "pre" =>
           /\ AbstractCalls'[i].phase = calls'[i].phase
           /\ AbstractCalls'[i].quiet = calls'[i].quiet
  BY <1>1 DEF AbstractFields, Abstract!Call
<1>4. /\ AbstractCalls'[i].event = AbstractCalls[i].event
      /\ AbstractCalls'[i].copy = AbstractCalls[i].copy
      /\ AbstractCalls'[i].phase = AbstractCalls[i].phase
      /\ AbstractCalls'[i].quiet = AbstractCalls[i].quiet
  BY <1>2, <1>3
<1>. QED  BY <1>2, <1>3, <1>4, SameCall

LEMMA NeededIsAllocated ==
    ASSUME BridgeInv
    PROVE  Abstract!Needed \subseteq DOMAIN heap \cup {NoEvent}
<1>1. AbstractFields /\ HeapInv
  BY Fields DEF BridgeInv
<1>2. ASSUME NEW i \in 1 .. Len(calls)
      PROVE  Abstract!Needs(AbstractCalls[i]) \subseteq DOMAIN heap \cup {NoEvent}
  <2>1. /\ AbstractCalls[i].event = calls[i].event /\ AbstractCalls[i].copy = Back[i]
        /\ calls[i].phase # "pre" => AbstractCalls[i].phase = calls[i].phase
        /\ calls[i].phase \in {"pre", "engine", "done", "post"}
    BY <1>1, Types DEF AbstractFields, BridgeInv, Frame
  <2>2. AbstractCalls[i].phase \in {"pre", "cancelled", "engine"} => Alive(calls[i])
    BY <2>1 DEF Alive
  <2>3. /\ Alive(calls[i]) => calls[i].event \in DOMAIN heap
        /\ Back[i] # NoEvent => Back[i] \in DOMAIN heap
    BY <1>1 DEF HeapInv
  <2>. QED  BY <2>1, <2>2, <2>3 DEF Abstract!Needs
<1>3. DOMAIN AbstractCalls = 1 .. Len(calls)
  BY <1>1 DEF AbstractFields
<1>. QED  BY <1>2, <1>3 DEF Abstract!Needed

LEMMA FireSimulates ==
    ASSUME BridgeInv, BridgeInv',
           NEW e \in Events, NEW x \in Values, NEW quiet \in BOOLEAN,
           FireWithRoom(e, x, quiet) \/ FireOverflow(e, x, quiet)
    PROVE  Abstract!ECNext
<1>. DEFINE n == Len(calls)
<1>1. PICK copy \in Events \cup {NoEvent}, token \in Nat, g \in Frame :
        Entered(e, quiet, copy, token, g)
  BY FireFacts
<1>2. /\ n \in Nat /\ Len(calls') = n + 1 /\ calls'[n + 1] = g /\ Back'[n + 1] = copy
      /\ \A i \in 1 .. n : calls'[i] = calls[i] /\ Back'[i] = Back[i]
      /\ g.event = e /\ g.quiet = quiet /\ g.token = token
      /\ g.phase = IF copy = NoEvent THEN "engine" ELSE "pre"
      /\ e \notin DOMAIN heap /\ copy \notin DOMAIN heap \cup {e}
  BY <1>1, Types DEF BridgeInv, Entered
<1>3. \A t \in DOMAIN contexts : contexts'[t] = contexts[t]
  <2>1. CASE copy = NoEvent
    BY <1>1, <2>1 DEF Entered
  <2>2. CASE copy # NoEvent
    <3>1. BeginEvent(copy, FALSE, quiet) /\ copy \in Events /\ TypeOK
      BY <1>1, <2>2 DEF Entered, BridgeInv
    <3>. QED  BY <3>1, BeginEventType
  <2>. QED  BY <2>1, <2>2
<1>4. copy # NoEvent => /\ contexts'[token].cancelled = FALSE
                        /\ contexts'[token].quiet = quiet
  <2>1. SUFFICES ASSUME copy # NoEvent
                 PROVE  /\ contexts'[token].cancelled = FALSE
                        /\ contexts'[token].quiet = quiet
    OBVIOUS
  <2>2. /\ BeginEvent(copy, FALSE, quiet) /\ copy \in Events /\ TypeOK
        /\ token = nextToken
    BY <1>1, <2>1 DEF Entered, BridgeInv
  <2>3. contexts'[token] =
          [event |-> copy, post |-> FALSE, cancelled |-> FALSE, quiet |-> quiet]
    BY <2>2, BeginEventType
  <2>. QED  BY <2>3
<1>. DEFINE c == [phase |-> IF copy = NoEvent THEN "engine" ELSE "pre",
                  event |-> e, copy |-> copy, quiet |-> quiet]
<1>5. AbstractFields /\ AbstractFields'
  BY Fields, FieldsNext
<1>6. AbstractCalls'[n + 1] = c
  <2>1. n + 1 \in 1 .. Len(calls')
    BY <1>2
  <2>2. /\ AbstractCalls'[n + 1] \in Abstract!Call
        /\ AbstractCalls'[n + 1].event = g.event
        /\ AbstractCalls'[n + 1].copy = copy
        /\ g.phase = "pre" =>
             /\ AbstractCalls'[n + 1].phase =
                  IF contexts'[g.token].cancelled THEN "cancelled" ELSE "pre"
             /\ AbstractCalls'[n + 1].quiet = contexts'[g.token].quiet
        /\ g.phase # "pre" =>
             /\ AbstractCalls'[n + 1].phase = g.phase
             /\ AbstractCalls'[n + 1].quiet = g.quiet
    BY <1>2, <1>5, <2>1 DEF AbstractFields, Abstract!Call
  <2>3. c \in Abstract!Call /\ c.event = e /\ c.copy = copy /\ c.quiet = quiet
        /\ c.phase = IF copy = NoEvent THEN "engine" ELSE "pre"
    BY DEF Abstract!Call
  <2>. HIDE DEF c
  <2>4. /\ AbstractCalls'[n + 1].phase = c.phase /\ AbstractCalls'[n + 1].event = c.event
        /\ AbstractCalls'[n + 1].copy = c.copy /\ AbstractCalls'[n + 1].quiet = c.quiet
    BY <1>2, <1>4, <2>2, <2>3
  <2>. QED  BY <2>2, <2>3, <2>4, SameCall
<1>7. AbstractCalls' = Append(AbstractCalls, c)
  <2>1. \A i \in 1 .. n : AbstractCalls'[i] = AbstractCalls[i]
    <3>1. SUFFICES ASSUME NEW i \in 1 .. n PROVE AbstractCalls'[i] = AbstractCalls[i]
      OBVIOUS
    <3>2. i \in 1 .. Len(calls') /\ calls'[i] = calls[i] /\ Back'[i] = Back[i]
      BY <1>2
    <3>3. calls[i].phase = "pre" => contexts'[calls[i].token] = contexts[calls[i].token]
      BY <1>3 DEF BridgeInv, TokenInv, Calling
    <3>. QED  BY <3>2, <3>3, KeptFields
  <2>2. /\ AbstractCalls \in Seq(Abstract!Call) /\ Len(AbstractCalls) = n
        /\ AbstractCalls' \in Seq(Abstract!Call) /\ Len(AbstractCalls') = n + 1
    BY <1>2, <1>5 DEF AbstractFields, Abstract!Call
  <2>3. c \in Abstract!Call
    BY DEF Abstract!Call
  <2>. HIDE DEF c
  <2>. QED  BY <1>6, <2>1, <2>2, <2>3, AddLast
<1>8. Abstract!Begin(e, copy, quiet)
  <2>1. e \notin Abstract!Needed
    BY <1>2, NeededIsAllocated, BridgeAssumption
  <2>2. copy # NoEvent => copy \notin Abstract!Needed \cup {e}
    BY <1>2, NeededIsAllocated
  <2>. QED  BY <1>7, <2>1, <2>2 DEF Abstract!Begin
<1>. QED  BY <1>8 DEF Abstract!ECNext

\* A hook that ends does not touch what outer callbacks decided.
LEMMA OuterDecisions ==
    ASSUME BridgeInv, calls # <<>>,
           \/ UNCHANGED contexts
           \/ Calling(Inner) /\ EndEvent(Inner.token)
           \/ \E e \in Events : BeginEvent(e, TRUE, Inner.quiet)
    PROVE  \A i \in 1 .. Len(calls) - 1 : calls[i].phase = "pre" =>
             contexts'[calls[i].token] = contexts[calls[i].token]
<1>. DEFINE n == Len(calls)
<1>1. n \in Nat /\ n >= 1 /\ Inner = calls[n] /\ Inner \in Frame /\ TypeOK /\ TokenInv
  BY InnerFacts DEF BridgeInv
<1>. SUFFICES ASSUME NEW i \in 1 .. n - 1, calls[i].phase = "pre"
              PROVE  contexts'[calls[i].token] = contexts[calls[i].token]
  OBVIOUS
<1>2. i \in 1 .. n /\ n \in 1 .. n /\ i # n /\ Calling(calls[i])
  BY <1>1 DEF Calling
<1>3. calls[i].token \in DOMAIN contexts
  BY <1>1, <1>2 DEF TokenInv
<1>4. CASE UNCHANGED contexts
  BY <1>4
<1>5. CASE Calling(Inner) /\ EndEvent(Inner.token)
  <2>1. calls[i].token # Inner.token
    BY <1>1, <1>2, <1>5 DEF TokenInv
  <2>. QED  BY <1>3, <1>5, <2>1 DEF EndEvent, Without
<1>6. CASE \E e \in Events : BeginEvent(e, TRUE, Inner.quiet)
  <2>1. Inner.quiet \in BOOLEAN /\ TRUE \in BOOLEAN
    BY <1>1 DEF Frame
  <2>. QED  BY <1>1, <1>3, <1>6, <2>1, BeginEventType
<1>. QED  BY <1>4, <1>5, <1>6

LEMMA OuterLooksTheSame ==
    ASSUME BridgeInv, BridgeInv', calls # <<>>,
           Len(calls') \in Len(calls) - 1 .. Len(calls),
           \A i \in 1 .. Len(calls) - 1 : calls'[i] = calls[i] /\ Back'[i] = Back[i],
           \A i \in 1 .. Len(calls) - 1 : calls[i].phase = "pre" =>
             contexts'[calls[i].token] = contexts[calls[i].token]
    PROVE  /\ \A i \in 1 .. Len(calls) - 1 : AbstractCalls'[i] = AbstractCalls[i]
           /\ AbstractCalls' \in Seq(Abstract!Call)
           /\ Len(AbstractCalls') = Len(calls')
<1>1. Len(calls) \in Nat /\ Len(calls) >= 1
  BY InnerFacts
<1>2. AbstractCalls' \in Seq(Abstract!Call) /\ Len(AbstractCalls') = Len(calls')
  BY FieldsNext DEF AbstractFields, Abstract!Call
<1>3. ASSUME NEW i \in 1 .. Len(calls) - 1
      PROVE  AbstractCalls'[i] = AbstractCalls[i]
  <2>1. i \in 1 .. Len(calls) /\ i \in 1 .. Len(calls')
    BY <1>1
  <2>2. calls'[i] = calls[i] /\ Back'[i] = Back[i]
    OBVIOUS
  <2>3. calls[i].phase = "pre" =>
             contexts'[calls[i].token] = contexts[calls[i].token]
    OBVIOUS
  <2>. QED  BY <2>1, <2>2, <2>3, KeptFields
<1>. QED  BY <1>2, <1>3

\* The innermost call goes on as c, or returns.
LEMMA InnerSimulates ==
    ASSUME BridgeInv, BridgeInv', calls # <<>>,
           Len(calls') \in Len(calls) - 1 .. Len(calls),
           \A i \in 1 .. Len(calls) - 1 : calls'[i] = calls[i] /\ Back'[i] = Back[i],
           \A i \in 1 .. Len(calls) - 1 : calls[i].phase = "pre" =>
             contexts'[calls[i].token] = contexts[calls[i].token]
    PROVE  /\ Len(calls') = Len(calls) - 1 => AbstractCalls' = Abstract!Outer
           /\ \A c \in Abstract!Call :
                Len(calls') = Len(calls) /\ AbstractCalls'[Len(calls)] = c =>
                  AbstractCalls' = Append(Abstract!Outer, c)
<1>1. /\ \A i \in 1 .. Len(calls) - 1 : AbstractCalls'[i] = AbstractCalls[i]
      /\ AbstractCalls' \in Seq(Abstract!Call)
      /\ Len(AbstractCalls') = Len(calls')
  BY OuterLooksTheSame
<1>2. /\ AbstractCalls # <<>> /\ AbstractCalls \in Seq(Abstract!Call)
      /\ Abstract!Outer = Front(AbstractCalls) /\ Len(AbstractCalls) = Len(calls)
  BY AbstractInner
<1>3. Len(calls') = Len(calls) - 1 => AbstractCalls' = Abstract!Outer
  BY <1>1, <1>2, DropLast
<1>4. ASSUME NEW c \in Abstract!Call, Len(calls') = Len(calls),
             AbstractCalls'[Len(calls)] = c
      PROVE  AbstractCalls' = Append(Abstract!Outer, c)
  BY <1>1, <1>2, <1>4, ChangeLast
<1>. QED  BY <1>3, <1>4

\* The innermost frame, as EventCalls sees it before and after the step.
LEMMA InnerFields ==
    ASSUME BridgeInv, calls # <<>>
    PROVE  /\ Abstract!Inner \in Abstract!Call /\ Abstract!Inner.event = Inner.event
           /\ Abstract!Inner.copy = Back[Len(calls)]
           /\ Inner.phase = "pre" =>
                /\ Abstract!Inner.phase =
                     IF contexts[Inner.token].cancelled THEN "cancelled" ELSE "pre"
                /\ Abstract!Inner.quiet = contexts[Inner.token].quiet
           /\ Inner.phase # "pre" =>
                /\ Abstract!Inner.phase = Inner.phase
                /\ Abstract!Inner.quiet = Inner.quiet
           /\ \A p \in {"pre", "cancelled", "engine", "done", "post"} :
                Abstract!InnerIs(p) <=> Abstract!Inner.phase = p
<1>1. /\ AbstractCalls # <<>> /\ Abstract!Inner = AbstractCalls[Len(calls)]
      /\ Inner = calls[Len(calls)] /\ Len(calls) \in 1 .. Len(calls)
      /\ Abstract!Inner \in Abstract!Call
  BY AbstractInner, InnerFacts
<1>2. AbstractFields
  BY Fields
<1>3. \A p : Abstract!InnerIs(p) <=> Abstract!Inner.phase = p
  BY <1>1 DEF Abstract!InnerIs
<1>4. /\ AbstractCalls[Len(calls)].event = calls[Len(calls)].event
      /\ AbstractCalls[Len(calls)].copy = Back[Len(calls)]
      /\ calls[Len(calls)].phase = "pre" =>
           /\ AbstractCalls[Len(calls)].phase =
                IF contexts[calls[Len(calls)].token].cancelled THEN "cancelled" ELSE "pre"
           /\ AbstractCalls[Len(calls)].quiet = contexts[calls[Len(calls)].token].quiet
      /\ calls[Len(calls)].phase # "pre" =>
           /\ AbstractCalls[Len(calls)].phase = calls[Len(calls)].phase
           /\ AbstractCalls[Len(calls)].quiet = calls[Len(calls)].quiet
  BY <1>1, <1>2 DEF AbstractFields
<1>. QED  BY <1>1, <1>3, <1>4

\* The innermost frame after a step that replaces it by g.
LEMMA NewInnerFields ==
    ASSUME BridgeInv, BridgeInv', calls # <<>>, NEW g \in Frame, calls' = Append(Outer, g),
           g.phase # "pre", Back'[Len(calls)] = Back[Len(calls)], g.event = Inner.event
    PROVE  LET c == AbstractCalls'[Len(calls)] IN
           /\ c \in Abstract!Call /\ c.event = Abstract!Inner.event
           /\ c.copy = Abstract!Inner.copy /\ c.phase = g.phase /\ c.quiet = g.quiet
<1>1. /\ Len(calls') = Len(calls) /\ calls'[Len(calls)] = g
      /\ Len(calls) \in 1 .. Len(calls)
  BY Replace, AbstractInner
<1>2. Abstract!Inner.event = Inner.event /\ Abstract!Inner.copy = Back[Len(calls)]
  BY InnerFields
<1>3. AbstractFields'
  BY FieldsNext
<1>4. /\ AbstractCalls'[Len(calls)] \in Abstract!Call
      /\ AbstractCalls'[Len(calls)].event = g.event
      /\ AbstractCalls'[Len(calls)].copy = Back'[Len(calls)]
      /\ AbstractCalls'[Len(calls)].phase = g.phase
      /\ AbstractCalls'[Len(calls)].quiet = g.quiet
  BY <1>1, <1>3 DEF AbstractFields, Abstract!Call
<1>. QED  BY <1>2, <1>4

LEMMA EndPreSimulates ==
    ASSUME BridgeInv, BridgeInv', EndPre
    PROVE  Abstract!ECNext
<1>. DEFINE n == Len(calls)
            decision == contexts[Inner.token]
            A == Abstract!Inner
<1>1. /\ calls # <<>> /\ Inner.phase = "pre" /\ Inner \in Frame /\ n \in Nat /\ n >= 1
      /\ n \in 1 .. n
  BY InnerFacts, AbstractInner DEF EndPre, InnerIs
<1>2. Calling(Inner) /\ EndEvent(Inner.token)
  BY <1>1 DEF EndPre, Calling
<1>3. \A i \in 1 .. n - 1 : calls[i].phase = "pre" =>
        contexts'[calls[i].token] = contexts[calls[i].token]
  BY <1>1, <1>2, OuterDecisions
<1>4. decision.quiet \in BOOLEAN
  <2>1. Inner.token \in DOMAIN contexts
    BY <1>1, <1>2, InnerFacts DEF BridgeInv, TokenInv
  <2>. QED  BY <2>1 DEF BridgeInv, TypeOK, Context
<1>5. /\ A \in Abstract!Call /\ A.quiet = decision.quiet
      /\ A.phase = IF decision.cancelled THEN "cancelled" ELSE "pre"
      /\ Abstract!InnerIs("pre") <=> A.phase = "pre"
      /\ Abstract!InnerIs("cancelled") <=> A.phase = "cancelled"
  BY <1>1, InnerFields
<1>6. ASSUME NEW g \in Frame, calls' = Append(Outer, g), g.phase \in {"done", "engine"},
             g.event = Inner.event,
             NEW c \in Abstract!Call, c.phase = g.phase, c.quiet = g.quiet,
             c.event = A.event, c.copy = A.copy
      PROVE  AbstractCalls' = Append(Abstract!Outer, c)
  <2>1. /\ Len(calls') = n
        /\ \A i \in 1 .. n - 1 : calls'[i] = calls[i] /\ Back'[i] = Back[i]
        /\ Back'[n] = Back[n] /\ n \in n - 1 .. n
    BY <1>1, <1>6, Replace, InsideKept
  <2>2. /\ AbstractCalls'[n] \in Abstract!Call
        /\ AbstractCalls'[n].event = A.event /\ AbstractCalls'[n].copy = A.copy
        /\ AbstractCalls'[n].phase = g.phase /\ AbstractCalls'[n].quiet = g.quiet
    BY <1>1, <1>6, <2>1, NewInnerFields
  <2>3. AbstractCalls'[n] = c
    BY <1>6, <2>2, SameCall
  <2>. QED  BY <1>1, <1>3, <2>1, <2>3, InnerSimulates
<1>7. CASE decision.cancelled
  <2>. DEFINE g == [Inner EXCEPT !.phase = "done", !.copy = NoEvent, !.token = 0]
              c == [A EXCEPT !.phase = "done", !.quiet = Inner.quiet]
  <2>1. /\ g \in Frame /\ g.phase = "done" /\ g.event = Inner.event
        /\ g.quiet = Inner.quiet /\ Inner.quiet \in BOOLEAN
    BY <1>1 DEF Frame
  <2>2. /\ c \in Abstract!Call /\ c.phase = "done" /\ c.quiet = Inner.quiet
        /\ c.event = A.event /\ c.copy = A.copy
    BY <1>5, <2>1 DEF Abstract!Call
  <2>3. calls' = Append(Outer, g)
    BY <1>7 DEF EndPre
  <2>. HIDE DEF g
  <2>4. AbstractCalls' = Append(Abstract!Outer, c)
    <3>. HIDE DEF c
    <3>. QED  BY <1>6, <2>1, <2>2, <2>3
  <2>5. Abstract!InnerIs("cancelled")
    BY <1>5, <1>7
  <2>. QED  BY <2>1, <2>4, <2>5 DEF Abstract!ECNext, Abstract!PreOver
<1>8. CASE ~decision.cancelled
  <2>. DEFINE g == [Inner EXCEPT !.phase = "engine", !.quiet = decision.quiet,
                                 !.copy = NoEvent, !.token = 0]
              c == [A EXCEPT !.phase = "engine"]
  <2>1. /\ g \in Frame /\ g.phase = "engine" /\ g.event = Inner.event
        /\ g.quiet = decision.quiet
    BY <1>1, <1>4 DEF Frame
  <2>2. /\ c \in Abstract!Call /\ c.phase = "engine" /\ c.quiet = decision.quiet
        /\ c.event = A.event /\ c.copy = A.copy
    BY <1>5 DEF Abstract!Call
  <2>3. calls' = Append(Outer, g)
    BY <1>8 DEF EndPre
  <2>. HIDE DEF g
  <2>4. AbstractCalls' = Append(Abstract!Outer, c)
    <3>. HIDE DEF c
    <3>. QED  BY <1>6, <2>1, <2>2, <2>3
  <2>5. Abstract!InnerIs("pre")
    BY <1>5, <1>8
  <2>. QED  BY <2>4, <2>5 DEF Abstract!ECNext, Abstract!PreOver
<1>. QED  BY <1>7, <1>8

LEMMA EngineFiresSimulates ==
    ASSUME BridgeInv, BridgeInv', EngineFires
    PROVE  Abstract!ECNext
<1>. DEFINE n == Len(calls)
            A == Abstract!Inner
            g == [Inner EXCEPT !.phase = "done"]
            c == [A EXCEPT !.phase = "done"]
<1>1. /\ calls # <<>> /\ Inner.phase = "engine" /\ Inner \in Frame /\ n \in Nat /\ n >= 1
      /\ n \in 1 .. n /\ UNCHANGED contexts /\ calls' = Append(Outer, g)
  BY InnerFacts, AbstractInner DEF EngineFires, InnerIs
<1>2. \A i \in 1 .. n - 1 : calls[i].phase = "pre" =>
        contexts'[calls[i].token] = contexts[calls[i].token]
  BY <1>1
<1>3. A \in Abstract!Call /\ A.quiet = Inner.quiet /\ Abstract!InnerIs("engine")
  BY <1>1, InnerFields
<1>4. g \in Frame /\ g.phase = "done" /\ g.event = Inner.event /\ g.quiet = Inner.quiet
  BY <1>1 DEF Frame
<1>5. /\ c \in Abstract!Call /\ c.phase = "done" /\ c.quiet = A.quiet
      /\ c.event = A.event /\ c.copy = A.copy
  BY <1>3 DEF Abstract!Call
<1>. HIDE DEF g
<1>6. AbstractCalls' = Append(Abstract!Outer, c)
  <2>. HIDE DEF c
  <2>1. /\ Len(calls') = n
        /\ \A i \in 1 .. n - 1 : calls'[i] = calls[i] /\ Back'[i] = Back[i]
        /\ Back'[n] = Back[n] /\ n \in n - 1 .. n
    BY <1>1, <1>4, Replace, InsideKept
  <2>2. /\ AbstractCalls'[n] \in Abstract!Call
        /\ AbstractCalls'[n].event = A.event /\ AbstractCalls'[n].copy = A.copy
        /\ AbstractCalls'[n].phase = g.phase /\ AbstractCalls'[n].quiet = g.quiet
    BY <1>1, <1>4, <2>1, NewInnerFields
  <2>3. AbstractCalls'[n] = c
    BY <1>3, <1>4, <1>5, <2>2, SameCall
  <2>. QED  BY <1>1, <1>2, <1>5, <2>1, <2>3, InnerSimulates
<1>. QED  BY <1>3, <1>6 DEF Abstract!ECNext, Abstract!Fired

LEMMA ReturnSimulates ==
    ASSUME BridgeInv, BridgeInv', calls' = Outer,
           \/ PostOverflow
           \/ PostCallbacks /\ Last(copies) = NoEvent
           \/ EndPost
    PROVE  Abstract!ECNext
<1>. DEFINE n == Len(calls)
<1>1. /\ calls # <<>> /\ n \in Nat /\ n >= 1 /\ Back[n] = CopyOf(Inner)
      /\ \A i \in 1 .. n - 1 : calls'[i] = calls[i] /\ Back'[i] = Back[i]
  BY OuterKept
<1>2. Len(calls') = n - 1 /\ n - 1 \in n - 1 .. n
  BY <1>1, Pop
<1>3. \/ UNCHANGED contexts
      \/ Calling(Inner) /\ EndEvent(Inner.token)
  <2>1. CASE PostOverflow
    BY <2>1 DEF PostOverflow
  <2>2. CASE PostCallbacks /\ Last(copies) = NoEvent
    BY <2>2, PostCallbacksFacts
  <2>3. CASE EndPost
    BY <2>3 DEF EndPost, InnerIs, Calling
  <2>. QED  BY <2>1, <2>2, <2>3
<1>4. \A i \in 1 .. n - 1 : calls[i].phase = "pre" =>
        contexts'[calls[i].token] = contexts[calls[i].token]
  BY <1>1, <1>3, OuterDecisions
<1>5. AbstractCalls' = Abstract!Outer
  BY <1>1, <1>2, <1>4, InnerSimulates
<1>6. \/ Inner.phase = "post"
      \/ Inner.phase = "done" /\ CopyOf(Inner) = NoEvent
  <2>1. CASE PostOverflow
    BY <2>1, InnerFacts DEF PostOverflow, InnerIs
  <2>2. CASE PostCallbacks /\ Last(copies) = NoEvent
    BY <2>2, PostCallbacksFacts
  <2>3. CASE EndPost
    BY <2>3 DEF EndPost, InnerIs
  <2>. QED  BY <2>1, <2>2, <2>3
<1>7. /\ Abstract!Inner.copy = CopyOf(Inner)
      /\ Inner.phase # "pre" => Abstract!Inner.phase = Inner.phase
      /\ Abstract!InnerIs("post") <=> Abstract!Inner.phase = "post"
      /\ Abstract!InnerIs("done") <=> Abstract!Inner.phase = "done"
  BY <1>1, InnerFields
<1>. QED  BY <1>5, <1>6, <1>7 DEF Abstract!ECNext, Abstract!Return

LEMMA PostSimulates ==
    ASSUME BridgeInv, BridgeInv', PostCallbacks, Last(copies) # NoEvent
    PROVE  Abstract!ECNext
<1>. DEFINE n == Len(calls)
            A == Abstract!Inner
            g == [Inner EXCEPT !.phase = "post", !.copy = Last(copies), !.token = nextToken]
            c == [A EXCEPT !.phase = "post"]
<1>1. /\ calls # <<>> /\ n \in Nat /\ n >= 1 /\ Back[n] = CopyOf(Inner) /\ n \in 1 .. n
      /\ \A i \in 1 .. n - 1 : calls'[i] = calls[i] /\ Back'[i] = Back[i]
      /\ Inner \in Frame
  BY OuterKept, InnerFacts, AbstractInner
<1>2. /\ calls' = Append(Outer, g) /\ g \in Frame /\ Inner.phase = "done"
      /\ BeginEvent(Last(copies), TRUE, Inner.quiet) /\ Last(copies) \in Events
      /\ CopyOf(Inner) = Last(copies)
  BY PostCallbacksFacts
<1>3. /\ g.phase = "post" /\ g.copy = Last(copies) /\ g.event = Inner.event
      /\ g.quiet = Inner.quiet
  BY <1>1 DEF Frame
<1>4. \A i \in 1 .. n - 1 : calls[i].phase = "pre" =>
        contexts'[calls[i].token] = contexts[calls[i].token]
  BY <1>1, <1>2, OuterDecisions
<1>5. /\ A \in Abstract!Call /\ A.quiet = Inner.quiet /\ A.copy = Last(copies)
      /\ Abstract!InnerIs("done")
  BY <1>1, <1>2, InnerFields
<1>6. /\ c \in Abstract!Call /\ c.phase = "post" /\ c.quiet = A.quiet
      /\ c.event = A.event /\ c.copy = A.copy
  BY <1>5 DEF Abstract!Call
<1>. HIDE DEF g
<1>7. AbstractCalls' = Append(Abstract!Outer, c)
  <2>. HIDE DEF c
  <2>1. Len(calls') = n /\ n \in n - 1 .. n /\ calls'[n] = g
    BY <1>1, <1>2, Replace
  <2>2. Back'[n] = Back[n]
    <3>1. copies' \in Seq(Events \cup {NoEvent})
      BY PostCallbacksFacts
    <3>. QED  BY <1>1, <1>2, <1>3, <2>1, <3>1, BackNext
  <2>3. /\ AbstractCalls'[n] \in Abstract!Call
        /\ AbstractCalls'[n].event = A.event /\ AbstractCalls'[n].copy = A.copy
        /\ AbstractCalls'[n].phase = g.phase /\ AbstractCalls'[n].quiet = g.quiet
    BY <1>1, <1>2, <1>3, <2>2, NewInnerFields
  <2>4. AbstractCalls'[n] = c
    BY <1>3, <1>5, <1>6, <2>3, SameCall
  <2>. QED  BY <1>1, <1>4, <1>6, <2>1, <2>4, InnerSimulates
<1>. QED  BY <1>2, <1>5, <1>7 DEF Abstract!ECNext, Abstract!Post

\* A step that touches neither calls nor decisions is not seen.
LEMMA Unseen ==
    ASSUME BridgeInv, BridgeInv', UNCHANGED <<calls, copies>>,
           \A i \in 1 .. Len(calls) : calls[i].phase = "pre" =>
             contexts'[calls[i].token] = contexts[calls[i].token]
    PROVE  AbstractCalls' = AbstractCalls
<1>1. Back' = Back /\ Len(calls') = Len(calls)
  BY DEF Back, CopyOf
<1>2. \A i \in 1 .. Len(calls) : AbstractCalls'[i] = AbstractCalls[i]
  BY <1>1, KeptFields
<1>3. /\ AbstractCalls \in Seq(Abstract!Call) /\ Len(AbstractCalls) = Len(calls)
      /\ AbstractCalls' \in Seq(Abstract!Call) /\ Len(AbstractCalls') = Len(calls)
  BY <1>1, Fields, FieldsNext DEF AbstractFields, Abstract!Call
<1>. QED  BY <1>2, <1>3, SeqEqual

\* A decision changes the call it is about.
LEMMA DecideSimulates ==
    ASSUME BridgeInv, BridgeInv', NEW t \in DOMAIN contexts,
           EventCancel(t) \/ \E quiet \in BOOLEAN : EventSetDontBroadcast(t, quiet)
    PROVE  Abstract!ECNext
<1>1. /\ ~contexts[t].post /\ UNCHANGED <<calls, copies>> /\ contexts[t] \in Context
      /\ \A u \in DOMAIN contexts : u # t => contexts'[u] = contexts[u]
      /\ TokenInv /\ AbstractFields /\ AbstractFields'
  BY Fields, FieldsNext DEF EventCancel, EventSetDontBroadcast, BridgeInv, TypeOK
<1>2. PICK i \in 1 .. Len(calls) : Calling(calls[i]) /\ t = calls[i].token
  BY <1>1 DEF TokenInv
<1>3. calls[i].phase = "pre"
  BY <1>1, <1>2 DEF TokenInv, Calling
<1>4. Back' = Back /\ Len(calls') = Len(calls) /\ calls' = calls
  BY <1>1 DEF Back, CopyOf
<1>5. /\ AbstractCalls \in Seq(Abstract!Call) /\ Len(AbstractCalls) = Len(calls)
      /\ AbstractCalls' \in Seq(Abstract!Call) /\ Len(AbstractCalls') = Len(calls)
      /\ DOMAIN AbstractCalls = 1 .. Len(calls)
  BY <1>1, <1>4 DEF AbstractFields, Abstract!Call
<1>6. ASSUME NEW j \in 1 .. Len(calls), j # i
      PROVE  AbstractCalls'[j] = AbstractCalls[j]
  <2>1. calls[j].phase = "pre" =>
          calls[j].token \in DOMAIN contexts /\ calls[j].token # calls[i].token
    BY <1>1, <1>2, <1>6 DEF TokenInv, Calling
  <2>2. calls[j].phase = "pre" => contexts'[calls[j].token] = contexts[calls[j].token]
    BY <1>1, <1>2, <2>1
  <2>. QED  BY <1>4, <2>2, KeptFields
<1>. DEFINE A == AbstractCalls[i]
<1>7. /\ A \in Abstract!Call /\ A.event = calls[i].event /\ A.copy = Back[i]
      /\ A.phase = IF contexts[t].cancelled THEN "cancelled" ELSE "pre"
      /\ A.quiet = contexts[t].quiet
  BY <1>1, <1>2, <1>3 DEF AbstractFields
<1>8. /\ AbstractCalls'[i] \in Abstract!Call /\ AbstractCalls'[i].event = A.event
      /\ AbstractCalls'[i].copy = A.copy
      /\ AbstractCalls'[i].phase = IF contexts'[t].cancelled THEN "cancelled" ELSE "pre"
      /\ AbstractCalls'[i].quiet = contexts'[t].quiet
  <2>1. calls'[i] = calls[i] /\ Back'[i] = Back[i] /\ i \in 1 .. Len(calls')
    BY <1>4
  <2>2. /\ AbstractCalls'[i] \in Abstract!Call
        /\ AbstractCalls'[i].event = calls'[i].event
        /\ AbstractCalls'[i].copy = Back'[i]
        /\ calls'[i].phase = "pre" =>
             /\ AbstractCalls'[i].phase =
                  IF contexts'[calls'[i].token].cancelled THEN "cancelled" ELSE "pre"
             /\ AbstractCalls'[i].quiet = contexts'[calls'[i].token].quiet
    BY <1>1, <2>1 DEF AbstractFields, Abstract!Call
  <2>. QED  BY <1>2, <1>3, <1>7, <2>1, <2>2
<1>9. ASSUME NEW c \in Abstract!Call, AbstractCalls'[i] = c
      PROVE  AbstractCalls' = [AbstractCalls EXCEPT ![i] = c]
  <2>. DEFINE s == [AbstractCalls EXCEPT ![i] = c]
  <2>1. i \in 1 .. Len(AbstractCalls)
    BY <1>5
  <2>2. /\ s \in Seq(Abstract!Call) /\ Len(s) = Len(AbstractCalls)
        /\ \A j \in 1 .. Len(AbstractCalls) : s[j] = IF j = i THEN c ELSE AbstractCalls[j]
    BY <1>5, <2>1, ExceptSeq
  <2>3. \A j \in 1 .. Len(AbstractCalls') : AbstractCalls'[j] = s[j]
    BY <1>5, <1>6, <1>9, <2>2
  <2>. QED  BY <1>5, <2>2, <2>3, SeqEqual
<1>10. A.phase \in {"pre", "cancelled"} /\ i \in DOMAIN AbstractCalls
  BY <1>5, <1>7
<1>11. CASE EventCancel(t)
  <2>. DEFINE c == [A EXCEPT !.phase = "cancelled"]
  <2>1. contexts'[t].cancelled /\ contexts'[t].quiet = contexts[t].quiet
    BY <1>1, <1>11 DEF EventCancel, Context
  <2>2. /\ c \in Abstract!Call /\ c.phase = "cancelled" /\ c.event = A.event
        /\ c.copy = A.copy /\ c.quiet = A.quiet
    BY <1>7 DEF Abstract!Call
  <2>3. AbstractCalls'[i] = c
    <3>. HIDE DEF c
    <3>. QED  BY <1>7, <1>8, <2>1, <2>2, SameCall
  <2>4. AbstractCalls' = [AbstractCalls EXCEPT ![i] = c]
    BY <1>9, <2>2, <2>3
  <2>5. Abstract!Decide(i)
    BY <1>10, <2>4 DEF Abstract!Decide
  <2>. QED  BY <1>10, <2>5 DEF Abstract!ECNext
<1>12. CASE \E quiet \in BOOLEAN : EventSetDontBroadcast(t, quiet)
  <2>1. PICK quiet \in BOOLEAN : EventSetDontBroadcast(t, quiet)
    BY <1>12
  <2>. DEFINE c == [A EXCEPT !.quiet = quiet]
  <2>2. contexts'[t].cancelled = contexts[t].cancelled /\ contexts'[t].quiet = quiet
    BY <1>1, <2>1 DEF EventSetDontBroadcast, Context
  <2>3. /\ c \in Abstract!Call /\ c.phase = A.phase /\ c.event = A.event
        /\ c.copy = A.copy /\ c.quiet = quiet
    BY <1>7 DEF Abstract!Call
  <2>4. AbstractCalls'[i] = c
    <3>. HIDE DEF c
    <3>. QED  BY <1>7, <1>8, <2>2, <2>3, SameCall
  <2>5. AbstractCalls' = [AbstractCalls EXCEPT ![i] = c]
    BY <1>9, <2>3, <2>4
  <2>6. Abstract!Decide(i)
    BY <1>10, <2>5 DEF Abstract!Decide
  <2>. QED  BY <1>10, <2>6 DEF Abstract!ECNext
<1>. QED  BY <1>11, <1>12

LEMMA InitSimulates == Init => Abstract!ECInit
<1>. SUFFICES ASSUME Init PROVE AbstractCalls = <<>>
  BY DEF Abstract!ECInit
<1>1. BridgeInv /\ calls = <<>> /\ Len(calls) = 0
  BY InitInv, EmptySeq DEF Init
<1>2. AbstractCalls \in Seq(Abstract!Call) /\ Len(AbstractCalls) = 0
  BY <1>1, Fields DEF AbstractFields
<1>. QED  BY <1>2, EmptySeq

LEMMA StepSimulates ==
    BridgeInv /\ BridgeInv' /\ [Next]_vars => [Abstract!ECNext]_AbstractCalls
<1>. SUFFICES ASSUME BridgeInv, BridgeInv', [Next]_vars
              PROVE  Abstract!ECNext \/ AbstractCalls' = AbstractCalls
  OBVIOUS
<1>1. CASE \E e \in Events, x \in Values, quiet \in BOOLEAN :
             FireWithRoom(e, x, quiet) \/ FireOverflow(e, x, quiet)
  BY <1>1, FireSimulates
<1>2. CASE EndPre
  BY <1>2, EndPreSimulates
<1>3. CASE EngineFires
  BY <1>3, EngineFiresSimulates
<1>4. CASE PostOverflow \/ EndPost
  BY <1>4, ReturnSimulates DEF PostOverflow, EndPost
<1>5. CASE PostCallbacks
  BY <1>5, PostCallbacksFacts, ReturnSimulates, PostSimulates
<1>6. CASE Reload
  <2>1. calls = <<>> /\ calls' = <<>>
    BY <1>6 DEF Reload
  <2>2. Len(calls) = 0 /\ Len(calls') = 0
    BY <2>1, EmptySeq
  <2>3. /\ AbstractCalls \in Seq(Abstract!Call) /\ Len(AbstractCalls) = 0
        /\ AbstractCalls' \in Seq(Abstract!Call) /\ Len(AbstractCalls') = 0
    BY <2>2, Fields, FieldsNext DEF AbstractFields, Abstract!Call
  <2>. QED  BY <2>3, SeqEqual
<1>7. CASE Callback
  <2>1. PICK t \in DOMAIN contexts :
          \/ \E x \in Values : EventSet(t, x)
          \/ EventCancel(t)
          \/ \E quiet \in BOOLEAN : EventSetDontBroadcast(t, quiet)
    BY <1>7 DEF Callback
  <2>2. CASE \E x \in Values : EventSet(t, x)
    <3>1. UNCHANGED <<calls, copies, contexts>>
      BY <2>2 DEF EventSet
    <3>. QED  BY <3>1, Unseen
  <2>. QED  BY <2>1, <2>2, DecideSimulates
<1>8. CASE UNCHANGED vars
  BY <1>8, Unseen DEF vars
<1>. QED  BY <1>1, <1>2, <1>3, <1>4, <1>5, <1>6, <1>7, <1>8 DEF Next, Engine, Hooks

\* The bridge implements EventCalls: whatever nests, overflows or fails to be
\* duplicated, every call gets its own copy back and the engine does with its
\* event what the callbacks of that call decided.
THEOREM Refinement == Spec => ImplementsCalls
BY Invariance, InitSimulates, StepSimulates, PTL DEF Spec, ImplementsCalls, Abstract!ECSpec
=============================================================================
