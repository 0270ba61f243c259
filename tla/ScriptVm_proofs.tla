--------------------------- MODULE ScriptVm_proofs --------------------------
(***************************************************************************)
(* Proofs about ScriptVm: for any number of plugins, registry slots and    *)
(* registrations, a record keeps its function and a pinned slot keeps its  *)
(* record, through registration, removal, quarantine, unload and reload.   *)
(***************************************************************************)
EXTENDS ScriptVm, SequenceTheorems, TLAPS

\* No two records are of one function, and no two timers have one id.
Numbered ==
    /\ \A x \in regs \cup timers : x.fn < nextFn
    /\ \A x, y \in regs : x.fn = y.fn => x = y
    /\ \A t, u \in timers : t.fn = u.fn => t = u
    /\ \A x \in regs, t \in timers : x.fn # t.fn
    /\ \A t \in timers : t.id < nextTimer
    /\ \A t, u \in timers : t.id = u.id => t = u

\* The inductive invariant.  Numbered is what makes OwnsItsSlot inductive:
\* two records at one slot would both be of its function, and so be one.
VmInv ==
    /\ VmTypeOK
    /\ Numbered
    /\ OwnsItsSlot
    /\ NoLostReference
    /\ RegistryConsistent

\* What a removal from scripts_ leaves.
LEMMA RemoveAtFacts ==
    ASSUME NEW s \in Seq(Vms), NEW i \in DOMAIN s
    PROVE  /\ RemoveAt(s, i) \in Seq(Vms)
           /\ Len(RemoveAt(s, i)) = Len(s) - 1
           /\ \A j \in 1 .. Len(s) - 1 :
                RemoveAt(s, i)[j] = IF j < i THEN s[j] ELSE s[j + 1]
<1>. DEFINE a == SubSeq(s, 1, i - 1)
            b == SubSeq(s, i + 1, Len(s))
<1>1. /\ Len(s) \in Nat /\ DOMAIN s = 1 .. Len(s) /\ i \in 1 .. Len(s)
      /\ \A j \in 1 .. Len(s) : s[j] \in Vms
  BY LenProperties, ElementOfSeq
<1>2. /\ a \in Seq(Vms) /\ Len(a) = i - 1
      /\ \A j \in 1 .. i - 1 : a[j] = s[j]
  <2>1. \A j \in 1 .. i - 1 : s[j] \in Vms
    BY <1>1
  <2>. QED  BY <2>1, <1>1, SubSeqProperties
<1>3. /\ b \in Seq(Vms) /\ Len(b) = Len(s) - i
      /\ \A j \in 1 .. Len(s) - i : b[j] = s[i + j]
  <2>1. \A j \in i + 1 .. Len(s) : s[j] \in Vms
    BY <1>1
  <2>. QED  BY <2>1, <1>1, SubSeqProperties
<1>4. /\ a \o b \in Seq(Vms) /\ Len(a \o b) = Len(a) + Len(b)
      /\ \A j \in 1 .. Len(a) + Len(b) :
           (a \o b)[j] = IF j <= Len(a) THEN a[j] ELSE b[j - Len(a)]
  BY <1>2, <1>3, ConcatProperties
<1>5. RemoveAt(s, i) = a \o b
  BY DEF RemoveAt
<1>. HIDE DEF a, b
<1>6. Len(a \o b) = Len(s) - 1
  BY <1>1, <1>2, <1>3, <1>4
<1>7. ASSUME NEW j \in 1 .. Len(s) - 1
      PROVE  (a \o b)[j] = IF j < i THEN s[j] ELSE s[j + 1]
  <2>1. CASE j < i
    BY <2>1, <1>1, <1>2, <1>3, <1>4
  <2>2. CASE ~(j < i)
    <3>1. j - Len(a) \in 1 .. Len(s) - i /\ i + (j - Len(a)) = j + 1
      BY <2>2, <1>1, <1>2
    <3>2. ~(j <= Len(a)) /\ j \in 1 .. Len(a) + Len(b)
      BY <2>2, <1>1, <1>2, <1>3
    <3>3. (a \o b)[j] = b[j - Len(a)]
      BY <3>2, <1>4
    <3>4. b[j - Len(a)] = s[j + 1]
      BY <3>1, <1>3
    <3>. QED  BY <2>2, <3>3, <3>4
  <2>. QED  BY <2>1, <2>2
<1>. QED  BY <1>4, <1>5, <1>6, <1>7

LEMMA VmInitInv == VmInit => VmInv
BY EmptySeq DEF VmInit, VmInv, VmTypeOK, Numbered, OwnsItsSlot,
   NoLostReference, RegistryConsistent, Loaded, ToSet, Free

-----------------------------------------------------------------------------
(* One lemma per operation. *)

\* A registration: a record of a new function at a slot nobody holds.
LEMMA RegisterInv ==
    ASSUME VmInv, NEW v \in Vms, v \in mapped, NEW r \in FreeRefs(v), Pin(v, r),
           UNCHANGED <<mapped, scripts, disabled, clock>>,
           NEW X, NEW T, regs' = regs \cup X, timers' = timers \cup T,
           X \subseteq RegRecord, T \subseteq TimerRecord,
           \A x \in X \cup T : x.vm = v /\ x.fn = nextFn /\ x.ref = r,
           NEW z, z \in X \cup T, \A x \in X \cup T : x = z,
           X = {} \/ T = {},
           nextEvent' \in Nat \ {0},
           \A t \in T : t.id = nextTimer,
           nextTimer' = IF T = {} THEN nextTimer ELSE nextTimer + 1
    PROVE  VmInv'
<1>. USE DEF VmInv, FreeRefs, Pin, Free
<1>1. VmTypeOK'
  BY DEF VmTypeOK
<1>2. Numbered'
  <2>0. /\ nextFn \in Nat /\ nextTimer \in Nat /\ nextFn' = nextFn + 1
        /\ \A x \in regs \cup timers : x.fn \in Nat /\ x.fn < nextFn
        /\ \A t \in timers : t.id \in Nat /\ t.id < nextTimer
    BY DEF VmTypeOK, Numbered, RegRecord, TimerRecord
  <2>1. \A x \in regs' \cup timers' : x.fn < nextFn'
    BY <2>0
  <2>2. /\ \A x, y \in regs' : x.fn = y.fn => x = y
        /\ \A t, u \in timers' : t.fn = u.fn => t = u
        /\ \A x \in regs', t \in timers' : x.fn # t.fn
    <3>1. \A x \in regs \cup timers, y \in X \cup T : x.fn # y.fn
      BY <2>0
    <3>. QED  BY <3>1 DEF Numbered
  <2>3. \A t \in timers' : t.id < nextTimer'
    BY <2>0
  <2>4. \A t, u \in timers' : t.id = u.id => t = u
    <3>1. \A t \in timers, u \in T : t.id # u.id
      BY <2>0
    <3>. QED  BY <3>1 DEF Numbered
  <2>. QED  BY <2>1, <2>2, <2>3, <2>4 DEF Numbered
<1>3. OwnsItsSlot'
  <2>1. \A x \in X \cup T : slots'[x.vm][x.ref] = x.fn
    BY DEF VmTypeOK
  <2>2. ASSUME NEW x \in regs \cup timers
        PROVE  slots'[x.vm][x.ref] = x.fn
    <3>1. x.vm \in Vms /\ x.ref \in Refs /\ x.fn # 0
      BY DEF VmTypeOK, RegRecord, TimerRecord
    <3>2. ~(x.vm = v /\ x.ref = r)
      BY <3>1 DEF OwnsItsSlot
    <3>. QED  BY <3>1, <3>2 DEF VmTypeOK, OwnsItsSlot
  <2>. QED  BY <2>1, <2>2 DEF OwnsItsSlot
<1>4. NoLostReference'
  <2>. SUFFICES ASSUME NEW w \in Vms, NEW q \in Refs, slots'[w][q] # Free
                PROVE  \E x \in regs' \cup timers' : x.vm = w /\ x.ref = q
    BY DEF NoLostReference
  <2>1. CASE w = v /\ q = r
    BY <2>1
  <2>2. CASE ~(w = v /\ q = r)
    <3>1. slots'[w][q] = slots[w][q]
      BY <2>2 DEF VmTypeOK
    <3>. QED  BY <3>1 DEF NoLostReference
  <2>. QED  BY <2>1, <2>2
<1>5. RegistryConsistent'
  BY DEF VmTypeOK, RegistryConsistent, Loaded, ToSet
<1>. QED  BY <1>1, <1>2, <1>3, <1>4, <1>5

\* A release of some records of v together with exactly their references.
LEMMA ReleaseInv ==
    ASSUME VmInv, NEW v \in Vms, NEW X, NEW T, X \subseteq RegsOf(v), T \subseteq TimersOf(v),
           Unref(v, RefsOf(X) \cup RefsOf(T)),
           regs' = regs \ X, timers' = timers \ T,
           UNCHANGED <<ids, clock>>
    PROVE  /\ regs' \subseteq RegRecord /\ timers' \subseteq TimerRecord
           /\ slots' \in [Vms -> [Refs -> Nat]]
           /\ Numbered' /\ OwnsItsSlot' /\ NoLostReference'
<1>. USE DEF VmInv, RegsOf, TimersOf, RefsOf, Unref, Free, ids
<1>1. regs' \subseteq RegRecord /\ timers' \subseteq TimerRecord
  BY DEF VmTypeOK
<1>2. slots' \in [Vms -> [Refs -> Nat]]
  BY DEF VmTypeOK
<1>3. Numbered'
  BY DEF Numbered
<1>4. OwnsItsSlot'
  <2>1. \A x, y \in regs \cup timers : x.vm = y.vm /\ x.ref = y.ref => x = y
    BY DEF OwnsItsSlot, Numbered
  <2>. SUFFICES ASSUME NEW x \in regs' \cup timers'
                PROVE  slots'[x.vm][x.ref] = x.fn
    BY DEF OwnsItsSlot
  <2>2. x \in regs \cup timers /\ x.vm \in Vms /\ x.ref \in Refs
    BY DEF VmTypeOK, RegRecord, TimerRecord
  <2>3. ASSUME x.vm = v PROVE x.ref \notin RefsOf(X) \cup RefsOf(T)
    <3>1. X \subseteq regs /\ T \subseteq timers /\ x \notin X \cup T
      BY DEF Numbered
    <3>2. \A y \in X \cup T : y.vm = v /\ y # x
      BY <3>1
    <3>. QED  BY <2>1, <2>2, <2>3, <3>1, <3>2
  <2>4. slots'[x.vm][x.ref] = slots[x.vm][x.ref]
    BY <2>2, <2>3 DEF VmTypeOK
  <2>. QED  BY <2>2, <2>4 DEF OwnsItsSlot
<1>5. NoLostReference'
  <2>. SUFFICES ASSUME NEW w \in Vms, NEW r \in Refs, slots'[w][r] # Free
                PROVE  \E x \in regs' \cup timers' : x.vm = w /\ x.ref = r
    BY DEF NoLostReference
  <2>1. slots'[w][r] = slots[w][r]
    BY DEF VmTypeOK
  <2>2. PICK x \in regs \cup timers : x.vm = w /\ x.ref = r
    BY <2>1 DEF NoLostReference
  <2>3. x \notin X \cup T
    BY <2>2 DEF VmTypeOK
  <2>. QED  BY <2>2, <2>3
<1>. QED  BY <1>1, <1>2, <1>3, <1>4, <1>5

LEMMA ServiceInv ==
    ASSUME VmInv, NEW v \in Vms, Service(v)
    PROVE  VmInv'
<1>. USE DEF VmInv
<1>1. ASSUME NEW key \in Keys, NEW post \in BOOLEAN, ServiceEventOn(v, key, post)
      PROVE  VmInv'
  <2>. PICK r \in FreeRefs(v) :
         /\ Pin(v, r)
         /\ regs' = regs \cup {[kind |-> "event", vm |-> v, key |-> key,
                                post |-> post, id |-> nextEvent, fn |-> nextFn, ref |-> r]}
    BY <1>1 DEF ServiceEventOn
  <2>. DEFINE x == [kind |-> "event", vm |-> v, key |-> key,
                    post |-> post, id |-> nextEvent, fn |-> nextFn, ref |-> r]
  <2>1. x \in RegRecord
    BY DEF VmTypeOK, RegRecord, FreeRefs
  <2>2. x.vm = v /\ x.fn = nextFn /\ x.ref = r
    BY <1>1 DEF ServiceEventOn
  <2>3. regs' = regs \cup {x} /\ timers' = timers \cup {}
    BY <1>1 DEF ServiceEventOn
  <2>. HIDE DEF x
  <2>. DEFINE X == {x}
              T == {}
  <2>4. /\ X \subseteq RegRecord /\ T \subseteq TimerRecord
        /\ \A y \in X \cup T : y.vm = v /\ y.fn = nextFn /\ y.ref = r
        /\ x \in X \cup T /\ \A y \in X \cup T : y = x
        /\ X = {} \/ T = {}
    BY <2>1, <2>2
  <2>5. /\ v \in mapped /\ nextEvent' \in Nat \ {0}
        /\ regs' = regs \cup X /\ timers' = timers \cup T
        /\ \A y \in T : y.id = nextTimer
        /\ nextTimer' = IF T = {} THEN nextTimer ELSE nextTimer + 1
        /\ UNCHANGED <<mapped, scripts, disabled, clock>>
    BY <1>1, <2>3 DEF ServiceEventOn, VmTypeOK
  <2>. HIDE DEF X, T
  <2>. QED  BY <2>4, <2>5, RegisterInv
<1>2. ASSUME NEW key \in Keys, ServiceCommandOn(v, key)
      PROVE  VmInv'
  <2>. PICK r \in FreeRefs(v) :
         /\ Pin(v, r)
         /\ regs' = regs \cup {[kind |-> "command", vm |-> v, key |-> key,
                                post |-> FALSE, id |-> 0, fn |-> nextFn, ref |-> r]}
    BY <1>2 DEF ServiceCommandOn
  <2>. DEFINE x == [kind |-> "command", vm |-> v, key |-> key,
                    post |-> FALSE, id |-> 0, fn |-> nextFn, ref |-> r]
  <2>1. x \in RegRecord
    BY DEF VmTypeOK, RegRecord, FreeRefs
  <2>2. x.vm = v /\ x.fn = nextFn /\ x.ref = r
    BY <1>2 DEF ServiceCommandOn
  <2>3. regs' = regs \cup {x} /\ timers' = timers \cup {}
    BY <1>2 DEF ServiceCommandOn
  <2>. HIDE DEF x
  <2>. DEFINE X == {x}
              T == {}
  <2>4. /\ X \subseteq RegRecord /\ T \subseteq TimerRecord
        /\ \A y \in X \cup T : y.vm = v /\ y.fn = nextFn /\ y.ref = r
        /\ x \in X \cup T /\ \A y \in X \cup T : y = x
        /\ X = {} \/ T = {}
    BY <2>1, <2>2
  <2>5. /\ v \in mapped /\ nextEvent' \in Nat \ {0}
        /\ regs' = regs \cup X /\ timers' = timers \cup T
        /\ \A y \in T : y.id = nextTimer
        /\ nextTimer' = IF T = {} THEN nextTimer ELSE nextTimer + 1
        /\ UNCHANGED <<mapped, scripts, disabled, clock>>
    BY <1>2, <2>3 DEF ServiceCommandOn, VmTypeOK
  <2>. HIDE DEF X, T
  <2>. QED  BY <2>4, <2>5, RegisterInv
<1>3. ASSUME NEW d \in Delays, NEW repeat \in BOOLEAN, ServiceTimerAdd(v, d, repeat)
      PROVE  VmInv'
  <2>. PICK r \in FreeRefs(v) :
         /\ Pin(v, r)
         /\ timers' = timers \cup
              {[vm |-> v, id |-> nextTimer, fn |-> nextFn, ref |-> r,
                due |-> clock + d, interval |-> d, repeat |-> repeat,
                cancelled |-> FALSE]}
    BY <1>3 DEF ServiceTimerAdd
  <2>. DEFINE t == [vm |-> v, id |-> nextTimer, fn |-> nextFn, ref |-> r,
                    due |-> clock + d, interval |-> d, repeat |-> repeat,
                    cancelled |-> FALSE]
  <2>1. t \in TimerRecord
    BY VmAssumption DEF VmTypeOK, TimerRecord, FreeRefs
  <2>2. t.vm = v /\ t.fn = nextFn /\ t.id = nextTimer /\ t.ref = r
    BY <1>3 DEF ServiceTimerAdd
  <2>3. regs' = regs \cup {} /\ timers' = timers \cup {t}
    BY <1>3 DEF ServiceTimerAdd
  <2>. HIDE DEF t
  <2>. DEFINE X == {}
              T == {t}
  <2>4. /\ X \subseteq RegRecord /\ T \subseteq TimerRecord
        /\ \A y \in X \cup T : y.vm = v /\ y.fn = nextFn /\ y.ref = r
        /\ t \in X \cup T /\ \A y \in X \cup T : y = t
        /\ X = {} \/ T = {}
    BY <2>1, <2>2
  <2>5. /\ v \in mapped /\ nextEvent' \in Nat \ {0}
        /\ regs' = regs \cup X /\ timers' = timers \cup T
        /\ \A y \in T : y.id = nextTimer
        /\ nextTimer' = IF T = {} THEN nextTimer ELSE nextTimer + 1
        /\ UNCHANGED <<mapped, scripts, disabled, clock>>
    BY <1>3, <2>2, <2>3 DEF ServiceTimerAdd, VmTypeOK
  <2>. HIDE DEF X, T
  <2>. QED  BY <2>4, <2>5, RegisterInv
<1>4. ASSUME NEW y \in RegsOf(v), ServiceEventOff(v, y.id)
      PROVE  VmInv'
  <2>. PICK x \in RegsOf(v) : Unref(v, {x.ref}) /\ regs' = regs \ {x}
    BY <1>4 DEF ServiceEventOff
  <2>1. RefsOf({x}) \cup RefsOf({}) = {x.ref} /\ timers' = timers \ {}
    BY <1>4 DEF RefsOf, ServiceEventOff
  <2>2. /\ regs' \subseteq RegRecord /\ timers' \subseteq TimerRecord
        /\ slots' \in [Vms -> [Refs -> Nat]]
        /\ Numbered' /\ OwnsItsSlot' /\ NoLostReference'
    BY <1>4, <2>1, ReleaseInv, {x} \subseteq RegsOf(v), {} \subseteq TimersOf(v)
    DEF ServiceEventOff
  <2>. QED  BY <1>4, <2>2 DEF ids, ServiceEventOff, VmTypeOK, RegistryConsistent, Loaded, ToSet
<1>5. ASSUME NEW u \in TimersOf(v), ServiceTimerCancel(v, u.id)
      PROVE  VmInv'
  <2>. PICK t \in TimersOf(v) : timers' = (timers \ {t}) \cup {Cancelled(t)}
    BY <1>5 DEF ServiceTimerCancel
  <2>1. /\ t \in timers /\ Cancelled(t) \in TimerRecord
        /\ Cancelled(t).vm = t.vm /\ Cancelled(t).id = t.id /\ Cancelled(t).fn = t.fn
        /\ Cancelled(t).ref = t.ref
    BY DEF VmTypeOK, TimersOf, TimerRecord, Cancelled
  <2>. HIDE DEF Cancelled
  <2>2. VmTypeOK'
    BY <1>5, <2>1 DEF ids, ServiceTimerCancel, VmTypeOK
  <2>3. Numbered'
    BY <1>5, <2>1 DEF ids, ServiceTimerCancel, Numbered
  <2>4. OwnsItsSlot'
    BY <1>5, <2>1 DEF ServiceTimerCancel, OwnsItsSlot
  <2>5. NoLostReference'
    BY <1>5, <2>1 DEF ServiceTimerCancel, NoLostReference
  <2>6. RegistryConsistent'
    BY <1>5, <2>1 DEF ServiceTimerCancel, RegistryConsistent, Loaded, ToSet
  <2>. QED  BY <2>2, <2>3, <2>4, <2>5, <2>6
<1>. QED  BY <1>1, <1>2, <1>3, <1>4, <1>5 DEF Service

\* Cancelling and re-arming keep a record's owner, number and reference.
LEMMA SettledFacts ==
    ASSUME NEW t \in TimerRecord, NEW succeeded \in BOOLEAN, NEW now \in Nat
    PROVE  LET u == Settled(t, succeeded, now) IN
           /\ u \in TimerRecord /\ u.vm = t.vm
           /\ u.id = t.id /\ u.fn = t.fn /\ u.ref = t.ref
<1>1. CASE succeeded /\ t.repeat /\ ~t.cancelled
  <2>1. Settled(t, succeeded, now) = [t EXCEPT !.due = now + t.interval]
    BY <1>1 DEF Settled
  <2>2. now + t.interval \in Nat
    BY DEF TimerRecord
  <2>. QED  BY <2>1, <2>2 DEF TimerRecord
<1>2. CASE ~(succeeded /\ t.repeat /\ ~t.cancelled)
  <2>1. Settled(t, succeeded, now) = [t EXCEPT !.cancelled = TRUE]
    BY <1>2 DEF Settled, Cancelled
  <2>. QED  BY <2>1 DEF TimerRecord
<1>. QED  BY <1>1, <1>2

LEMMA SettleTimerInv ==
    ASSUME VmInv, NEW v \in Vms, NEW id, NEW succeeded \in BOOLEAN, NEW now \in Nat,
           SettleTimer(v, id, succeeded, now)
    PROVE  VmInv'
<1>. USE DEF VmInv
<1>. DEFINE g(t) == IF t.vm = v /\ t.id = id THEN Settled(t, succeeded, now) ELSE t
<1>1. \A t \in timers : /\ g(t) \in TimerRecord
                        /\ g(t).vm = t.vm /\ g(t).id = t.id /\ g(t).fn = t.fn /\ g(t).ref = t.ref
  <2>. SUFFICES ASSUME NEW t \in timers
                PROVE  /\ g(t) \in TimerRecord
                       /\ g(t).vm = t.vm /\ g(t).id = t.id /\ g(t).fn = t.fn /\ g(t).ref = t.ref
    OBVIOUS
  <2>1. t \in TimerRecord
    BY DEF VmTypeOK
  <2>2. CASE t.vm = v /\ t.id = id
    BY <2>1, <2>2, SettledFacts
  <2>3. CASE ~(t.vm = v /\ t.id = id)
    BY <2>1, <2>3
  <2>. QED  BY <2>2, <2>3
<1>2. timers' = {g(t) : t \in timers}
  BY DEF SettleTimer
<1>. HIDE DEF g
<1>3. VmTypeOK'
  BY <1>1, <1>2 DEF ids, SettleTimer, VmTypeOK
<1>4. Numbered'
  BY <1>1, <1>2 DEF ids, SettleTimer, Numbered
<1>5. OwnsItsSlot'
  BY <1>1, <1>2 DEF ids, SettleTimer, OwnsItsSlot
<1>6. NoLostReference'
  BY <1>1, <1>2 DEF SettleTimer, NoLostReference
<1>7. RegistryConsistent'
  BY <1>1, <1>2 DEF SettleTimer, RegistryConsistent, Loaded, ToSet
<1>. QED  BY <1>3, <1>4, <1>5, <1>6, <1>7

LEMMA SweepInv ==
    ASSUME VmInv, NEW v \in Vms, Sweep(v)
    PROVE  VmInv'
<1>. DEFINE T == {t \in TimersOf(v) : t.cancelled}
<1>1. /\ {} \subseteq RegsOf(v) /\ T \subseteq TimersOf(v)
      /\ RefsOf({}) \cup RefsOf(T) = RefsOf(T)
      /\ Unref(v, RefsOf(T))
      /\ regs' = regs \ {} /\ timers' = timers \ T
      /\ UNCHANGED <<ids, clock>>
  BY DEF Sweep, RefsOf
<1>. HIDE DEF T
<1>2. /\ regs' \subseteq RegRecord /\ timers' \subseteq TimerRecord
      /\ slots' \in [Vms -> [Refs -> Nat]]
      /\ Numbered' /\ OwnsItsSlot' /\ NoLostReference'
  BY <1>1, ReleaseInv
<1>3. VmTypeOK'
  BY <1>2 DEF ids, VmInv, VmTypeOK, Sweep
<1>4. RegistryConsistent'
  BY <1>1 DEF VmInv, RegistryConsistent, Sweep, Loaded, ToSet
<1>. QED  BY <1>2, <1>3, <1>4 DEF VmInv

LEMMA QuarantineInv ==
    ASSUME VmInv, NEW v \in Vms, Quarantine(v)
    PROVE  VmInv'
<1>1. /\ RegsOf(v) \subseteq RegsOf(v) /\ TimersOf(v) \subseteq TimersOf(v)
      /\ Unref(v, RefsOf(RegsOf(v)) \cup RefsOf(TimersOf(v)))
      /\ regs' = regs \ RegsOf(v) /\ timers' = timers \ TimersOf(v)
      /\ UNCHANGED <<ids, clock>>
  BY DEF Quarantine
<1>2. /\ regs' \subseteq RegRecord /\ timers' \subseteq TimerRecord
      /\ slots' \in [Vms -> [Refs -> Nat]]
      /\ Numbered' /\ OwnsItsSlot' /\ NoLostReference'
  BY <1>1, ReleaseInv
<1>3. VmTypeOK'
  BY <1>2 DEF ids, VmInv, VmTypeOK, Quarantine
<1>4. RegistryConsistent'
  BY <1>1 DEF VmInv, RegistryConsistent, Quarantine, Loaded, ToSet
<1>. QED  BY <1>2, <1>3, <1>4 DEF VmInv

LEMMA ReleaseVmInv ==
    ASSUME VmInv, NEW v \in Vms, Release(v)
    PROVE  /\ regs' \subseteq RegRecord /\ timers' \subseteq TimerRecord
           /\ mapped' \subseteq Vms
           /\ slots' \in [Vms -> [Refs -> Nat]]
           /\ Numbered' /\ OwnsItsSlot' /\ NoLostReference'
           /\ \A x \in regs' \cup timers' : x.vm \in mapped'
<1>. USE DEF VmInv, Release, RegsOf, TimersOf, Free
<1>1. /\ regs' \subseteq RegRecord /\ timers' \subseteq TimerRecord
      /\ mapped' \subseteq Vms /\ slots' \in [Vms -> [Refs -> Nat]]
  BY DEF VmTypeOK
<1>2. Numbered'
  BY DEF ids, Numbered
<1>3. OwnsItsSlot'
  BY DEF VmTypeOK, OwnsItsSlot, RegRecord, TimerRecord
<1>4. NoLostReference'
  <2>. SUFFICES ASSUME NEW w \in Vms, NEW r \in Refs, slots'[w][r] # Free
                PROVE  \E x \in regs' \cup timers' : x.vm = w /\ x.ref = r
    BY DEF NoLostReference
  <2>1. w # v /\ slots'[w][r] = slots[w][r]
    BY DEF VmTypeOK
  <2>2. PICK x \in regs \cup timers : x.vm = w /\ x.ref = r
    BY <2>1 DEF NoLostReference
  <2>. QED  BY <2>1, <2>2
<1>5. \A x \in regs' \cup timers' : x.vm \in mapped'
  BY DEF RegistryConsistent
<1>. QED  BY <1>1, <1>2, <1>3, <1>4, <1>5

LEMMA UnloadInv ==
    ASSUME VmInv, NEW v \in Vms, Unload(v)
    PROVE  VmInv'
<1>. USE DEF VmInv
<1>1. PICK i \in DOMAIN scripts : scripts[i] = v /\ scripts' = RemoveAt(scripts, i)
  BY DEF Unload
<1>2. /\ scripts' \in Seq(Vms) /\ Len(scripts') = Len(scripts) - 1
      /\ \A j \in 1 .. Len(scripts) - 1 :
           scripts'[j] = IF j < i THEN scripts[j] ELSE scripts[j + 1]
  BY <1>1, RemoveAtFacts DEF VmTypeOK
<1>3. /\ Len(scripts) \in Nat /\ DOMAIN scripts = 1 .. Len(scripts)
      /\ DOMAIN scripts' = 1 .. Len(scripts) - 1
  BY <1>2, LenProperties DEF VmTypeOK
<1>4. \A j \in DOMAIN scripts' :
         \E k \in DOMAIN scripts : k # i /\ scripts'[j] = scripts[k]
  <2>. SUFFICES ASSUME NEW j \in DOMAIN scripts'
                PROVE  \E k \in DOMAIN scripts : k # i /\ scripts'[j] = scripts[k]
    OBVIOUS
  <2>1. CASE j < i
    BY <2>1, <1>2, <1>3
  <2>2. CASE ~(j < i)
    <3>1. j + 1 \in DOMAIN scripts /\ j + 1 # i
      BY <2>2, <1>3
    <3>. QED  BY <2>2, <3>1, <1>2, <1>3
  <2>. QED  BY <2>1, <2>2
<1>5. \A j, k \in DOMAIN scripts' : scripts'[j] = scripts'[k] => j = k
  <2>. SUFFICES ASSUME NEW j \in DOMAIN scripts', NEW k \in DOMAIN scripts',
                       scripts'[j] = scripts'[k]
                PROVE  j = k
    OBVIOUS
  <2>. DEFINE old(n) == IF n < i THEN n ELSE n + 1
  <2>1. /\ old(j) \in DOMAIN scripts /\ scripts'[j] = scripts[old(j)]
        /\ old(k) \in DOMAIN scripts /\ scripts'[k] = scripts[old(k)]
    BY <1>2, <1>3
  <2>2. old(j) = old(k)
    BY <2>1 DEF RegistryConsistent
  <2>. QED  BY <2>2, <1>3
<1>6. /\ Loaded' \subseteq Loaded \ {v}
      /\ Loaded \ {v} \subseteq Loaded'
  <2>1. Loaded' \subseteq Loaded \ {v}
    BY <1>1, <1>4 DEF Loaded, ToSet, RegistryConsistent
  <2>2. ASSUME NEW k \in DOMAIN scripts, scripts[k] # v
        PROVE  scripts[k] \in Loaded'
    <3>1. CASE k < i
      <4>1. k \in DOMAIN scripts' /\ scripts'[k] = scripts[k]
        BY <3>1, <1>2, <1>3
      <4>. QED  BY <4>1 DEF Loaded, ToSet
    <3>2. CASE k > i
      <4>1. k - 1 \in DOMAIN scripts' /\ scripts'[k - 1] = scripts[k]
        BY <3>2, <1>2, <1>3
      <4>. QED  BY <4>1 DEF Loaded, ToSet
    <3>. QED  BY <2>2, <3>1, <3>2, <1>1, <1>3
  <2>. QED  BY <2>1, <2>2 DEF Loaded, ToSet
<1>7. /\ regs' \subseteq RegRecord /\ timers' \subseteq TimerRecord
      /\ mapped' \subseteq Vms
      /\ slots' \in [Vms -> [Refs -> Nat]]
      /\ Numbered' /\ OwnsItsSlot' /\ NoLostReference'
      /\ \A x \in regs' \cup timers' : x.vm \in mapped'
  BY ReleaseVmInv DEF Unload
<1>8. VmTypeOK'
  BY <1>2, <1>7 DEF ids, VmTypeOK, Unload, Release
<1>9. RegistryConsistent'
  BY <1>5, <1>6, <1>7 DEF RegistryConsistent, Unload, Release
<1>. QED  BY <1>7, <1>8, <1>9

LEMMA ManageInv ==
    ASSUME VmInv, NEW v \in Vms, Manage(v)
    PROVE  VmInv'
<1>1. ASSUME NEW t \in TimersOf(v), NEW succeeded \in BOOLEAN, NEW now \in 0 .. clock,
             SettleTimer(v, t.id, succeeded, now)
      PROVE  VmInv'
  <2>1. now \in Nat
    BY DEF VmInv, VmTypeOK
  <2>. QED  BY <1>1, <2>1, SettleTimerInv
<1>2. CASE Sweep(v)
  BY <1>2, SweepInv
<1>3. CASE Quarantine(v)
  BY <1>3, QuarantineInv
<1>4. CASE CreateState(v)
  BY <1>4 DEF ids, CreateState, VmInv, VmTypeOK, Numbered, OwnsItsSlot,
     NoLostReference, RegistryConsistent, Loaded, ToSet
<1>5. CASE EnterScripts(v)
  <2>. USE DEF VmInv
  <2>1. /\ scripts' \in Seq(Vms) /\ Len(scripts') = Len(scripts) + 1
        /\ \A i \in 1 .. Len(scripts) : scripts'[i] = scripts[i]
        /\ scripts'[Len(scripts) + 1] = v
    BY <1>5, AppendProperties DEF EnterScripts, VmTypeOK
  <2>2. /\ Len(scripts) \in Nat /\ DOMAIN scripts = 1 .. Len(scripts)
        /\ DOMAIN scripts' = 1 .. Len(scripts) + 1
    BY <2>1, LenProperties DEF VmTypeOK
  <2>3. \A i \in 1 .. Len(scripts) : scripts[i] # v
    BY <1>5, <2>2 DEF EnterScripts, Loaded, ToSet
  <2>4. \A i, j \in DOMAIN scripts' : scripts'[i] = scripts'[j] => i = j
    BY <2>1, <2>2, <2>3 DEF RegistryConsistent
  <2>5. Loaded' \subseteq Loaded \cup {v} /\ Loaded \subseteq Loaded'
    BY <2>1, <2>2 DEF Loaded, ToSet
  <2>6. RegistryConsistent'
    BY <1>5, <2>4, <2>5 DEF EnterScripts, RegistryConsistent
  <2>. QED  BY <1>5, <2>1, <2>6 DEF ids, EnterScripts, VmTypeOK, Numbered,
            OwnsItsSlot, NoLostReference
<1>6. CASE DiscardState(v)
  <2>. USE DEF VmInv
  <2>1. /\ regs' \subseteq RegRecord /\ timers' \subseteq TimerRecord
        /\ mapped' \subseteq Vms
        /\ slots' \in [Vms -> [Refs -> Nat]]
        /\ Numbered' /\ OwnsItsSlot' /\ NoLostReference'
        /\ \A x \in regs' \cup timers' : x.vm \in mapped'
    BY <1>6, ReleaseVmInv DEF DiscardState
  <2>2. VmTypeOK'
    BY <1>6, <2>1 DEF ids, VmTypeOK, DiscardState, Release
  <2>3. RegistryConsistent'
    BY <1>6, <2>1 DEF RegistryConsistent, DiscardState, Release, Loaded, ToSet
  <2>. QED  BY <2>1, <2>2, <2>3
<1>7. CASE Unload(v)
  BY <1>7, UnloadInv
<1>. QED  BY <1>1, <1>2, <1>3, <1>4, <1>5, <1>6, <1>7 DEF Manage

LEMMA VmNextInv == VmInv /\ [VmNext]_vmVars => VmInv'
<1>. SUFFICES ASSUME VmInv, [VmNext]_vmVars PROVE VmInv'
  OBVIOUS
<1>1. ASSUME NEW v \in Vms, Service(v) PROVE VmInv'
  BY <1>1, ServiceInv
<1>2. ASSUME NEW v \in Vms, Manage(v) PROVE VmInv'
  BY <1>2, ManageInv
<1>3. CASE Shutdown
  BY <1>3, EmptySeq DEF Shutdown, VmInv, VmTypeOK, Numbered, OwnsItsSlot,
     NoLostReference, RegistryConsistent, Loaded, ToSet, Free
<1>4. CASE Elapse
  BY <1>4 DEF ids, Elapse, VmInv, VmTypeOK, Numbered, OwnsItsSlot,
     NoLostReference, RegistryConsistent, Loaded, ToSet
<1>5. CASE UNCHANGED vmVars
  BY <1>5 DEF vmVars, VmInv, VmTypeOK, Numbered, OwnsItsSlot,
     NoLostReference, RegistryConsistent, Loaded, ToSet
<1>. QED  BY <1>1, <1>2, <1>3, <1>4, <1>5 DEF VmNext

-----------------------------------------------------------------------------
(* The theorems. *)

LEMMA VmInvHolds == VmSpec => []VmInv
BY VmInitInv, VmNextInv, PTL DEF VmSpec

\* Every variable of the registry keeps its type, with any number of plugins.
THEOREM VmTypeCorrect == VmSpec => []VmTypeOK
<1>1. VmInv => VmTypeOK
  BY DEF VmInv
<1>. QED  BY VmInvHolds, <1>1, PTL

\* No release and no reuse of a slot ever takes the function of a record that
\* is still registered.
THEOREM RecordsOwnTheirSlots == VmSpec => []OwnsItsSlot
<1>1. VmInv => OwnsItsSlot
  BY DEF VmInv
<1>. QED  BY VmInvHolds, <1>1, PTL

\* No reference is ever lost: each pinned slot has a record to release it.
THEOREM ReferencesAreNotLost == VmSpec => []NoLostReference
<1>1. VmInv => NoLostReference
  BY DEF VmInv
<1>. QED  BY VmInvHolds, <1>1, PTL

\* scripts_, state_map_ and the disabled flags agree.
THEOREM RegistryStaysConsistent == VmSpec => []RegistryConsistent
<1>1. VmInv => RegistryConsistent
  BY DEF VmInv
<1>. QED  BY VmInvHolds, <1>1, PTL

\* One step of quarantine.
LEMMA QuarantineStep ==
    ASSUME VmInv, [VmNext]_vmVars, NEW v \in Vms, v \in disabled' \ disabled
    PROVE  /\ \A r \in Refs : slots'[v][r] = Free
           /\ \A x \in regs' \cup timers' : x.vm # v
           /\ \A w \in Vms \ {v} :
                /\ slots'[w] = slots[w]
                /\ RegsOf(w)' = RegsOf(w)
                /\ TimersOf(w)' = TimersOf(w)
                /\ (w \in disabled') = (w \in disabled)
<1>1. Quarantine(v)
  <2>1. ASSUME NEW u \in Vms, Service(u) PROVE FALSE
    BY <2>1 DEF Service, ServiceEventOn, ServiceEventOff, ServiceCommandOn,
       ServiceTimerAdd, ServiceTimerCancel
  <2>2. ASSUME NEW u \in Vms, Manage(u), ~Quarantine(u) PROVE FALSE
    BY <2>2 DEF Manage, SettleTimer, Sweep, CreateState, EnterScripts,
       DiscardState, Unload
  <2>3. ASSUME NEW u \in Vms, Quarantine(u) PROVE u = v
    BY <2>3 DEF Quarantine
  <2>. QED  BY <2>1, <2>2, <2>3 DEF VmNext, Shutdown, Elapse, vmVars
<1>2. slots \in [Vms -> [Refs -> Nat]]
  BY DEF VmInv, VmTypeOK
<1>3. \A r \in Refs : slots'[v][r] = Free
  <2>. SUFFICES ASSUME NEW r \in Refs PROVE slots'[v][r] = Free
    OBVIOUS
  <2>1. slots'[v][r] = IF r \in RefsOf(RegsOf(v)) \cup RefsOf(TimersOf(v))
                       THEN Free ELSE slots[v][r]
    BY <1>1, <1>2 DEF Quarantine, Unref
  <2>2. slots[v][r] # Free => \E x \in regs \cup timers : x.vm = v /\ x.ref = r
    BY DEF VmInv, NoLostReference
  <2>. QED  BY <2>1, <2>2 DEF RefsOf, RegsOf, TimersOf
<1>4. \A x \in regs' \cup timers' : x.vm # v
  BY <1>1 DEF Quarantine, RegsOf, TimersOf
<1>5. ASSUME NEW w \in Vms \ {v}
      PROVE  /\ slots'[w] = slots[w]
             /\ RegsOf(w)' = RegsOf(w)
             /\ TimersOf(w)' = TimersOf(w)
             /\ (w \in disabled') = (w \in disabled)
  <2>1. slots'[w] = slots[w]
    BY <1>1, <1>2 DEF Quarantine, Unref
  <2>2. RegsOf(w)' = RegsOf(w) /\ TimersOf(w)' = TimersOf(w)
    BY <1>1 DEF Quarantine, RegsOf, TimersOf
  <2>. QED  BY <1>1, <2>1, <2>2 DEF Quarantine
<1>. QED  BY <1>3, <1>4, <1>5

\* The failure of a plugin releases all it held and touches no other plugin.
THEOREM QuarantineStaysLocal == VmSpec => QuarantineIsLocal
<1>1. VmInv /\ [VmNext]_vmVars =>
        [\A v \in Vms : v \in disabled' \ disabled =>
          /\ \A r \in Refs : slots'[v][r] = Free
          /\ \A x \in regs' \cup timers' : x.vm # v
          /\ \A w \in Vms \ {v} :
               /\ slots'[w] = slots[w]
               /\ RegsOf(w)' = RegsOf(w)
               /\ TimersOf(w)' = TimersOf(w)
               /\ (w \in disabled') = (w \in disabled)]_vmVars
  BY QuarantineStep
<1>. QED  BY VmInvHolds, <1>1, PTL DEF VmSpec, QuarantineIsLocal

\* One step never revives a cancelled timer.
LEMMA CancelStep ==
    ASSUME VmInv, [VmNext]_vmVars, NEW t \in timers, t.cancelled,
           NEW u \in timers', u.id = t.id
    PROVE  u.cancelled
<1>1. /\ \A x \in timers : x \in TimerRecord
      /\ \A x \in timers : x.id = t.id => x = t
      /\ t.id < nextTimer /\ t.id \in Nat /\ nextTimer \in Nat
  BY DEF VmInv, VmTypeOK, Numbered, TimerRecord
<1>2. u \in timers => u.cancelled
  BY <1>1
<1>3. ASSUME NEW v \in Vms, Service(v) PROVE u.cancelled
  <2>1. ASSUME NEW d \in Delays, NEW repeat \in BOOLEAN, ServiceTimerAdd(v, d, repeat)
        PROVE  u \in timers
    BY <2>1, <1>1 DEF ServiceTimerAdd
  <2>2. ASSUME NEW x \in TimersOf(v), ServiceTimerCancel(v, x.id)
        PROVE  u.cancelled
    <3>1. PICK y \in timers : timers' = (timers \ {y}) \cup {Cancelled(y)}
      BY <2>2 DEF ServiceTimerCancel, TimersOf
    <3>2. Cancelled(y).cancelled
      BY <1>1 DEF Cancelled, TimerRecord
    <3>. QED  BY <1>2, <3>1, <3>2
  <2>3. timers' = timers => u.cancelled
    BY <1>2
  <2>. QED  BY <1>2, <1>3, <2>1, <2>2, <2>3
            DEF Service, ServiceEventOn, ServiceEventOff, ServiceCommandOn
<1>4. ASSUME NEW v \in Vms, Manage(v) PROVE u.cancelled
  <2>1. ASSUME NEW x \in TimersOf(v), NEW succeeded \in BOOLEAN, NEW now \in 0 .. clock,
               SettleTimer(v, x.id, succeeded, now)
        PROVE  u.cancelled
    <3>1. PICK y \in timers :
            u = IF y.vm = v /\ y.id = x.id THEN Settled(y, succeeded, now) ELSE y
      BY <2>1 DEF SettleTimer
    <3>2. now \in Nat
      BY DEF VmInv, VmTypeOK
    <3>3. u.id = y.id
      BY <3>1, <3>2, <1>1, SettledFacts
    <3>4. y = t
      BY <3>3, <1>1
    <3>5. Cancelled(t).cancelled
      BY <1>1 DEF Cancelled, TimerRecord
    <3>. QED  BY <3>1, <3>4, <3>5 DEF Settled
  <2>2. timers' \subseteq timers => u.cancelled
    BY <1>2
  <2>. QED  BY <1>4, <2>1, <2>2 DEF Manage, Sweep, Quarantine, CreateState,
            EnterScripts, DiscardState, Unload, Release
<1>5. timers' \subseteq timers => u.cancelled
  BY <1>2
<1>. QED  BY <1>3, <1>4, <1>5 DEF VmNext, Shutdown, Elapse, vmVars

\* What a plugin cancelled stays cancelled until it is gone.
THEOREM CancelStaysFinal == VmSpec => CancelIsFinal
<1>1. VmInv /\ [VmNext]_vmVars =>
        [\A t \in timers : t.cancelled =>
          \A u \in timers' : u.id = t.id => u.cancelled]_vmVars
  BY CancelStep
<1>. QED  BY VmInvHolds, <1>1, PTL DEF VmSpec, CancelIsFinal
=============================================================================
