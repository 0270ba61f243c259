------------------------ MODULE PluginManager_proofs ------------------------
(***************************************************************************)
(* Proofs about PluginManager, for any packages, names, keys and order of  *)
(* the directory.  What is proved of keys that several files may share is  *)
(* said first; then what needs one key for each file.                      *)
(***************************************************************************)
EXTENDS PluginManager, SequenceTheorems, TLAPS

\* No two file stems normalise to one key.
KeysAreDistinct == \A f, g \in Files : KeyOf[f] = KeyOf[g] => f = g

FilesOf(S) == {S[i].file : i \in DOMAIN S}
KeysOf(S) == {KeyOf[S[i].file] : i \in DOMAIN S}

\* What OneStatePerPackage and CacheIsCurrent say of some plugins.
Distinct(S) == \A i, j \in DOMAIN S : S[i].file = S[j].file => i = j
Current(S) ==
    \A i \in DOMAIN S :
        KeyOf[S[i].file] \in DOMAIN cache /\ cache[KeyOf[S[i].file]] = S[i].name

\* load_plugins has not come to the packages it has yet to load, and does not
\* run while a retry does.
QueueIsAhead ==
    /\ Queued \cap LoadedFiles = {}
    /\ Queued # {} => \A step \in queue : step.do = "load"

\* The inductive invariant.
ManagerInv ==
    /\ TypeOK
    /\ OneStatePerPackage
    /\ CacheIsCurrent
    /\ QueueIsAhead

-----------------------------------------------------------------------------
(* scripts_ without one element, and with one more.                        *)

LEMMA RemoveAtFacts ==
    ASSUME NEW S, NEW s \in Seq(S), NEW i \in 1..Len(s)
    PROVE  /\ RemoveAt(s, i) \in Seq(S) /\ Len(RemoveAt(s, i)) = Len(s) - 1
           /\ \A j \in 1..(Len(s) - 1) :
                RemoveAt(s, i)[j] = IF j < i THEN s[j] ELSE s[j + 1]
<1>. DEFINE a == SubSeq(s, 1, i - 1)
            b == SubSeq(s, i + 1, Len(s))
<1>1. Len(s) \in Nat /\ \A j \in 1..Len(s) : s[j] \in S
  BY LenProperties, ElementOfSeq
<1>2. a \in Seq(S) /\ Len(a) = i - 1 /\ \A j \in 1..(i - 1) : a[j] = s[j]
  <2>1. \A j \in 1..(i - 1) : s[j] \in S
    BY <1>1
  <2>. QED  BY <2>1, <1>1, SubSeqProperties
<1>3. b \in Seq(S) /\ Len(b) = Len(s) - i /\ \A j \in 1..(Len(s) - i) : b[j] = s[i + j]
  <2>1. \A j \in (i + 1)..Len(s) : s[j] \in S
    BY <1>1
  <2>. QED  BY <2>1, <1>1, SubSeqProperties
<1>4. RemoveAt(s, i) = a \o b
  BY DEF RemoveAt
<1>. HIDE DEF a, b
<1>5. /\ a \o b \in Seq(S) /\ Len(a \o b) = Len(s) - 1
      /\ \A j \in 1..(Len(s) - 1) :
           (a \o b)[j] = IF j <= i - 1 THEN a[j] ELSE b[j - (i - 1)]
  <2>1. Len(a) + Len(b) = Len(s) - 1 /\ Len(a) = i - 1
    BY <1>1, <1>2, <1>3
  <2>2. /\ a \o b \in Seq(S) /\ Len(a \o b) = Len(a) + Len(b)
        /\ \A j \in 1..(Len(a) + Len(b)) :
             (a \o b)[j] = IF j <= Len(a) THEN a[j] ELSE b[j - Len(a)]
    BY <1>2, <1>3, ConcatProperties
  <2>. QED  BY <2>1, <2>2
<1>6. ASSUME NEW j \in 1..(Len(s) - 1)
      PROVE  (a \o b)[j] = IF j < i THEN s[j] ELSE s[j + 1]
  <2>1. CASE j < i
    BY <1>1, <1>2, <1>5, <2>1
  <2>2. CASE ~(j < i)
    <3>1. j - (i - 1) \in 1..(Len(s) - i) /\ i + (j - (i - 1)) = j + 1 /\ ~(j <= i - 1)
      BY <1>1, <2>2
    <3>. QED  BY <1>3, <1>5, <2>2, <3>1
  <2>. QED  BY <2>1, <2>2
<1>. QED  BY <1>4, <1>5, <1>6

\* The plugins without one of them.
LEMMA WithoutFacts ==
    ASSUME scripts \in Seq(Vm), NEW i \in DOMAIN scripts
    PROVE  /\ Without(i) \in Seq(Vm)
           /\ \A j \in DOMAIN Without(i) :
                \E k \in DOMAIN scripts : k # i /\ Without(i)[j] = scripts[k]
           /\ \A k \in DOMAIN scripts :
                k # i => \E j \in DOMAIN Without(i) : Without(i)[j] = scripts[k]
           /\ Distinct(scripts) => Distinct(Without(i))
<1>. DEFINE s == Without(i)
            n == Len(scripts)
<1>1. n \in Nat /\ DOMAIN scripts = 1..n /\ i \in 1..n
  BY LenProperties
<1>2. /\ s \in Seq(Vm) /\ Len(s) = n - 1
      /\ \A j \in 1..(n - 1) : s[j] = IF j < i THEN scripts[j] ELSE scripts[j + 1]
  BY <1>1, RemoveAtFacts DEF Without
<1>3. DOMAIN s = 1..(n - 1)
  BY <1>2, LenProperties
<1>. HIDE DEF s, n
<1>4. \A j \in DOMAIN s : \E k \in DOMAIN scripts : k # i /\ s[j] = scripts[k]
  <2>1. SUFFICES ASSUME NEW j \in 1..(n - 1)
                 PROVE  \E k \in 1..n : k # i /\ s[j] = scripts[k]
    BY <1>1, <1>3
  <2>2. CASE j < i
    BY <1>1, <1>2, <2>2
  <2>3. CASE ~(j < i)
    <3>1. j + 1 \in 1..n /\ j + 1 # i
      BY <1>1, <2>3
    <3>. QED  BY <1>2, <2>3, <3>1
  <2>. QED  BY <2>2, <2>3
<1>5. \A k \in DOMAIN scripts : k # i => \E j \in DOMAIN s : s[j] = scripts[k]
  <2>1. SUFFICES ASSUME NEW k \in 1..n, k # i
                 PROVE  \E j \in 1..(n - 1) : s[j] = scripts[k]
    BY <1>1, <1>3
  <2>2. CASE k < i
    <3>1. k \in 1..(n - 1)
      BY <1>1, <2>2
    <3>. QED  BY <1>2, <2>2, <3>1
  <2>3. CASE k > i
    <3>1. k - 1 \in 1..(n - 1) /\ ~(k - 1 < i) /\ (k - 1) + 1 = k
      BY <1>1, <2>3
    <3>2. s[k - 1] = scripts[(k - 1) + 1]
      BY <1>2, <3>1
    <3>. QED  BY <3>1, <3>2
  <2>. QED  BY <1>1, <2>1, <2>2, <2>3
<1>6. ASSUME Distinct(scripts) PROVE Distinct(s)
  <2>1. SUFFICES ASSUME NEW j \in 1..(n - 1), NEW k \in 1..(n - 1), s[j].file = s[k].file
                 PROVE  j = k
    BY <1>3 DEF Distinct
  <2> DEFINE From(x) == IF x < i THEN x ELSE x + 1
  <2>2. From(j) \in 1..n /\ From(k) \in 1..n
    BY <1>1
  <2>3. s[j] = scripts[From(j)] /\ s[k] = scripts[From(k)]
    BY <1>2
  <2>4. From(j) = From(k)
    <3>. HIDE DEF From
    <3>. QED  BY <1>1, <1>6, <2>1, <2>2, <2>3 DEF Distinct
  <2>. QED  BY <1>1, <2>4
<1>. QED  BY <1>2, <1>4, <1>5, <1>6 DEF s

\* What LoadSucceeds appends.
NewVm(f) ==
    [file |-> f, name |-> IF disk[f].name = NoName THEN KeyOf[f] ELSE disk[f].name,
     cleanup |-> disk[f].cleanup, strict |-> disk[f].strict, disabled |-> FALSE]

LEMMA NewVmType ==
    ASSUME TypeOK, NEW f \in DOMAIN disk
    PROVE  f \in Files /\ KeyOf[f] \in Keys /\ KeyOf[f] \in Names /\ NewVm(f) \in Vm
<1>1. f \in Files /\ disk[f] \in Contents
  BY DEF TypeOK
<1>2. KeyOf[f] \in Names /\ KeyOf[f] \in Keys
  BY <1>1, ManagerAssumption DEF Keys
<1>3. /\ disk[f].name \in Names \cup {NoName} /\ disk[f].cleanup \in {"none", "returns", "throws"}
      /\ disk[f].strict \in BOOLEAN
  BY <1>1, ManagerAssumption
<1>4. (IF disk[f].name = NoName THEN KeyOf[f] ELSE disk[f].name) \in Names
  BY <1>2, <1>3
<1>. QED  BY <1>1, <1>2, <1>3, <1>4 DEF NewVm, Vm

\* The plugins with one more.
LEMMA AppendFacts ==
    ASSUME NEW S \in Seq(Vm), NEW v \in Vm
    PROVE  /\ Append(S, v) \in Seq(Vm)
           /\ \A j \in DOMAIN Append(S, v) :
                Append(S, v)[j] = v \/ (j \in DOMAIN S /\ Append(S, v)[j] = S[j])
           /\ \A j \in DOMAIN S : j \in DOMAIN Append(S, v) /\ Append(S, v)[j] = S[j]
           /\ \E j \in DOMAIN Append(S, v) : Append(S, v)[j] = v
           /\ Distinct(S) /\ v.file \notin FilesOf(S) => Distinct(Append(S, v))
<1>. DEFINE t == Append(S, v)
            n == Len(S)
<1>1. n \in Nat /\ DOMAIN S = 1..n
  BY LenProperties
<1>2. /\ t \in Seq(Vm) /\ Len(t) = n + 1
      /\ \A j \in 1..n : t[j] = S[j]
      /\ t[n + 1] = v
  BY AppendProperties
<1>3. DOMAIN t = 1..(n + 1)
  BY <1>2, LenProperties
<1>. HIDE DEF t, n
<1>4. \A j \in DOMAIN t : t[j] = v \/ (j \in DOMAIN S /\ t[j] = S[j])
  <2>1. ASSUME NEW j \in 1..(n + 1) PROVE j = n + 1 \/ j \in 1..n
    BY <1>1
  <2>. QED  BY <1>1, <1>2, <1>3, <2>1
<1>5. \A j \in DOMAIN S : j \in DOMAIN t /\ t[j] = S[j]
  BY <1>1, <1>2, <1>3
<1>6. \E j \in DOMAIN t : t[j] = v
  <2>1. n + 1 \in 1..(n + 1)
    BY <1>1
  <2>. QED  BY <1>2, <1>3, <2>1
<1>7. ASSUME Distinct(S), v.file \notin FilesOf(S) PROVE Distinct(t)
  <2>1. SUFFICES ASSUME NEW j \in 1..(n + 1), NEW k \in 1..(n + 1), t[j].file = t[k].file
                 PROVE  j = k
    BY <1>3 DEF Distinct
  <2>2. \A x \in 1..n : t[x].file \in FilesOf(S)
    BY <1>1, <1>2 DEF FilesOf
  <2>3. (j = n + 1 \/ j \in 1..n) /\ (k = n + 1 \/ k \in 1..n)
    BY <1>1
  <2>4. CASE j \in 1..n /\ k \in 1..n
    BY <1>1, <1>2, <1>7, <2>1, <2>4 DEF Distinct
  <2>. QED  BY <1>2, <1>7, <2>1, <2>2, <2>3, <2>4
<1>. QED  BY <1>2, <1>4, <1>5, <1>6, <1>7 DEF t

-----------------------------------------------------------------------------
(* load_plugin.                                                            *)

\* Where scripts_, plugin_failures_ and the cache stand after a load.
FailsTo(S, F, f) == scripts' = S /\ failures' = F \cup {KeyOf[f]} /\ cache' = cache
AbortsTo == scripts' = scripts /\ failures' = failures /\ cache' = cache
SucceedsTo(S, F, f) ==
    /\ NewVm(f) \in Vm
    /\ scripts' = Append(S, NewVm(f)) /\ failures' = F \ {KeyOf[f]}
    /\ DOMAIN cache' = DOMAIN cache \cup {KeyOf[f]}
    /\ cache'[KeyOf[f]] = NewVm(f).name
    /\ \A k \in DOMAIN cache : k # KeyOf[f] => cache'[k] = cache[k]

LEMMA LoadOutcome ==
    ASSUME TypeOK, NEW S, NEW F, NEW f \in Files, Load(S, F, f)
    PROVE  /\ FailsTo(S, F, f) \/ AbortsTo \/ SucceedsTo(S, F, f)
           /\ up' \in BOOLEAN
<1>1. up \in BOOLEAN
  BY DEF TypeOK
<1>2. CASE LoadFails(S, F, f)
  BY <1>1, <1>2 DEF LoadFails, FailsTo
<1>3. CASE LoadAborts(S, F, f)
  BY <1>3 DEF LoadAborts, AbortsTo
<1>4. CASE LoadSucceeds(S, F, f)
  <2>1. NewVm(f) \in Vm
    BY <1>4, NewVmType DEF LoadSucceeds
  <2>2. NewVm(f).name = IF disk[f].name = NoName THEN KeyOf[f] ELSE disk[f].name
    BY DEF NewVm
  <2>3. scripts' = Append(S, NewVm(f)) /\ failures' = F \ {KeyOf[f]} /\ up' = up
    BY <1>4 DEF LoadSucceeds, NewVm
  <2>4. cache' = [k \in DOMAIN cache \cup {KeyOf[f]} |->
                    IF k = KeyOf[f] THEN NewVm(f).name ELSE cache[k]]
    BY <1>4, <2>2 DEF LoadSucceeds
  <2>. QED  BY <1>1, <2>1, <2>3, <2>4 DEF SucceedsTo
<1>. QED  BY <1>2, <1>3, <1>4 DEF Load

LEMMA LoadTypes ==
    ASSUME TypeOK, NEW S \in Seq(Vm), NEW F \in SUBSET Keys, NEW f \in Files,
           Load(S, F, f)
    PROVE  /\ scripts' \in Seq(Vm) /\ failures' \subseteq Keys
           /\ DOMAIN cache' \subseteq Keys /\ \A k \in DOMAIN cache' : cache'[k] \in Names
<1>1. KeyOf[f] \in Keys
  BY DEF Keys
<1>2. /\ scripts \in Seq(Vm) /\ failures \subseteq Keys
      /\ DOMAIN cache \subseteq Keys /\ \A k \in DOMAIN cache : cache[k] \in Names
  BY DEF TypeOK
<1>3. CASE FailsTo(S, F, f)
  BY <1>1, <1>2, <1>3 DEF FailsTo
<1>4. CASE AbortsTo
  BY <1>2, <1>4 DEF AbortsTo
<1>5. CASE SucceedsTo(S, F, f)
  <2>1. NewVm(f).name \in Names
    BY <1>5 DEF SucceedsTo, Vm
  <2>2. scripts' \in Seq(Vm)
    BY <1>5, AppendProperties DEF SucceedsTo
  <2>. QED  BY <1>1, <1>2, <1>5, <2>1, <2>2 DEF SucceedsTo
<1>. QED  BY <1>3, <1>4, <1>5, LoadOutcome

-----------------------------------------------------------------------------
(* What a step can do to the plugins.                                      *)

LEMMA SelectedKey ==
    ASSUME NEW q, NEW key, NEW f \in SelectedFiles(q, key)
    PROVE  KeyOf[f] = key
<1>. DEFINE matching == {i \in DOMAIN scripts : KeyAt(i) = key /\ q \in {key, scripts[i].name}}
<1>1. CASE matching # {}
  <2>1. PICK i \in matching : f = scripts[i].file
    BY <1>1 DEF SelectedFiles
  <2>. QED  BY <2>1 DEF KeyAt
<1>2. CASE matching = {}
  BY <1>2 DEF SelectedFiles, PackageFor, FirstOf, PackagesFor
<1>. QED  BY <1>1, <1>2

Nothing == UNCHANGED <<scripts, failures, cache>>

DisablesOne ==
    /\ \E i \in DOMAIN scripts : scripts' = [scripts EXCEPT ![i].disabled = TRUE]
    /\ UNCHANGED <<failures, cache>>

LoadsOne ==
    \E f \in Files :
        /\ KeyOf[f] \notin LoadedKeys \/ (f \in Queued /\ f \notin Queued')
        /\ Load(scripts, failures, f)

Drops(q) ==
    \E key \in LoadedKeys : \E i \in LoadedFor(key) :
        /\ Matches(q) = {key}
        /\ scripts' = Without(i) /\ failures' = failures \ {key} /\ UNCHANGED cache
        /\ reply'.action = "unload" /\ reply'.query = q /\ reply'.key = key

Replaces(q) ==
    \E f \in DOMAIN disk : \E i \in LoadedFor(KeyOf[f]) :
        /\ Matches(q) = {KeyOf[f]}
        /\ Load(Without(i), failures \ {KeyOf[f]}, f)
        /\ reply'.query = q \/ scripts' = scripts

ForgetsFailure ==
    /\ \E key \in LoadedKeys : failures' = failures \ {key}
    /\ UNCHANGED <<scripts, cache>>

Effect ==
    \/ Nothing
    \/ DisablesOne
    \/ LoadsOne
    \/ \E q \in Names : Drops(q) \/ Replaces(q)
    \/ ForgetsFailure

LEMMA SaidType ==
    ASSUME NEW action \in {"start", "load", "unload", "refresh", "retry"},
           NEW force \in BOOLEAN, NEW q \in Names \cup {NoName},
           NEW key \in Keys \cup {NoName},
           NEW result \in {"done", "refused", "failed", "rejected"},
           Said(action, force, q, key, result)
    PROVE  reply' \in Reply /\ reply'.action = action /\ reply'.query = q /\ reply'.key = key
BY DEF Said, Reply

LEMMA LoadedForFacts ==
    ASSUME TypeOK, NEW key, NEW i \in LoadedFor(key)
    PROVE  /\ i \in DOMAIN scripts /\ KeyAt(i) = key /\ key \in LoadedKeys /\ key \in Keys
           /\ scripts[i] \in Vm
<1>1. i \in DOMAIN scripts /\ KeyAt(i) = key
  BY DEF LoadedFor
<1>2. scripts[i] \in Vm
  BY <1>1 DEF TypeOK
<1>3. scripts[i].file \in Files
  BY <1>2 DEF Vm
<1>. QED  BY <1>1, <1>2, <1>3 DEF KeyAt, LoadedKeys, Keys

\* A command leaves the directory alone, and when it is done nothing is queued.
CommandFrame ==
    /\ queue = {} /\ queue' = {} /\ disk' = disk
    /\ up' \in BOOLEAN /\ reply' \in Reply

LEMMA RejectEffect ==
    ASSUME NEW action \in {"load", "unload", "refresh"}, NEW force \in BOOLEAN,
           NEW q \in Names, TypeOK, Quiet, Reject(action, force, q)
    PROVE  CommandFrame /\ Nothing
<1>1. Said(action, force, q, NoName, "rejected") /\ UNCHANGED <<disk, scripts, failures, cache, queue>>
  BY DEF Reject
<1>2. up' \in BOOLEAN
  BY DEF Reject, TypeOK
<1>3. reply' \in Reply /\ reply'.action = action
  BY <1>1, SaidType
<1>. QED  BY <1>1, <1>3, <1>2 DEF CommandFrame, Nothing, Quiet

LEMMA RefuseEffect ==
    ASSUME TypeOK, NEW i \in DOMAIN scripts, Refuse(i)
    PROVE  DisablesOne
BY DEF Refuse, DisablesOne

\* Loading of a file, with the plugins and failures that are left for it.
LEMMA LoadingEffect ==
    ASSUME TypeOK, NEW action \in {"load", "unload", "refresh"}, NEW force \in BOOLEAN,
           NEW q \in Names, NEW S, NEW F, NEW f \in Files,
           Loading(action, force, q, S, F, f)
    PROVE  /\ Load(S, F, f) /\ up' \in BOOLEAN /\ reply' \in Reply
           /\ (reply'.query = q \/ scripts' = scripts)
<1>1. KeyOf[f] \in Keys
  BY DEF Keys
<1>2. CASE LoadFails(S, F, f) /\ Said(action, force, q, KeyOf[f], "failed")
  <2>1. reply' \in Reply /\ reply'.query = q
    BY <1>1, <1>2, SaidType
  <2>. QED  BY <1>2, <2>1 DEF Load, LoadFails, TypeOK
<1>3. CASE LoadSucceeds(S, F, f) /\ Said(action, force, q, KeyOf[f], "done")
  <2>1. reply' \in Reply /\ reply'.query = q
    BY <1>1, <1>3, SaidType
  <2>. QED  BY <1>3, <2>1 DEF Load, LoadSucceeds, TypeOK
<1>4. CASE LoadAborts(S, F, f) /\ UNCHANGED reply
  BY <1>4 DEF Load, LoadAborts, TypeOK
<1>. QED  BY <1>2, <1>3, <1>4 DEF Loading

LEMMA UnloadEffect ==
    ASSUME TypeOK, NEW q \in Names, NEW force \in BOOLEAN, CommandUnload(q, force)
    PROVE  CommandFrame /\ (Nothing \/ DisablesOne \/ Drops(q))
<1>1. Quiet /\ up \in BOOLEAN /\ reply \in Reply
  BY DEF CommandUnload, TypeOK
<1>2. CASE Reject("unload", force, q)
  <2>1. CommandFrame /\ Nothing
    BY <1>1, <1>2, RejectEffect
  <2>. QED  BY <2>1
<1>3. ASSUME NEW key \in LoadedKeys, NEW i \in LoadedFor(key), Matches(q) = {key},
             Unloading("unload", force, q, i,
                 /\ scripts' = Without(i)
                 /\ failures' = failures \ {key}
                 /\ Said("unload", force, q, key, "done")
                 /\ UNCHANGED <<cache, up>>),
             UNCHANGED <<disk, queue>>
      PROVE  CommandFrame /\ (Nothing \/ DisablesOne \/ Drops(q))
  <2>1. i \in DOMAIN scripts /\ KeyAt(i) = key /\ key \in Keys
    BY LoadedForFacts
  <2>2. CASE /\ scripts' = Without(i)
             /\ failures' = failures \ {key}
             /\ Said("unload", force, q, key, "done")
             /\ UNCHANGED <<cache, up>>
    <3>1. /\ reply' \in Reply /\ reply'.action = "unload"
          /\ reply'.query = q /\ reply'.key = key
      BY <2>1, <2>2, SaidType
    <3>2. Drops(q)
      BY <1>3, <2>2, <3>1 DEF Drops
    <3>3. CommandFrame
      BY <1>1, <1>3, <2>2, <3>1 DEF CommandFrame, Quiet
    <3>. QED  BY <1>1, <2>2, <3>2, <3>3
  <2>3. CASE Abort /\ UNCHANGED reply
    BY <1>1, <1>3, <2>3 DEF Abort, Nothing, CommandFrame, Quiet
  <2>4. CASE Refuse(i) /\ Said("unload", force, q, KeyAt(i), "refused")
    <3>1. reply' \in Reply
      BY <2>1, <2>4, SaidType
    <3>2. DisablesOne
      BY <2>1, <2>4, RefuseEffect
    <3>. QED  BY <1>1, <1>3, <2>4, <3>1, <3>2 DEF Refuse, CommandFrame, Quiet
  <2>. QED  BY <1>3, <2>2, <2>3, <2>4 DEF Unloading
<1>. QED  BY <1>2, <1>3 DEF CommandUnload

LEMMA RefreshEffect ==
    ASSUME TypeOK, NEW q \in Names, NEW force \in BOOLEAN, CommandRefresh(q, force)
    PROVE  CommandFrame /\ (Nothing \/ DisablesOne \/ LoadsOne \/ Replaces(q))
<1>1. Quiet /\ up \in BOOLEAN /\ reply \in Reply
  BY DEF CommandRefresh, TypeOK
<1>2. CASE Reject("refresh", force, q)
  <2>1. CommandFrame /\ Nothing
    BY <1>1, <1>2, RejectEffect
  <2>. QED  BY <2>1
<1>3. ASSUME NEW key \in Keys, NEW f \in DOMAIN disk,
             Matches(q) = {key}, f \in SelectedFiles(q, key),
             IF key \in LoadedKeys
             THEN \E i \in LoadedFor(key) :
                    Unloading("refresh", force, q, i,
                        Loading("refresh", force, q, Without(i), failures \ {key}, f))
             ELSE Loading("refresh", force, q, scripts, failures, f),
             UNCHANGED <<disk, queue>>
      PROVE  CommandFrame /\ (Nothing \/ DisablesOne \/ LoadsOne \/ Replaces(q))
  <2>1. KeyOf[f] = key /\ f \in Files
    BY <1>3, SelectedKey DEF TypeOK
  <2>2. CASE key \notin LoadedKeys
    <3>1. Loading("refresh", force, q, scripts, failures, f)
      BY <1>3, <2>2
    <3>2. Load(scripts, failures, f) /\ up' \in BOOLEAN /\ reply' \in Reply
      BY <2>1, <3>1, LoadingEffect
    <3>3. LoadsOne
      BY <2>1, <2>2, <3>2 DEF LoadsOne
    <3>. QED  BY <1>1, <1>3, <3>2, <3>3 DEF CommandFrame, Quiet
  <2>3. CASE key \in LoadedKeys
    <3>1. PICK i \in LoadedFor(key) :
            Unloading("refresh", force, q, i,
                Loading("refresh", force, q, Without(i), failures \ {key}, f))
      BY <1>3, <2>3
    <3>2. i \in DOMAIN scripts /\ KeyAt(i) = key
      BY LoadedForFacts
    <3>3. CASE Loading("refresh", force, q, Without(i), failures \ {key}, f)
      <4>1. /\ Load(Without(i), failures \ {key}, f) /\ up' \in BOOLEAN
            /\ reply' \in Reply /\ (reply'.query = q \/ scripts' = scripts)
        BY <2>1, <3>3, LoadingEffect
      <4>2. Replaces(q)
        BY <1>3, <2>1, <4>1 DEF Replaces
      <4>. QED  BY <1>1, <1>3, <4>1, <4>2 DEF CommandFrame, Quiet
    <3>4. CASE Abort /\ UNCHANGED reply
      BY <1>1, <1>3, <3>4 DEF Abort, Nothing, CommandFrame, Quiet
    <3>5. CASE Refuse(i) /\ Said("refresh", force, q, KeyAt(i), "refused")
      <4>1. reply' \in Reply
        BY <1>3, <3>2, <3>5, SaidType
      <4>2. DisablesOne
        BY <3>2, <3>5, RefuseEffect
      <4>. QED  BY <1>1, <1>3, <3>5, <4>1, <4>2 DEF Refuse, CommandFrame, Quiet
    <3>. QED  BY <3>1, <3>3, <3>4, <3>5 DEF Unloading
  <2>. QED  BY <2>2, <2>3
<1>. QED  BY <1>2, <1>3 DEF CommandRefresh

LEMMA LoadCommandEffect ==
    ASSUME TypeOK, NEW q \in Names, CommandLoad(q)
    PROVE  CommandFrame /\ (Nothing \/ LoadsOne)
<1>1. Quiet
  BY DEF CommandLoad
<1>2. CASE Reject("load", FALSE, q)
  <2>1. CommandFrame /\ Nothing
    BY <1>1, <1>2, RejectEffect
  <2>. QED  BY <2>1
<1>3. ASSUME NEW key \in Keys \ LoadedKeys, NEW f \in DOMAIN disk,
             f \in SelectedFiles(q, key),
             Loading("load", FALSE, q, scripts, failures, f),
             UNCHANGED <<disk, queue>>
      PROVE  CommandFrame /\ LoadsOne
  <2>1. KeyOf[f] = key /\ f \in Files
    BY <1>3, SelectedKey DEF TypeOK
  <2>2. Load(scripts, failures, f) /\ up' \in BOOLEAN /\ reply' \in Reply
    BY <1>3, <2>1, LoadingEffect
  <2>3. LoadsOne
    BY <2>1, <2>2 DEF LoadsOne
  <2>. QED  BY <1>1, <1>3, <2>2, <2>3 DEF CommandFrame, Quiet
<1>. QED  BY <1>2, <1>3 DEF CommandLoad

LEMMA ProceedEffect ==
    ASSUME TypeOK, Proceed
    PROVE  /\ Effect /\ up' \in BOOLEAN /\ queue' \subseteq queue
           /\ UNCHANGED <<disk, reply>>
<1>1. PICK step \in queue :
        /\ queue' = queue \ {step}
        /\ ProceedLoad(step) \/ ProceedRetry(step)
  BY DEF Proceed
<1>2. UNCHANGED <<disk, reply>> /\ queue' \subseteq queue
  BY <1>1 DEF Proceed
<1>3. /\ queue \subseteq Step /\ scripts \in Seq(Vm) /\ up \in BOOLEAN
      /\ failures \in SUBSET Keys
  BY DEF TypeOK
<1>4. CASE ProceedLoad(step)
  <2>1. /\ step.do = "load" /\ step.file \in Queued
        /\ Load(scripts, failures, step.file)
    BY <1>4 DEF ProceedLoad, FirstOf
  <2>2. step.file \in Files /\ step = [do |-> "load", file |-> step.file]
    BY <1>1, <1>3, <2>1 DEF Step
  <2>3. step.file \notin Queued'
    <3>1. ASSUME NEW s \in queue, s # step, s.do = "load" PROVE s.file # step.file
      <4>1. s = [do |-> "load", file |-> s.file]
        BY <1>3, <3>1 DEF Step
      <4>. QED  BY <2>2, <3>1, <4>1
    <3>. QED  BY <1>1, <3>1 DEF Queued
  <2>4. LoadsOne
    BY <2>1, <2>2, <2>3 DEF LoadsOne
  <2>5. up' \in BOOLEAN
    BY <1>3, <2>1, <2>2, LoadOutcome
  <2>. QED  BY <1>2, <2>4, <2>5 DEF Effect
<1>5. CASE ProceedRetry(step)
  <2>1. CASE step.key \in LoadedKeys
    BY <1>2, <1>3, <1>5, <2>1 DEF ProceedRetry, Effect, ForgetsFailure
  <2>2. CASE step.key \notin LoadedKeys /\ PackagesFor(step.key) = {}
    BY <1>2, <1>3, <1>5, <2>2 DEF ProceedRetry, Effect, Nothing
  <2>3. CASE step.key \notin LoadedKeys /\ PackagesFor(step.key) # {}
    <3>1. PICK f \in PackageFor(step.key) : Load(scripts, failures, f)
      BY <1>5, <2>3 DEF ProceedRetry
    <3>2. f \in Files /\ KeyOf[f] = step.key
      BY DEF PackageFor, FirstOf, PackagesFor, TypeOK
    <3>3. LoadsOne
      BY <2>3, <3>1, <3>2 DEF LoadsOne
    <3>4. up' \in BOOLEAN
      BY <1>3, <3>1, <3>2, LoadOutcome
    <3>. QED  BY <1>2, <3>3, <3>4 DEF Effect
  <2>. QED  BY <2>1, <2>2, <2>3
<1>. QED  BY <1>1, <1>4, <1>5

\* Everything but the plugins, their failures and names stays well typed.
Frame ==
    /\ DOMAIN disk' \subseteq Files /\ \A f \in DOMAIN disk' : disk'[f] \in Contents
    /\ queue' \subseteq Step /\ up' \in BOOLEAN /\ reply' \in Reply

LEMMA CommandEffect ==
    ASSUME TypeOK, Command
    PROVE  Effect /\ Frame /\ queue = {} /\ Queued' = {} /\ disk' = disk
<1>1. DOMAIN disk \subseteq Files /\ \A f \in DOMAIN disk : disk[f] \in Contents
  BY DEF TypeOK
<1>2. ASSUME CommandFrame PROVE Frame /\ queue = {} /\ Queued' = {} /\ disk' = disk
  BY <1>1, <1>2 DEF CommandFrame, Frame, Queued
<1>3. ASSUME NEW q \in Names, NEW force \in BOOLEAN, CommandUnload(q, force)
      PROVE  Effect /\ CommandFrame
  BY <1>3, UnloadEffect DEF Effect
<1>4. ASSUME NEW q \in Names, NEW force \in BOOLEAN, CommandRefresh(q, force)
      PROVE  Effect /\ CommandFrame
  BY <1>4, RefreshEffect DEF Effect
<1>5. ASSUME NEW q \in Names, CommandLoad(q)
      PROVE  Effect /\ CommandFrame
  BY <1>5, LoadCommandEffect DEF Effect
<1>6. CASE CommandRetry
  <2>1. /\ queue = {} /\ queue' = [do : {"retry"}, key : failures]
        /\ UNCHANGED <<disk, scripts, failures, cache, up>>
        /\ Said("retry", FALSE, NoName, NoName, "done")
    BY <1>6 DEF CommandRetry, Quiet
  <2>2. reply' \in Reply
    BY <2>1, SaidType
  <2>3. queue' \subseteq Step /\ \A s \in queue' : s.do = "retry"
    BY <2>1 DEF TypeOK, Step
  <2>4. Queued' = {}
    BY <2>3 DEF Queued
  <2>5. up' \in BOOLEAN
    BY <2>1 DEF TypeOK
  <2>. QED  BY <1>1, <2>1, <2>2, <2>3, <2>4, <2>5 DEF Effect, Nothing, Frame
<1>. QED  BY <1>2, <1>3, <1>4, <1>5, <1>6 DEF Command

LEMMA OtherEffect ==
    ASSUME TypeOK, Next, ~Command, ~Proceed, ~Start
    PROVE  /\ Nothing \/ DisablesOne
           /\ Frame /\ UNCHANGED <<queue, up, reply>>
<1>1. /\ DOMAIN disk \subseteq Files /\ \A f \in DOMAIN disk : disk[f] \in Contents
      /\ queue \subseteq Step /\ up \in BOOLEAN /\ reply \in Reply
  BY DEF TypeOK
<1>2. CASE CallbackFails
  BY <1>1, <1>2 DEF CallbackFails, DisablesOne, Frame
<1>3. CASE DiskChanges
  <2>1. UNCHANGED <<scripts, failures, cache, queue, up, reply>>
    BY <1>3 DEF DiskChanges
  <2>2. DOMAIN disk' \subseteq Files /\ \A f \in DOMAIN disk' : disk'[f] \in Contents
    <3>1. PICK f \in Files :
            \/ \E c \in Contents :
                 disk' = [g \in DOMAIN disk \cup {f} |-> IF g = f THEN c ELSE disk[g]]
            \/ disk' = [g \in DOMAIN disk \ {f} |-> disk[g]]
      BY <1>3 DEF DiskChanges
    <3>. QED  BY <1>1, <3>1
  <2>. QED  BY <1>1, <2>1, <2>2 DEF Nothing, Frame
<1>. QED  BY <1>2, <1>3 DEF Next

LEMMA StartEffect ==
    ASSUME TypeOK, Start
    PROVE  /\ Frame
           /\ scripts' = <<>> /\ failures' = {} /\ cache' = <<>>
           /\ \A step \in queue' : step.do = "load"
           /\ reply'.action = "start"
<1>1. DOMAIN disk \subseteq Files /\ \A f \in DOMAIN disk : disk[f] \in Contents
  BY DEF TypeOK
<1>2. /\ scripts' = <<>> /\ failures' = {} /\ cache' = <<>> /\ up' = TRUE /\ disk' = disk
      /\ queue' = [do : {"load"}, file : DOMAIN disk]
      /\ Said("start", FALSE, NoName, NoName, "done")
  BY DEF Start
<1>3. reply' \in Reply /\ reply'.action = "start"
  BY <1>2, SaidType
<1>4. queue' \subseteq Step /\ \A step \in queue' : step.do = "load"
  BY <1>1, <1>2 DEF Step
<1>. QED  BY <1>1, <1>2, <1>3, <1>4 DEF Frame

\* Every step starts the plugins anew or has one of the effects.
LEMMA StepEffect ==
    ASSUME TypeOK, Next
    PROVE  Frame /\ (Start \/ Effect)
<1>1. CASE Command
  BY <1>1, CommandEffect
<1>2. CASE Proceed
  <2>1. /\ Effect /\ up' \in BOOLEAN /\ queue' \subseteq queue
        /\ UNCHANGED <<disk, reply>>
    BY <1>2, ProceedEffect
  <2>. QED  BY <2>1 DEF Frame, TypeOK
<1>3. CASE Start
  BY <1>3, StartEffect
<1>4. CASE ~Command /\ ~Proceed /\ ~Start
  BY <1>4, OtherEffect DEF Effect
<1>. QED  BY <1>1, <1>2, <1>3, <1>4

-----------------------------------------------------------------------------
(* Types, and plugins that get lost: for any keys.                         *)

\* What is left when a plugin is erased.
LEMMA LeftFacts ==
    ASSUME TypeOK, NEW key, NEW i \in LoadedFor(key)
    PROVE  /\ i \in DOMAIN scripts /\ KeyOf[scripts[i].file] = key
           /\ Without(i) \in Seq(Vm) /\ failures \ {key} \in SUBSET Keys
BY LoadedForFacts, WithoutFacts DEF TypeOK, KeyAt

LEMMA EffectTypes ==
    ASSUME TypeOK, Effect
    PROVE  /\ scripts' \in Seq(Vm) /\ failures' \subseteq Keys
           /\ DOMAIN cache' \subseteq Keys /\ \A k \in DOMAIN cache' : cache'[k] \in Names
<1>1. /\ scripts \in Seq(Vm) /\ failures \in SUBSET Keys
      /\ DOMAIN cache \subseteq Keys /\ \A k \in DOMAIN cache : cache[k] \in Names
  BY DEF TypeOK
<1>2. CASE Nothing \/ ForgetsFailure
  BY <1>1, <1>2 DEF Nothing, ForgetsFailure
<1>3. CASE DisablesOne
  <2>1. PICK i \in DOMAIN scripts : scripts' = [scripts EXCEPT ![i].disabled = TRUE]
    BY <1>3 DEF DisablesOne
  <2>2. scripts[i] \in Vm
    BY <1>1, <2>1
  <2>3. [scripts[i] EXCEPT !.disabled = TRUE] \in Vm
    BY <2>2 DEF Vm
  <2>4. scripts' = [scripts EXCEPT ![i] = [scripts[i] EXCEPT !.disabled = TRUE]]
    BY <2>1
  <2>5. scripts' \in Seq(Vm)
    BY <1>1, <2>1, <2>3, <2>4, LenProperties, ExceptSeq
  <2>. QED  BY <1>1, <1>3, <2>5 DEF DisablesOne
<1>4. CASE LoadsOne
  <2>1. PICK f \in Files : Load(scripts, failures, f)
    BY <1>4 DEF LoadsOne
  <2>. QED  BY <1>1, <2>1, LoadTypes
<1>5. ASSUME NEW q \in Names, Drops(q)
      PROVE  scripts' \in Seq(Vm) /\ failures' \subseteq Keys /\ cache' = cache
  BY <1>5, LeftFacts DEF Drops
<1>6. ASSUME NEW q \in Names, Replaces(q)
      PROVE  /\ scripts' \in Seq(Vm) /\ failures' \subseteq Keys
             /\ DOMAIN cache' \subseteq Keys /\ \A k \in DOMAIN cache' : cache'[k] \in Names
  <2>1. PICK f \in DOMAIN disk : \E i \in LoadedFor(KeyOf[f]) :
          Load(Without(i), failures \ {KeyOf[f]}, f)
    BY <1>6 DEF Replaces
  <2>2. PICK i \in LoadedFor(KeyOf[f]) : Load(Without(i), failures \ {KeyOf[f]}, f)
    BY <2>1
  <2>3. f \in Files
    BY DEF TypeOK
  <2>4. Without(i) \in Seq(Vm) /\ failures \ {KeyOf[f]} \in SUBSET Keys
    BY LeftFacts
  <2>. QED  BY <2>2, <2>3, <2>4, LoadTypes
<1>. QED  BY <1>1, <1>2, <1>3, <1>4, <1>5, <1>6 DEF Effect

LEMMA InitTypes ==
    ASSUME Init
    PROVE  TypeOK
<1>1. PICK D \in SUBSET Files : disk \in [D -> Contents]
  BY DEF Init
<1>2. DOMAIN disk \subseteq Files /\ \A f \in DOMAIN disk : disk[f] \in Contents
  BY <1>1
<1>3. scripts \in Seq(Vm) /\ DOMAIN cache = {}
  BY DEF Init
<1>4. reply \in Reply
  BY DEF Init, Reply
<1>. QED  BY <1>2, <1>3, <1>4 DEF Init, TypeOK

LEMMA StepTypes ==
    ASSUME TypeOK, [Next]_vars
    PROVE  TypeOK'
<1>1. CASE UNCHANGED vars
  BY <1>1 DEF vars, TypeOK
<1>2. CASE Next
  <2>1. Frame /\ (Start \/ Effect)
    BY <1>2, StepEffect
  <2>2. /\ scripts' \in Seq(Vm) /\ failures' \subseteq Keys
        /\ DOMAIN cache' \subseteq Keys /\ \A k \in DOMAIN cache' : cache'[k] \in Names
    <3>1. CASE Start
      <4>1. scripts' = <<>> /\ failures' = {} /\ cache' = <<>>
        BY <3>1, StartEffect
      <4>2. DOMAIN cache' = {}
        BY <4>1
      <4>. QED  BY <4>1, <4>2
    <3>. QED  BY <2>1, <3>1, EffectTypes
  <2>. QED  BY <2>1, <2>2 DEF TypeOK, Frame
<1>. QED  BY <1>1, <1>2

\* The state is well typed: in particular a listed plugin always has a name,
\* declared or from its key, and only keys of packages are in the failures and
\* in the cache.
THEOREM TypeCorrect == Spec => []TypeOK
<1>. QED  BY InitTypes, StepTypes, PTL DEF Spec

LEMMA FailureOrLoad ==
    ASSUME TypeOK, NEW S \in Seq(Vm), NEW F \in SUBSET Keys, NEW f \in Files,
           Load(S, F, f)
    PROVE  \/ scripts' = scripts
           \/ KeysOf(S) \subseteq LoadedKeys' /\ KeyOf[f] \in LoadedKeys' \cup failures'
<1>1. LoadedKeys' = {KeyOf[scripts'[i].file] : i \in DOMAIN scripts'}
  BY DEF LoadedKeys, KeyAt
<1>2. CASE FailsTo(S, F, f)
  BY <1>1, <1>2 DEF KeysOf, FailsTo
<1>3. CASE SucceedsTo(S, F, f)
  <2>1. \A j \in DOMAIN S : j \in DOMAIN scripts' /\ scripts'[j] = S[j]
    BY <1>3, AppendFacts DEF SucceedsTo
  <2>2. \E j \in DOMAIN scripts' : scripts'[j] = NewVm(f)
    BY <1>3, AppendFacts DEF SucceedsTo
  <2>3. NewVm(f).file = f
    BY DEF NewVm
  <2>. QED  BY <1>1, <2>1, <2>2, <2>3 DEF KeysOf
<1>. QED  BY <1>2, <1>3, LoadOutcome DEF AbortsTo

LEMMA LossStep ==
    ASSUME TypeOK, [Next]_vars, reply'.action # "start", NEW key \in LoadedKeys
    PROVE  \/ key \in LoadedKeys' \cup failures'
           \/ reply'.action = "unload" /\ reply'.key = key
<1>1. PICK n \in DOMAIN scripts : KeyOf[scripts[n].file] = key
  BY DEF LoadedKeys, KeyAt
<1>2. LoadedKeys' = {KeyOf[scripts'[i].file] : i \in DOMAIN scripts'}
  BY DEF LoadedKeys, KeyAt
<1>3. scripts \in Seq(Vm) /\ failures \in SUBSET Keys
  BY DEF TypeOK
<1>4. CASE scripts' = scripts
  BY <1>1, <1>2, <1>4
<1>5. CASE DisablesOne
  <2>1. PICK i \in DOMAIN scripts : scripts' = [scripts EXCEPT ![i].disabled = TRUE]
    BY <1>5 DEF DisablesOne
  <2>2. scripts[n] \in Vm
    BY <1>1, <1>3
  <2>3. n \in DOMAIN scripts' /\ scripts'[n].file = scripts[n].file
    BY <1>1, <2>1, <2>2 DEF Vm
  <2>. QED  BY <1>1, <1>2, <2>3
<1>6. CASE LoadsOne
  <2>1. PICK f \in Files : Load(scripts, failures, f)
    BY <1>6 DEF LoadsOne
  <2>2. key \in KeysOf(scripts)
    BY <1>1 DEF KeysOf
  <2>. QED  BY <1>3, <1>4, <2>1, <2>2, FailureOrLoad
<1>7. ASSUME NEW i \in DOMAIN scripts, KeyOf[scripts[i].file] # key
      PROVE  key \in KeysOf(Without(i))
  <2>1. n # i
    BY <1>1, <1>7
  <2>2. PICK j \in DOMAIN Without(i) : Without(i)[j] = scripts[n]
    BY <1>1, <1>3, <2>1, WithoutFacts
  <2>. QED  BY <1>1, <2>2 DEF KeysOf
<1>8. ASSUME NEW q \in Names, Drops(q)
      PROVE  \/ key \in LoadedKeys'
             \/ reply'.action = "unload" /\ reply'.key = key
  <2>1. PICK k \in LoadedKeys : \E i \in LoadedFor(k) :
          scripts' = Without(i) /\ reply'.action = "unload" /\ reply'.key = k
    BY <1>8 DEF Drops
  <2>2. PICK i \in LoadedFor(k) :
          scripts' = Without(i) /\ reply'.action = "unload" /\ reply'.key = k
    BY <2>1
  <2>3. CASE k # key
    <3>1. i \in DOMAIN scripts /\ KeyOf[scripts[i].file] = k
      BY LeftFacts
    <3>2. key \in KeysOf(Without(i))
      BY <1>7, <2>3, <3>1
    <3>. QED  BY <1>2, <2>2, <3>2 DEF KeysOf
  <2>. QED  BY <2>2, <2>3
<1>9. ASSUME NEW q \in Names, Replaces(q)
      PROVE  key \in LoadedKeys' \cup failures'
  <2>1. PICK f \in DOMAIN disk : \E i \in LoadedFor(KeyOf[f]) :
          Load(Without(i), failures \ {KeyOf[f]}, f)
    BY <1>9 DEF Replaces
  <2>2. PICK i \in LoadedFor(KeyOf[f]) : Load(Without(i), failures \ {KeyOf[f]}, f)
    BY <2>1
  <2>3. f \in Files
    BY DEF TypeOK
  <2>4. /\ Without(i) \in Seq(Vm) /\ failures \ {KeyOf[f]} \in SUBSET Keys
        /\ i \in DOMAIN scripts /\ KeyOf[scripts[i].file] = KeyOf[f]
    BY LeftFacts
  <2>5. \/ scripts' = scripts
        \/ KeysOf(Without(i)) \subseteq LoadedKeys' /\ KeyOf[f] \in LoadedKeys' \cup failures'
    BY <2>2, <2>3, <2>4, FailureOrLoad
  <2>6. CASE scripts' = scripts
    BY <1>1, <1>2, <2>6
  <2>7. CASE scripts' # scripts /\ KeyOf[f] # key
    BY <1>7, <2>4, <2>5, <2>7
  <2>. QED  BY <2>5, <2>6, <2>7
<1>10. CASE UNCHANGED vars
  BY <1>4, <1>10 DEF vars
<1>11. CASE Next
  <2>1. Effect
    BY <1>11, StepEffect, StartEffect
  <2>2. CASE Nothing \/ ForgetsFailure
    BY <1>4, <2>2 DEF Nothing, ForgetsFailure
  <2>. QED  BY <1>5, <1>6, <1>8, <1>9, <2>1, <2>2 DEF Effect
<1>. QED  BY <1>10, <1>11

\* A plugin is missing only after an unload of its key, or plugin_failures_
\* has its key: a refresh that fails, like every load that fails, leaves it to
\* retry.  Files that share a key do not change that.
THEOREM LossesAreKnown == Spec => LossIsAccountedFor
<1>1. TypeOK /\ [Next]_vars =>
        [reply'.action # "start" =>
           \A key \in LoadedKeys :
              \/ key \in LoadedKeys' \cup failures'
              \/ reply'.action = "unload" /\ reply'.key = key]_vars
  BY LossStep
<1>. QED  BY <1>1, TypeCorrect, PTL DEF Spec, LossIsAccountedFor

-----------------------------------------------------------------------------
(* One state for each package, under the name it declares.                 *)

\* A load of a file that none of S has.
LEMMA LoadKeepsDistinct ==
    ASSUME TypeOK, Distinct(scripts), NEW S \in Seq(Vm), Distinct(S),
           NEW F, NEW f \in Files, f \notin FilesOf(S), Load(S, F, f)
    PROVE  Distinct(scripts)'
<1>1. CASE FailsTo(S, F, f)
  BY <1>1 DEF Distinct, FailsTo
<1>2. CASE AbortsTo
  BY <1>2 DEF Distinct, AbortsTo
<1>3. CASE SucceedsTo(S, F, f)
  <2>1. NewVm(f).file = f
    BY DEF NewVm
  <2>2. Distinct(Append(S, NewVm(f)))
    BY <1>3, <2>1, AppendFacts DEF SucceedsTo
  <2>. QED  BY <1>3, <2>2 DEF Distinct, SucceedsTo
<1>. QED  BY <1>1, <1>2, <1>3, LoadOutcome

\* The cache gets the name of the new plugin, and keeps those of other keys.
LEMMA LoadKeepsCurrent ==
    ASSUME TypeOK, Current(scripts), NEW S \in Seq(Vm), Current(S),
           NEW F, NEW f \in Files, KeyOf[f] \notin KeysOf(S), Load(S, F, f)
    PROVE  Current(scripts)'
<1>1. CASE FailsTo(S, F, f)
  BY <1>1 DEF Current, FailsTo
<1>2. CASE AbortsTo
  BY <1>2 DEF Current, AbortsTo
<1>3. CASE SucceedsTo(S, F, f)
  <2>1. SUFFICES ASSUME NEW j \in DOMAIN scripts'
                 PROVE  /\ KeyOf[scripts'[j].file] \in DOMAIN cache'
                        /\ cache'[KeyOf[scripts'[j].file]] = scripts'[j].name
    BY DEF Current
  <2>2. scripts'[j] = NewVm(f) \/ (j \in DOMAIN S /\ scripts'[j] = S[j])
    BY <1>3, AppendFacts DEF SucceedsTo
  <2>3. CASE scripts'[j] = NewVm(f)
    BY <1>3, <2>3 DEF NewVm, SucceedsTo
  <2>4. CASE j \in DOMAIN S /\ scripts'[j] = S[j]
    BY <1>3, <2>4 DEF Current, KeysOf, SucceedsTo
  <2>. QED  BY <2>2, <2>3, <2>4
<1>. QED  BY <1>1, <1>2, <1>3, LoadOutcome

LEMMA KeyMeansFile ==
    ASSUME KeysAreDistinct, NEW S \in Seq(Vm), NEW f \in Files
    PROVE  f \in FilesOf(S) <=> KeyOf[f] \in KeysOf(S)
<1>1. \A j \in DOMAIN S : S[j].file \in Files
  <2>1. \A j \in DOMAIN S : S[j] \in Vm
    BY LenProperties, ElementOfSeq
  <2>. QED  BY <2>1 DEF Vm
<1>. QED  BY <1>1 DEF KeysAreDistinct, FilesOf, KeysOf

LEMMA InvMeans ==
    /\ OneStatePerPackage <=> Distinct(scripts)
    /\ CacheIsCurrent <=> Current(scripts)
    /\ LoadedFiles = FilesOf(scripts) /\ LoadedKeys = KeysOf(scripts)
BY DEF OneStatePerPackage, Distinct, CacheIsCurrent, Current, LoadedFiles, FilesOf,
       LoadedKeys, KeysOf, KeyAt

\* The plugins without the one that has a key: none has that key.
LEMMA LeftIsGood ==
    ASSUME KeysAreDistinct, TypeOK, Distinct(scripts), Current(scripts),
           NEW key, NEW i \in LoadedFor(key)
    PROVE  /\ Without(i) \in Seq(Vm) /\ Distinct(Without(i)) /\ Current(Without(i))
           /\ key \notin KeysOf(Without(i))
<1>1. /\ i \in DOMAIN scripts /\ KeyOf[scripts[i].file] = key
      /\ Without(i) \in Seq(Vm) /\ scripts \in Seq(Vm)
  BY LeftFacts DEF TypeOK
<1>2. Distinct(Without(i))
  BY <1>1, WithoutFacts
<1>3. \A j \in DOMAIN Without(i) :
        \E k \in DOMAIN scripts : k # i /\ Without(i)[j] = scripts[k]
  BY <1>1, WithoutFacts
<1>4. Current(Without(i))
  BY <1>3 DEF Current
<1>5. \A k \in DOMAIN scripts : scripts[k].file \in Files
  <2>1. \A k \in DOMAIN scripts : scripts[k] \in Vm
    BY <1>1, LenProperties, ElementOfSeq
  <2>. QED  BY <2>1 DEF Vm
<1>6. ASSUME NEW j \in DOMAIN Without(i), KeyOf[Without(i)[j].file] = key PROVE FALSE
  <2>1. PICK k \in DOMAIN scripts : k # i /\ Without(i)[j] = scripts[k]
    BY <1>3
  <2>2. scripts[k].file = scripts[i].file
    BY <1>1, <1>5, <1>6, <2>1 DEF KeysAreDistinct
  <2>. QED  BY <1>1, <2>1, <2>2 DEF Distinct
<1>. QED  BY <1>1, <1>2, <1>4, <1>6 DEF KeysOf

LEMMA EffectKeeps ==
    ASSUME KeysAreDistinct, ManagerInv, Effect
    PROVE  Distinct(scripts)' /\ Current(scripts)'
<1>1. TypeOK /\ Distinct(scripts) /\ Current(scripts)
  BY InvMeans DEF ManagerInv
<1>2. scripts \in Seq(Vm) /\ failures \in SUBSET Keys
  BY <1>1 DEF TypeOK
<1>3. CASE Nothing \/ ForgetsFailure
  BY <1>1, <1>3 DEF Nothing, ForgetsFailure, Distinct, Current
<1>4. CASE DisablesOne
  <2>1. PICK i \in DOMAIN scripts : scripts' = [scripts EXCEPT ![i].disabled = TRUE]
    BY <1>4 DEF DisablesOne
  <2>2. \A j \in DOMAIN scripts : scripts[j] \in Vm
    BY <1>2, LenProperties, ElementOfSeq
  <2>3. DOMAIN scripts' = DOMAIN scripts /\ \A j \in DOMAIN scripts :
          scripts'[j].file = scripts[j].file /\ scripts'[j].name = scripts[j].name
    BY <2>1, <2>2 DEF Vm
  <2>4. cache' = cache
    BY <1>4 DEF DisablesOne
  <2>. QED  BY <1>1, <2>3, <2>4 DEF Distinct, Current
<1>5. CASE LoadsOne
  <2>1. PICK f \in Files :
          /\ KeyOf[f] \notin LoadedKeys \/ (f \in Queued /\ f \notin Queued')
          /\ Load(scripts, failures, f)
    BY <1>5 DEF LoadsOne
  <2>2. KeyOf[f] \notin KeysOf(scripts)
    <3>1. CASE f \in Queued
      <4>1. f \notin FilesOf(scripts)
        BY <3>1, InvMeans DEF ManagerInv, QueueIsAhead
      <4>. QED  BY <1>2, <4>1, KeyMeansFile
    <3>. QED  BY <2>1, <3>1, InvMeans
  <2>3. f \notin FilesOf(scripts)
    BY <1>2, <2>2, KeyMeansFile
  <2>. QED  BY <1>1, <1>2, <2>1, <2>2, <2>3, LoadKeepsDistinct, LoadKeepsCurrent
<1>6. ASSUME NEW q \in Names, Drops(q) PROVE Distinct(scripts)' /\ Current(scripts)'
  <2>1. PICK k \in LoadedKeys : \E i \in LoadedFor(k) : scripts' = Without(i) /\ cache' = cache
    BY <1>6 DEF Drops
  <2>2. PICK i \in LoadedFor(k) : scripts' = Without(i) /\ cache' = cache
    BY <2>1
  <2>3. Distinct(Without(i)) /\ Current(Without(i))
    BY <1>1, LeftIsGood
  <2>. QED  BY <2>2, <2>3 DEF Distinct, Current
<1>7. ASSUME NEW q \in Names, Replaces(q) PROVE Distinct(scripts)' /\ Current(scripts)'
  <2>1. PICK f \in DOMAIN disk : \E i \in LoadedFor(KeyOf[f]) :
          Load(Without(i), failures \ {KeyOf[f]}, f)
    BY <1>7 DEF Replaces
  <2>2. PICK i \in LoadedFor(KeyOf[f]) : Load(Without(i), failures \ {KeyOf[f]}, f)
    BY <2>1
  <2>3. f \in Files
    BY <1>1 DEF TypeOK
  <2>4. /\ Without(i) \in Seq(Vm) /\ Distinct(Without(i)) /\ Current(Without(i))
        /\ KeyOf[f] \notin KeysOf(Without(i))
    BY <1>1, LeftIsGood
  <2>5. f \notin FilesOf(Without(i))
    BY <2>3, <2>4, KeyMeansFile
  <2>6. failures \ {KeyOf[f]} \in SUBSET Keys
    BY <1>2
  <2>. QED  BY <1>1, <2>2, <2>3, <2>4, <2>5, <2>6, LoadKeepsDistinct, LoadKeepsCurrent
<1>. QED  BY <1>3, <1>4, <1>5, <1>6, <1>7 DEF Effect

\* What load_plugins has yet to load, it has not loaded.
LEMMA QueueStep ==
    ASSUME KeysAreDistinct, ManagerInv, Next
    PROVE  QueueIsAhead'
<1>1. TypeOK /\ QueueIsAhead
  BY DEF ManagerInv
<1>2. CASE Command
  <2>1. Queued' = {}
    BY <1>1, <1>2, CommandEffect
  <2>. QED  BY <2>1 DEF QueueIsAhead
<1>3. CASE Start
  <2>1. scripts' = <<>> /\ \A step \in queue' : step.do = "load"
    BY <1>1, <1>3, StartEffect
  <2>2. LoadedFiles' = {}
    BY <2>1 DEF LoadedFiles
  <2>. QED  BY <2>1, <2>2 DEF QueueIsAhead
<1>4. CASE Proceed
  <2>1. PICK step \in queue :
          /\ queue' = queue \ {step}
          /\ ProceedLoad(step) \/ ProceedRetry(step)
    BY <1>4 DEF Proceed
  <2>2. Queued' \subseteq Queued
    BY <2>1 DEF Queued
  <2>3. CASE ProceedRetry(step)
    <3>1. step.do # "load"
      BY <2>3 DEF ProceedRetry
    <3>2. Queued = {}
      BY <1>1, <2>1, <3>1 DEF QueueIsAhead
    <3>. QED  BY <2>2, <3>2 DEF QueueIsAhead
  <2>4. CASE ProceedLoad(step)
    <3>1. /\ step.do = "load" /\ step.file \in Queued
          /\ Load(scripts, failures, step.file)
      BY <2>4 DEF ProceedLoad, FirstOf
    <3>2. step \in Step /\ scripts \in Seq(Vm) /\ failures \in SUBSET Keys /\ queue \subseteq Step
      BY <1>1, <2>1 DEF TypeOK
    <3>3. step.file \in Files /\ step = [do |-> "load", file |-> step.file]
      BY <3>1, <3>2 DEF Step
    <3>4. step.file \notin Queued'
      <4>1. ASSUME NEW s \in queue, s # step, s.do = "load" PROVE s.file # step.file
        <5>1. s = [do |-> "load", file |-> s.file]
          BY <3>2, <4>1 DEF Step
        <5>. QED  BY <3>3, <4>1, <5>1
      <4>. QED  BY <2>1, <4>1 DEF Queued
    <3>5. LoadedFiles' \subseteq LoadedFiles \cup {step.file}
      <4>1. CASE scripts' = scripts
        BY <4>1 DEF LoadedFiles
      <4>2. CASE SucceedsTo(scripts, failures, step.file)
        <5>1. \A j \in DOMAIN scripts' :
                scripts'[j] = NewVm(step.file) \/ (j \in DOMAIN scripts /\ scripts'[j] = scripts[j])
          BY <3>2, <4>2, AppendFacts DEF SucceedsTo
        <5>2. NewVm(step.file).file = step.file
          BY DEF NewVm
        <5>. QED  BY <5>1, <5>2 DEF LoadedFiles
      <4>. QED  BY <1>1, <3>1, <3>3, <4>1, <4>2, LoadOutcome DEF FailsTo, AbortsTo
    <3>6. Queued' # {} => \A s \in queue' : s.do = "load"
      BY <1>1, <2>1, <2>2 DEF QueueIsAhead
    <3>7. Queued' \cap LoadedFiles' = {}
      BY <1>1, <2>2, <3>4, <3>5 DEF QueueIsAhead
    <3>. QED  BY <3>6, <3>7 DEF QueueIsAhead
  <2>. QED  BY <2>1, <2>3, <2>4
<1>5. CASE ~Command /\ ~Proceed /\ ~Start
  <2>1. queue' = queue /\ (Nothing \/ DisablesOne)
    BY <1>1, <1>5, OtherEffect
  <2>2. LoadedFiles' \subseteq LoadedFiles
    <3>1. CASE Nothing
      BY <3>1 DEF Nothing, LoadedFiles
    <3>2. CASE DisablesOne
      <4>1. PICK i \in DOMAIN scripts : scripts' = [scripts EXCEPT ![i].disabled = TRUE]
        BY <3>2 DEF DisablesOne
      <4>2. \A j \in DOMAIN scripts : scripts[j] \in Vm
        BY <1>1, LenProperties, ElementOfSeq DEF TypeOK
      <4>3. DOMAIN scripts' = DOMAIN scripts
            /\ \A j \in DOMAIN scripts : scripts'[j].file = scripts[j].file
        BY <4>1, <4>2 DEF Vm
      <4>. QED  BY <4>3 DEF LoadedFiles
    <3>. QED  BY <2>1, <3>1, <3>2
  <2>3. Queued' = Queued
    BY <2>1 DEF Queued
  <2>. QED  BY <1>1, <2>1, <2>2, <2>3 DEF QueueIsAhead
<1>. QED  BY <1>2, <1>3, <1>4, <1>5

LEMMA InitInv == Init => ManagerInv
<1>1. SUFFICES ASSUME Init PROVE ManagerInv
  OBVIOUS
<1>2. TypeOK
  BY <1>1, InitTypes
<1>3. scripts = <<>> /\ queue = {}
  BY <1>1 DEF Init
<1>4. DOMAIN scripts = {}
  BY <1>3
<1>. QED  BY <1>2, <1>3, <1>4 DEF ManagerInv, OneStatePerPackage, CacheIsCurrent,
          QueueIsAhead, Queued

LEMMA StepInv ==
    ASSUME KeysAreDistinct, ManagerInv, [Next]_vars
    PROVE  ManagerInv'
<1>1. TypeOK'
  BY StepTypes DEF ManagerInv
<1>2. CASE UNCHANGED vars
  BY <1>1, <1>2 DEF vars, ManagerInv, OneStatePerPackage, CacheIsCurrent, KeyAt,
     QueueIsAhead, Queued, LoadedFiles
<1>3. CASE Next
  <2>1. OneStatePerPackage' /\ CacheIsCurrent'
    <3>1. CASE Start
      <4>1. scripts' = <<>>
        BY <3>1, StartEffect DEF ManagerInv
      <4>2. DOMAIN scripts' = {}
        BY <4>1
      <4>. QED  BY <4>2 DEF OneStatePerPackage, CacheIsCurrent
    <3>2. CASE Effect
      <4>1. Distinct(scripts)' /\ Current(scripts)'
        BY <3>2, EffectKeeps
      <4>. QED  BY <4>1 DEF OneStatePerPackage, Distinct, CacheIsCurrent, Current, KeyAt
    <3>. QED  BY <1>3, <3>1, <3>2, StepEffect DEF ManagerInv
  <2>2. QueueIsAhead'
    BY <1>3, QueueStep
  <2>. QED  BY <1>1, <2>1, <2>2 DEF ManagerInv
<1>. QED  BY <1>2, <1>3

\* The inductive invariant, for file stems that normalise to keys of their own.
THEOREM Invariance == KeysAreDistinct => (Spec => []ManagerInv)
<1>1. SUFFICES ASSUME KeysAreDistinct PROVE Spec => []ManagerInv
  OBVIOUS
<1>2. ManagerInv /\ [Next]_vars => ManagerInv'
  BY <1>1, StepInv
<1>. QED  BY <1>2, InitInv, PTL DEF Spec

\* No sequence of starts, loads, retries and refreshes loads a package a second
\* time, when no two stems normalise to one key.
THEOREM OneState == KeysAreDistinct => (Spec => []OneStatePerPackage)
<1>1. ManagerInv => OneStatePerPackage
  BY DEF ManagerInv
<1>. QED  BY <1>1, Invariance, PTL

\* plugin_metadata_cache_ has the name of every loaded plugin, also when its
\* package was replaced by one that declares another name.
THEOREM CacheFollowsPlugins == KeysAreDistinct => (Spec => []CacheIsCurrent)
<1>1. ManagerInv => CacheIsCurrent
  BY DEF ManagerInv
<1>. QED  BY <1>1, Invariance, PTL

\* The one plugin a command can erase is known by what the command asked for.
LEMMA TargetIsKnown ==
    ASSUME KeysAreDistinct, ManagerInv, NEW q, NEW i \in DOMAIN scripts,
           Matches(q) = {KeyAt(i)}
    PROVE  q \in {KeyAt(i), scripts[i].name}
<1>1. \A j \in DOMAIN scripts : scripts[j].file \in Files
  <2>1. \A j \in DOMAIN scripts : scripts[j] \in Vm
    BY LenProperties, ElementOfSeq DEF ManagerInv, TypeOK
  <2>. QED  BY <2>1 DEF Vm
<1>2. KeyAt(i) \in Matches(q)
  OBVIOUS
<1>3. CASE \E j \in DOMAIN scripts : KeyAt(j) = KeyAt(i) /\ q \in {KeyAt(j), scripts[j].name}
  <2>1. PICK j \in DOMAIN scripts : KeyAt(j) = KeyAt(i) /\ q \in {KeyAt(j), scripts[j].name}
    BY <1>3
  <2>2. j = i
    BY <1>1, <2>1 DEF KeysAreDistinct, KeyAt, ManagerInv, OneStatePerPackage
  <2>. QED  BY <2>1, <2>2
<1>4. CASE \E f \in PackagesFor(q) : KeyOf[f] = KeyAt(i)
  BY <1>4 DEF PackagesFor
<1>5. CASE KeyAt(i) \in DOMAIN cache /\ q \in {KeyAt(i), cache[KeyAt(i)]}
  BY <1>5 DEF ManagerInv, CacheIsCurrent
<1>. QED  BY <1>2, <1>3, <1>4, <1>5 DEF Matches

LEMMA TargetStep ==
    ASSUME KeysAreDistinct, ManagerInv, [Next]_vars, reply'.action # "start",
           NEW n \in DOMAIN scripts, scripts[n].file \notin LoadedFiles'
    PROVE  reply'.query \in {KeyAt(n), scripts[n].name}
<1>1. TypeOK /\ scripts \in Seq(Vm) /\ failures \in SUBSET Keys
  BY DEF ManagerInv, TypeOK
<1>2. LoadedFiles' = {scripts'[i].file : i \in DOMAIN scripts'}
  BY DEF LoadedFiles
<1>3. scripts' # scripts
  BY <1>2
<1>4. ~DisablesOne
  <2>1. ASSUME DisablesOne PROVE FALSE
    <3>1. PICK i \in DOMAIN scripts : scripts' = [scripts EXCEPT ![i].disabled = TRUE]
      BY <2>1 DEF DisablesOne
    <3>2. scripts[n] \in Vm
      BY <1>1
    <3>3. n \in DOMAIN scripts' /\ scripts'[n].file = scripts[n].file
      BY <3>1, <3>2 DEF Vm
    <3>. QED  BY <1>2, <3>3
  <2>. QED  BY <2>1
<1>5. ASSUME NEW S \in Seq(Vm), NEW F, NEW f \in Files, Load(S, F, f)
      PROVE  scripts[n].file \notin FilesOf(S)
  <2>1. CASE scripts' = S
    BY <1>2, <2>1 DEF FilesOf
  <2>2. CASE SucceedsTo(S, F, f)
    <3>1. \A j \in DOMAIN S : j \in DOMAIN scripts' /\ scripts'[j] = S[j]
      BY <2>2, AppendFacts DEF SucceedsTo
    <3>. QED  BY <1>2, <3>1 DEF FilesOf
  <2>. QED  BY <1>1, <1>3, <1>5, <2>1, <2>2, LoadOutcome DEF FailsTo, AbortsTo
<1>6. ASSUME NEW i \in DOMAIN scripts, i # n PROVE scripts[n].file \in FilesOf(Without(i))
  <2>1. PICK j \in DOMAIN Without(i) : Without(i)[j] = scripts[n]
    BY <1>1, <1>6, WithoutFacts
  <2>. QED  BY <2>1 DEF FilesOf
<1>7. ~LoadsOne
  <2>1. ASSUME LoadsOne PROVE FALSE
    <3>1. PICK f \in Files : Load(scripts, failures, f)
      BY <2>1 DEF LoadsOne
    <3>2. scripts[n].file \notin FilesOf(scripts)
      BY <1>1, <1>5, <3>1
    <3>. QED  BY <3>2 DEF FilesOf
  <2>. QED  BY <2>1
<1>8. ASSUME NEW q \in Names, Drops(q) PROVE reply'.query \in {KeyAt(n), scripts[n].name}
  <2>1. PICK k \in LoadedKeys : \E i \in LoadedFor(k) :
          Matches(q) = {k} /\ scripts' = Without(i) /\ reply'.query = q
    BY <1>8 DEF Drops
  <2>2. PICK i \in LoadedFor(k) : scripts' = Without(i)
    BY <2>1
  <2>3. i \in DOMAIN scripts /\ KeyAt(i) = k
    BY <1>1, LoadedForFacts
  <2>4. i = n
    <3>1. LoadedFiles' = FilesOf(Without(i))
      BY <1>2, <2>2 DEF FilesOf
    <3>. QED  BY <1>6, <2>3, <3>1
  <2>. QED  BY <2>1, <2>3, <2>4, TargetIsKnown
<1>9. ASSUME NEW q \in Names, Replaces(q) PROVE reply'.query \in {KeyAt(n), scripts[n].name}
  <2>1. PICK f \in DOMAIN disk : \E i \in LoadedFor(KeyOf[f]) :
          /\ Matches(q) = {KeyOf[f]} /\ Load(Without(i), failures \ {KeyOf[f]}, f)
          /\ reply'.query = q
    BY <1>3, <1>9 DEF Replaces
  <2>2. PICK i \in LoadedFor(KeyOf[f]) : Load(Without(i), failures \ {KeyOf[f]}, f)
    BY <2>1
  <2>3. /\ i \in DOMAIN scripts /\ KeyAt(i) = KeyOf[f] /\ f \in Files
        /\ Without(i) \in Seq(Vm) /\ failures \ {KeyOf[f]} \in SUBSET Keys
    BY <1>1, LoadedForFacts, LeftFacts DEF TypeOK
  <2>4. i = n
    BY <1>5, <1>6, <2>2, <2>3
  <2>. QED  BY <2>1, <2>3, <2>4, TargetIsKnown
<1>10. CASE UNCHANGED vars
  BY <1>3, <1>10 DEF vars
<1>11. CASE Next
  <2>1. Effect
    BY <1>1, <1>11, StepEffect, StartEffect
  <2>2. ~Nothing /\ ~ForgetsFailure
    BY <1>3 DEF Nothing, ForgetsFailure
  <2>. QED  BY <1>4, <1>7, <1>8, <1>9, <2>1, <2>2 DEF Effect
<1>. QED  BY <1>10, <1>11

\* Whatever names plugins share and whatever the cache remembers of packages
\* long gone, unload and refresh take away only the plugin that has the key or
\* the declared name the operator wrote.
THEOREM CommandsHitTheirTarget == KeysAreDistinct => (Spec => CommandsStayOnTarget)
<1>1. SUFFICES ASSUME KeysAreDistinct PROVE Spec => CommandsStayOnTarget
  OBVIOUS
<1>2. ManagerInv /\ [Next]_vars =>
        [reply'.action # "start" =>
           \A i \in DOMAIN scripts :
              scripts[i].file \notin LoadedFiles' =>
                  reply'.query \in {KeyAt(i), scripts[i].name}]_vars
  BY <1>1, TargetStep
<1>3. Spec => []ManagerInv
  BY <1>1, Invariance
<1>. QED  BY <1>2, <1>3, PTL DEF Spec, CommandsStayOnTarget
=============================================================================
