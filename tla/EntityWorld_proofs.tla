------------------------- MODULE EntityWorld_proofs -------------------------
(***************************************************************************)
(* Proofs about EntityWorld, for any indexes, slots and classes, and any    *)
(* number of entities, calls and removals in progress.                      *)
(***************************************************************************)
EXTENDS EntityWorld, SequenceTheorems, FiniteSetTheorems, WellFoundedInduction, TLAPS

\* The entity of a handle is there, in some world e.
LiveIn(h, e) == e[h[1]] # None /\ e[h[1]].serial = h[2]

\* What a call has set by the place it has come to.
Fits(f) ==
    /\ f.do \in {"remove", "removeclass", "replace"} => f.slot \in Slots
    /\ f.do = "remove" => f.w \in Handle
    /\ f.do \in {"create", "grenade"} => f.new \in Handle
    /\ f.at \in {"giving", "selecting", "rollback"} => f.new \in Handle
    /\ f.at = "removing" => f.i > 0

\* The weapon that a call removes and the entity it makes are there.
PointsWell(f, e) == \A h \in {f.w, f.new} \ {None} : LiveIn(h, e)

GoodCall(f, e) == f \in Call /\ Fits(f) /\ PointsWell(f, e)
GoodStack(s, e) == s \in Seq(Call) /\ \A k \in 1..Len(s) : GoodCall(s[k], e)

\* The handles that a player has, in some world.
Held(v, a, l, s) == ToSet(v[s]) \cup {a[s], l[s]}
HandsTyped(v, a, l) ==
    /\ v \in [Slots -> Seq(Handle)]
    /\ a \in [Slots -> Handle \cup {None}]
    /\ l \in [Slots -> Handle \cup {None}]

\* No player has a handle of what weapon_remove has deleted for him.
Forgotten(e, v, a, l) ==
    \A s \in Slots : \A h \in Held(v, a, l, s) \cap Handle :
        LiveIn(h, e) => e[h[1]].mark # s

\* The inductive invariant.
WorldInv ==
    /\ ents \in [Index -> Entity \cup {None}]
    /\ serials \in [Index -> Nat]
    /\ HandsTyped(inv, active, last)
    /\ GoodStack(stack, ents)
    /\ Forgotten(ents, inv, active, last)
    /\ result \in {"ok", "failed", "raised", None}

-----------------------------------------------------------------------------
(* Kept, by induction over the positions of its loop.                      *)

\* Strict inclusion of finite sets is well-founded, and so is the order of numbers.
LEMMA LeastNumber ==
    ASSUME NEW T \in SUBSET Nat, T # {}
    PROVE  \E n \in T : \A m \in T : n <= m
<1>. DEFINE Below == {0..n : n \in T}
<1>1. Below \subseteq FiniteSubsetsOf(Nat)
  <2>1. SUFFICES ASSUME NEW n \in T PROVE 0..n \in FiniteSubsetsOf(Nat)
    OBVIOUS
  <2>2. IsFiniteSet(0..n) /\ 0..n \subseteq Nat
    BY FS_Interval
  <2>. QED  BY <2>2 DEF FiniteSubsetsOf
<1>2. Below # {}
  OBVIOUS
<1>3. PICK B \in Below : \A C \in Below : <<C, B>> \notin StrictSubsetOrdering(Nat)
  <2>. HIDE DEF Below
  <2>. QED  BY <1>1, <1>2, FS_StrictSubsetOrderingWellFounded, WFMin
<1>4. PICK n \in T : B = 0..n
  OBVIOUS
<1>5. ASSUME NEW m \in T, m < n PROVE FALSE
  <2>1. 0..m \in Below /\ 0..n \in Below
    OBVIOUS
  <2>2. 0..m \subseteq 0..n /\ n \in 0..n /\ n \notin 0..m
    BY <1>5
  <2>3. 0..m \in SUBSET Nat /\ 0..n \in SUBSET Nat /\ 0..m # 0..n
    BY <2>2
  <2>4. <<0..m, 0..n>> \in StrictSubsetOrdering(Nat)
    BY <2>2, <2>3 DEF StrictSubsetOrdering
  <2>. QED  BY <1>3, <1>4, <2>1, <2>4
<1>. QED  BY <1>5

\* Induction up to a bound, over a set.
LEMMA UpTo ==
    ASSUME NEW n \in Nat, NEW T, 0 \in T, \A k \in 0..(n - 1) : k \in T => k + 1 \in T
    PROVE  0..n \subseteq T
<1>1. SUFFICES ASSUME (0..n) \ T # {} PROVE FALSE
  OBVIOUS
<1>2. (0..n) \ T \in SUBSET Nat
  OBVIOUS
<1>3. PICK k \in (0..n) \ T : \A m \in (0..n) \ T : k <= m
  BY <1>1, <1>2, LeastNumber
<1>4. k # 0 /\ k - 1 \in 0..(n - 1) /\ k - 1 \in 0..n
  OBVIOUS
<1>5. k - 1 \in T
  BY <1>3, <1>4
<1>6. (k - 1) + 1 \in T
  BY <1>4, <1>5
<1>. QED  BY <1>3, <1>6

\* f is the loop of Kept.
KeptBy(f, s, K) ==
    f = [n \in 0..Len(s) |->
           IF n = 0 THEN <<>>
           ELSE IF s[n] \in K THEN Append(f[n - 1], s[n]) ELSE f[n - 1]]

\* The loop that Kept is: what it has kept when it has come to n.
LEMMA KeptLoop ==
    ASSUME NEW S, NEW s \in Seq(S), NEW K
    PROVE  \E f \in [0..Len(s) -> Seq(S)] : KeptBy(f, s, K)
<1>. DEFINE N == Len(s)
            Ext(f, n) == IF s[n] \in K THEN Append(f[n - 1], s[n]) ELSE f[n - 1]
            Good(f, n) == f[0] = <<>> /\ \A m \in 1..n : f[m] = Ext(f, m)
            T == {n \in 0..N : \E f \in [0..N -> Seq(S)] : Good(f, n)}
<1>1. N \in Nat /\ \A n \in 1..N : s[n] \in S
  BY LenProperties, ElementOfSeq
<1>2. 0 \in T
  <2>1. [n \in 0..N |-> <<>>] \in [0..N -> Seq(S)]
    OBVIOUS
  <2>2. Good([n \in 0..N |-> <<>>], 0)
    BY <1>1
  <2>. HIDE DEF Good
  <2>3. \E f \in [0..N -> Seq(S)] : Good(f, 0)
    BY <2>1, <2>2
  <2>. QED  BY <1>1, <2>3
<1>3. ASSUME NEW k \in 0..(N - 1), k \in T PROVE k + 1 \in T
  <2>1. PICK f \in [0..N -> Seq(S)] : Good(f, k)
    BY <1>3
  <2>2. k + 1 \in 1..N /\ k \in 0..N
    BY <1>1
  <2>. DEFINE g == [f EXCEPT ![k + 1] = Ext(f, k + 1)]
  <2>3. Ext(f, k + 1) \in Seq(S)
    <3>1. f[(k + 1) - 1] \in Seq(S)
      BY <2>2
    <3>2. s[k + 1] \in S
      BY <1>1, <2>2
    <3>. QED  BY <3>1, <3>2, AppendProperties
  <2>4. /\ g \in [0..N -> Seq(S)] /\ g[k + 1] = Ext(f, k + 1)
        /\ \A m \in 0..N : m # k + 1 => g[m] = f[m]
    <3>. HIDE DEF Ext
    <3>. QED  BY <2>2, <2>3
  <2>. HIDE DEF g
  <2>5. g[0] = <<>>
    BY <1>1, <2>1, <2>4
  <2>6. ASSUME NEW m \in 1..(k + 1) PROVE g[m] = Ext(g, m)
    <3>1. m - 1 \in 0..N /\ m - 1 # k + 1 /\ m \in 0..N
      BY <1>1, <2>2
    <3>2. g[m - 1] = f[m - 1]
      BY <2>4, <3>1
    <3>3. f[m] = Ext(f, m) \/ m = k + 1
      BY <2>1
    <3>. QED  BY <2>4, <3>1, <3>2, <3>3
  <2>7. Good(g, k + 1)
    BY <2>5, <2>6
  <2>. HIDE DEF Good
  <2>. QED  BY <1>1, <2>2, <2>4, <2>7
<1>4. N \in T
  <2>. HIDE DEF T
  <2>1. 0..N \subseteq T
    BY <1>1, <1>2, <1>3, UpTo
  <2>. QED  BY <1>1, <2>1
<1>5. PICK f \in [0..N -> Seq(S)] : Good(f, N)
  BY <1>4
<1>6. f = [n \in 0..N |-> IF n = 0 THEN <<>> ELSE Ext(f, n)]
  <2>1. ASSUME NEW n \in 0..N PROVE f[n] = IF n = 0 THEN <<>> ELSE Ext(f, n)
    <3>1. n = 0 \/ n \in 1..N
      BY <1>1
    <3>. QED  BY <1>5, <3>1
  <2>. HIDE DEF Ext
  <2>. QED  BY <2>1
<1>. QED  BY <1>6 DEF KeptBy

\* Kept, one position after the other.
LoopOf(f, s, K, S) ==
    /\ f[0] = <<>> /\ Kept(s, K) = f[Len(s)]
    /\ \A n \in 0..Len(s) : f[n] \in Seq(S)
    /\ \A n \in 1..Len(s) :
         f[n] = IF s[n] \in K THEN Append(f[n - 1], s[n]) ELSE f[n - 1]

LEMMA KeptSteps ==
    ASSUME NEW S, NEW s \in Seq(S), NEW K
    PROVE  \E f : LoopOf(f, s, K, S)
<1>. DEFINE N == Len(s)
            kept == CHOOSE f : KeptBy(f, s, K)
            Step(n) == IF n = 0 THEN <<>>
                       ELSE IF s[n] \in K THEN Append(kept[n - 1], s[n]) ELSE kept[n - 1]
<1>1. N \in Nat /\ \A n \in 1..N : s[n] \in S
  BY LenProperties, ElementOfSeq
<1>2. KeptBy(kept, s, K)
  BY KeptLoop
<1>3. Kept(s, K) = kept[N]
  BY DEF Kept, KeptBy
<1>. HIDE DEF kept
<1>4. kept = [n \in 0..N |-> Step(n)]
  BY <1>2 DEF KeptBy
<1>5. \A n \in 0..N : kept[n] = Step(n)
  <2>. HIDE DEF Step
  <2>. QED  BY <1>4
<1>6. kept[0] = <<>>
  <2>1. Step(0) = <<>>
    OBVIOUS
  <2>2. 0 \in 0..N
    BY <1>1
  <2>. HIDE DEF Step
  <2>. QED  BY <1>5, <2>1, <2>2
<1>7. ASSUME NEW n \in 1..N
      PROVE  kept[n] = IF s[n] \in K THEN Append(kept[n - 1], s[n]) ELSE kept[n - 1]
  <2>1. n \in 0..N /\ n # 0
    BY <1>1
  <2>2. kept[n] = Step(n)
    BY <1>5, <2>1
  <2>. QED  BY <2>1, <2>2
<1>. DEFINE T == {n \in 0..N : kept[n] \in Seq(S)}
<1>8. 0 \in T
  <2>1. <<>> \in Seq(S)
    BY EmptySeq
  <2>2. kept[0] \in Seq(S) /\ 0 \in 0..N
    BY <1>1, <1>6, <2>1
  <2>. QED  BY <2>2
<1>9. ASSUME NEW k \in 0..(N - 1), k \in T PROVE k + 1 \in T
  <2>. DEFINE q == kept[k]
  <2>1. k + 1 \in 1..N /\ (k + 1) - 1 = k /\ k + 1 \in 0..N
    BY <1>1
  <2>2. kept[k + 1] = IF s[k + 1] \in K THEN Append(q, s[k + 1]) ELSE q
    BY <1>7, <2>1
  <2>3. q \in Seq(S) /\ s[k + 1] \in S
    BY <1>1, <1>9, <2>1
  <2>. HIDE DEF q
  <2>4. Append(q, s[k + 1]) \in Seq(S)
    BY <2>3, AppendProperties
  <2>. QED  BY <2>1, <2>2, <2>3, <2>4
<1>10. 0..N \subseteq T
  <2>. HIDE DEF T
  <2>. QED  BY <1>1, <1>8, <1>9, UpTo
<1>11. \A n \in 0..N : kept[n] \in Seq(S)
  BY <1>10
<1>12. LoopOf(kept, s, K, S)
  BY <1>3, <1>6, <1>7, <1>11 DEF LoopOf
<1>. QED  BY <1>12

LEMMA KeptEmpty == \A K : Kept(<<>>, K) = <<>>
<1>. TAKE K
<1>. DEFINE s == <<>>
<1>1. s \in Seq({}) /\ Len(s) = 0
  BY EmptySeq
<1>. HIDE DEF s
<1>2. PICK f : LoopOf(f, s, K, {})
  BY <1>1, KeptSteps
<1>3. Kept(s, K) = <<>>
  BY <1>1, <1>2 DEF LoopOf
<1>. QED  BY <1>3 DEF s

\* Kept, one element after the other.
LEMMA KeptAppend ==
    ASSUME NEW S, NEW s \in Seq(S), NEW h \in S, NEW K
    PROVE  Kept(Append(s, h), K) = IF h \in K THEN Append(Kept(s, K), h) ELSE Kept(s, K)
<1>. DEFINE N == Len(s)
            t == Append(s, h)
<1>1. /\ N \in Nat /\ t \in Seq(S) /\ Len(t) = N + 1 /\ t[N + 1] = h
      /\ \A n \in 1..N : t[n] = s[n]
  BY AppendProperties, LenProperties
<1>. HIDE DEF t
<1>f. PICK f : LoopOf(f, s, K, S)
  BY KeptSteps
<1>g. PICK g : LoopOf(g, t, K, S)
  BY <1>1, KeptSteps
<1>2. /\ f[0] = <<>> /\ Kept(s, K) = f[Len(s)]
      /\ \A n \in 1..Len(s) :
           f[n] = IF s[n] \in K THEN Append(f[n - 1], s[n]) ELSE f[n - 1]
  BY <1>f DEF LoopOf
<1>3. /\ g[0] = <<>> /\ Kept(t, K) = g[Len(t)]
      /\ \A n \in 1..Len(t) :
           g[n] = IF t[n] \in K THEN Append(g[n - 1], t[n]) ELSE g[n - 1]
  BY <1>g DEF LoopOf
<1>. DEFINE T == {n \in 0..N : f[n] = g[n]}
<1>4. 0 \in T
  BY <1>1, <1>2, <1>3
<1>5. ASSUME NEW k \in 0..(N - 1), k \in T PROVE k + 1 \in T
  <2>1. k + 1 \in 1..N /\ (k + 1) - 1 = k /\ k + 1 \in 0..N /\ k + 1 \in 1..(N + 1)
    BY <1>1
  <2>2. f[k + 1] = IF s[k + 1] \in K THEN Append(f[k], s[k + 1]) ELSE f[k]
    BY <1>2, <2>1
  <2>3. g[k + 1] = IF t[k + 1] \in K THEN Append(g[k], t[k + 1]) ELSE g[k]
    BY <1>1, <1>3, <2>1
  <2>4. t[k + 1] = s[k + 1] /\ f[k] = g[k]
    BY <1>1, <1>5, <2>1
  <2>. QED  BY <2>1, <2>2, <2>3, <2>4
<1>6. N \in T
  <2>. HIDE DEF T
  <2>1. 0..N \subseteq T
    BY <1>1, <1>4, <1>5, UpTo
  <2>. QED  BY <1>1, <2>1
<1>7. N + 1 \in 1..(N + 1) /\ (N + 1) - 1 = N
  BY <1>1
<1>8. g[N + 1] = IF t[N + 1] \in K THEN Append(g[N], t[N + 1]) ELSE g[N]
  BY <1>1, <1>3, <1>7
<1>. QED  BY <1>1, <1>2, <1>3, <1>6, <1>8 DEF t

\* A sequence grows from nothing by its elements.
LEMMA PrefixFacts ==
    ASSUME NEW S, NEW s \in Seq(S), NEW n \in 0..Len(s)
    PROVE  /\ SubSeq(s, 1, n) \in Seq(S) /\ Len(SubSeq(s, 1, n)) = n
           /\ \A j \in 1..n : SubSeq(s, 1, n)[j] = s[j]
<1>1. Len(s) \in Nat /\ \A j \in 1..Len(s) : s[j] \in S
  BY LenProperties, ElementOfSeq
<1>2. \A j \in 1..n : s[j] \in S
  BY <1>1
<1>3. n \in Int /\ 1 \in Int
  OBVIOUS
<1>4. /\ SubSeq(s, 1, n) \in Seq(S)
      /\ Len(SubSeq(s, 1, n)) = IF 1 <= n THEN n - 1 + 1 ELSE 0
      /\ \A j \in 1..(n - 1 + 1) : SubSeq(s, 1, n)[j] = s[1 + j - 1]
  BY <1>2, <1>3, SubSeqProperties
<1>5. (IF 1 <= n THEN n - 1 + 1 ELSE 0) = n /\ n - 1 + 1 = n
      /\ \A j \in 1..n : 1 + j - 1 = j
  BY <1>1
<1>. QED  BY <1>4, <1>5

LEMMA PrefixGrows ==
    ASSUME NEW S, NEW s \in Seq(S), NEW n \in 0..(Len(s) - 1)
    PROVE  SubSeq(s, 1, n + 1) = Append(SubSeq(s, 1, n), s[n + 1])
<1>. DEFINE p == SubSeq(s, 1, n)
            q == SubSeq(s, 1, n + 1)
<1>1. /\ n \in 0..Len(s) /\ n + 1 \in 0..Len(s) /\ n + 1 \in 1..Len(s)
      /\ Len(s) \in Nat
  BY LenProperties
<1>2. s[n + 1] \in S
  BY <1>1, ElementOfSeq
<1>3. /\ p \in Seq(S) /\ Len(p) = n /\ \A j \in 1..n : p[j] = s[j]
      /\ q \in Seq(S) /\ Len(q) = n + 1 /\ \A j \in 1..(n + 1) : q[j] = s[j]
  BY <1>1, PrefixFacts
<1>. HIDE DEF p, q
<1>. DEFINE r == Append(p, s[n + 1])
<1>4. /\ r \in Seq(S) /\ Len(r) = n + 1 /\ r[n + 1] = s[n + 1]
      /\ \A j \in 1..n : r[j] = p[j]
  BY <1>2, <1>3, AppendProperties
<1>. HIDE DEF r
<1>5. ASSUME NEW j \in 1..Len(q) PROVE q[j] = r[j]
  <2>1. (j \in 1..n \/ j = n + 1) /\ j \in 1..(n + 1)
    BY <1>3
  <2>. QED  BY <1>3, <1>4, <2>1
<1>6. q = r
  BY <1>3, <1>4, <1>5, SeqEqual
<1>. QED  BY <1>6 DEF p, q, r

\* Induction over the elements of a sequence: G has the prefixes with the property.
LEMMA SeqInduction ==
    ASSUME NEW S, NEW s \in Seq(S), NEW G, <<>> \in G,
           \A n \in 0..(Len(s) - 1) :
              SubSeq(s, 1, n) \in G => Append(SubSeq(s, 1, n), s[n + 1]) \in G
    PROVE  s \in G
<1>. DEFINE p(n) == SubSeq(s, 1, n)
            T == {n \in 0..Len(s) : p(n) \in G}
<1>1. Len(s) \in Nat /\ p(0) = <<>> /\ p(Len(s)) = s
  BY LenProperties, SubSeqEmpty, SubSeqFull
<1>2. \A n \in 0..(Len(s) - 1) : p(n + 1) = Append(p(n), s[n + 1])
  BY PrefixGrows
<1>3. \A n \in 0..(Len(s) - 1) : p(n) \in G => Append(p(n), s[n + 1]) \in G
  OBVIOUS
<1>. HIDE DEF p
<1>4. 0 \in T
  BY <1>1
<1>5. ASSUME NEW n \in 0..(Len(s) - 1), n \in T PROVE n + 1 \in T
  <2>1. n + 1 \in 0..Len(s)
    BY <1>1
  <2>. QED  BY <1>2, <1>3, <1>5, <2>1
<1>6. 0..Len(s) \subseteq T
  <2>. HIDE DEF T
  <2>. QED  BY <1>1, <1>4, <1>5, UpTo
<1>. QED  BY <1>1, <1>6

LEMMA InSet ==
    ASSUME NEW S, NEW s \in Seq(S)
    PROVE  /\ ToSet(s) = {s[k] : k \in 1..Len(s)} /\ ToSet(s) \subseteq S
           /\ \A h : Contains(s, h) <=> h \in ToSet(s)
<1>1. Len(s) \in Nat /\ DOMAIN s = 1..Len(s) /\ \A k \in 1..Len(s) : s[k] \in S
  BY LenProperties, ElementOfSeq
<1>2. ToSet(s) = {s[k] : k \in 1..Len(s)}
  BY <1>1 DEF ToSet
<1>3. \A h : Contains(s, h) <=> \E k \in 1..Len(s) : s[k] = h
  BY DEF Contains
<1>. QED  BY <1>1, <1>2, <1>3

LEMMA AppendSet ==
    ASSUME NEW S, NEW s \in Seq(S), NEW h \in S
    PROVE  Append(s, h) \in Seq(S) /\ ToSet(Append(s, h)) = ToSet(s) \cup {h}
<1>1. /\ Append(s, h) \in Seq(S) /\ Len(Append(s, h)) = Len(s) + 1 /\ Len(s) \in Nat
      /\ \A k \in 1..Len(s) : Append(s, h)[k] = s[k]
      /\ Append(s, h)[Len(s) + 1] = h
  BY AppendProperties, LenProperties
<1>2. \A k \in 1..(Len(s) + 1) : k \in 1..Len(s) \/ k = Len(s) + 1
  BY <1>1
<1>3. 1..Len(s) \subseteq 1..(Len(s) + 1) /\ Len(s) + 1 \in 1..(Len(s) + 1)
  BY <1>1
<1>. DEFINE t == Append(s, h)
            n == Len(s)
<1>4. /\ ToSet(t) = {t[k] : k \in 1..(n + 1)}
      /\ ToSet(s) = {s[k] : k \in 1..n}
  BY <1>1, InSet
<1>5. t \in Seq(S) /\ (\A k \in 1..n : t[k] = s[k]) /\ t[n + 1] = h
  BY <1>1
<1>6. (\A k \in 1..(n + 1) : k \in 1..n \/ k = n + 1) /\ 1..n \subseteq 1..(n + 1)
      /\ n + 1 \in 1..(n + 1)
  BY <1>2, <1>3
<1>. HIDE DEF t, n
<1>7. ToSet(t) = ToSet(s) \cup {h}
  BY <1>4, <1>5, <1>6
<1>. QED  BY <1>5, <1>7 DEF t

LEMMA KeptSet ==
    ASSUME NEW S, NEW s \in Seq(S), NEW K
    PROVE  Kept(s, K) \in Seq(S) /\ ToSet(Kept(s, K)) = ToSet(s) \cap K
<1>. DEFINE G == {p \in Seq(S) : Kept(p, K) \in Seq(S) /\ ToSet(Kept(p, K)) = ToSet(p) \cap K}
<1>1. <<>> \in G
  <2>1. <<>> \in Seq(S) /\ Kept(<<>>, K) = <<>>
    BY EmptySeq, KeptEmpty
  <2>2. ToSet(<<>>) = {}
    BY DEF ToSet
  <2>. QED  BY <2>1, <2>2
<1>2. ASSUME NEW n \in 0..(Len(s) - 1), SubSeq(s, 1, n) \in G
      PROVE  Append(SubSeq(s, 1, n), s[n + 1]) \in G
  <2>. DEFINE p == SubSeq(s, 1, n)
              h == s[n + 1]
              q == Append(p, h)
  <2>1. n + 1 \in 1..Len(s)
    BY LenProperties
  <2>2. h \in S /\ p \in Seq(S) /\ Kept(p, K) \in Seq(S) /\ ToSet(Kept(p, K)) = ToSet(p) \cap K
    BY <1>2, <2>1, ElementOfSeq
  <2>. HIDE DEF p, h
  <2>3. q \in Seq(S) /\ ToSet(q) = ToSet(p) \cup {h}
    BY <2>2, AppendSet
  <2>4. Kept(q, K) = IF h \in K THEN Append(Kept(p, K), h) ELSE Kept(p, K)
    BY <2>2, KeptAppend
  <2>5. /\ Append(Kept(p, K), h) \in Seq(S)
        /\ ToSet(Append(Kept(p, K), h)) = ToSet(Kept(p, K)) \cup {h}
    BY <2>2, AppendSet
  <2>. HIDE DEF q
  <2>6. Kept(q, K) \in Seq(S) /\ ToSet(Kept(q, K)) = ToSet(q) \cap K
    BY <2>2, <2>3, <2>4, <2>5
  <2>. QED  BY <2>3, <2>6 DEF p, h, q
<1>3. s \in G
  <2>. HIDE DEF G
  <2>. QED  BY <1>1, <1>2, SeqInduction
<1>. QED  BY <1>3

LEMMA KeptSame ==
    ASSUME NEW S, NEW s \in Seq(S), NEW K, NEW L,
           \A h \in ToSet(s) : h \in K <=> h \in L
    PROVE  Kept(s, K) = Kept(s, L)
<1>. DEFINE G == {p \in Seq(S) : Kept(p, K) = Kept(p, L)}
<1>1. <<>> \in G
  BY EmptySeq, KeptEmpty
<1>2. ASSUME NEW n \in 0..(Len(s) - 1), SubSeq(s, 1, n) \in G
      PROVE  Append(SubSeq(s, 1, n), s[n + 1]) \in G
  <2>. DEFINE p == SubSeq(s, 1, n)
              h == s[n + 1]
  <2>1. n + 1 \in 1..Len(s)
    BY LenProperties
  <2>2. h \in S /\ p \in Seq(S) /\ Kept(p, K) = Kept(p, L) /\ h \in ToSet(s)
    BY <1>2, <2>1, ElementOfSeq, InSet
  <2>. HIDE DEF p, h
  <2>3. Append(p, h) \in Seq(S)
    BY <2>2, AppendProperties
  <2>4. Kept(Append(p, h), K) = IF h \in K THEN Append(Kept(p, K), h) ELSE Kept(p, K)
    BY <2>2, KeptAppend
  <2>5. Kept(Append(p, h), L) = IF h \in L THEN Append(Kept(p, L), h) ELSE Kept(p, L)
    BY <2>2, KeptAppend
  <2>6. Kept(Append(p, h), K) = Kept(Append(p, h), L)
    BY <2>2, <2>4, <2>5
  <2>. QED  BY <2>3, <2>6 DEF p, h
<1>3. s \in G
  <2>. HIDE DEF G
  <2>. QED  BY <1>1, <1>2, SeqInduction
<1>. QED  BY <1>3

LEMMA KeptAll ==
    ASSUME NEW S, NEW s \in Seq(S), NEW K, ToSet(s) \subseteq K
    PROVE  Kept(s, K) = s
<1>. DEFINE G == {p \in Seq(S) : Kept(p, K) = p}
<1>1. <<>> \in G
  BY EmptySeq, KeptEmpty
<1>2. ASSUME NEW n \in 0..(Len(s) - 1), SubSeq(s, 1, n) \in G
      PROVE  Append(SubSeq(s, 1, n), s[n + 1]) \in G
  <2>. DEFINE p == SubSeq(s, 1, n)
              h == s[n + 1]
  <2>1. n + 1 \in 1..Len(s)
    BY LenProperties
  <2>2. h \in S /\ p \in Seq(S) /\ Kept(p, K) = p /\ h \in K
    BY <1>2, <2>1, ElementOfSeq, InSet
  <2>. HIDE DEF p, h
  <2>3. Append(p, h) \in Seq(S)
    BY <2>2, AppendProperties
  <2>4. Kept(Append(p, h), K) = Append(p, h)
    BY <2>2, KeptAppend
  <2>. QED  BY <2>3, <2>4 DEF p, h
<1>3. s \in G
  <2>. HIDE DEF G
  <2>. QED  BY <1>1, <1>2, SeqInduction
<1>. QED  BY <1>3

LEMMA KeptTwice ==
    ASSUME NEW S, NEW s \in Seq(S), NEW K, NEW L
    PROVE  Kept(Kept(s, K), L) = Kept(s, K \cap L)
<1>. DEFINE G == {p \in Seq(S) : Kept(Kept(p, K), L) = Kept(p, K \cap L)}
<1>1. <<>> \in G
  <2>1. <<>> \in Seq(S) /\ Kept(<<>>, K) = <<>> /\ Kept(<<>>, L) = <<>>
        /\ Kept(<<>>, K \cap L) = <<>>
    BY EmptySeq, KeptEmpty
  <2>. QED  BY <2>1
<1>2. ASSUME NEW n \in 0..(Len(s) - 1), SubSeq(s, 1, n) \in G
      PROVE  Append(SubSeq(s, 1, n), s[n + 1]) \in G
  <2>. DEFINE p == SubSeq(s, 1, n)
              h == s[n + 1]
              q == Append(p, h)
              M == K \cap L
  <2>1. n + 1 \in 1..Len(s)
    BY LenProperties
  <2>2. h \in S /\ p \in Seq(S) /\ Kept(Kept(p, K), L) = Kept(p, M)
    BY <1>2, <2>1, ElementOfSeq
  <2>. HIDE DEF p, h
  <2>3. q \in Seq(S) /\ Kept(p, K) \in Seq(S)
    BY <2>2, AppendProperties, KeptSet
  <2>4. Kept(q, K) = IF h \in K THEN Append(Kept(p, K), h) ELSE Kept(p, K)
    BY <2>2, KeptAppend
  <2>5. Kept(q, M) = IF h \in M THEN Append(Kept(p, M), h) ELSE Kept(p, M)
    BY <2>2, KeptAppend
  <2>6. Kept(Append(Kept(p, K), h), L)
          = IF h \in L THEN Append(Kept(Kept(p, K), L), h) ELSE Kept(Kept(p, K), L)
    BY <2>2, <2>3, KeptAppend
  <2>7. h \in M <=> h \in K /\ h \in L
    OBVIOUS
  <2>. HIDE DEF q, M
  <2>8. Kept(Kept(q, K), L) = Kept(q, M)
    BY <2>2, <2>4, <2>5, <2>6, <2>7
  <2>. QED  BY <2>3, <2>8 DEF p, h, q, M
<1>3. s \in G
  <2>. HIDE DEF G
  <2>. QED  BY <1>1, <1>2, SeqInduction
<1>. QED  BY <1>3

-----------------------------------------------------------------------------
(* Sequences that hold nothing twice.                                      *)

LEMMA OnceFacts ==
    ASSUME NEW S, NEW s \in Seq(S)
    PROVE  IsInjective(s) <=> \A a, b \in 1..Len(s) : s[a] = s[b] => a = b
BY LenProperties DEF IsInjective

LEMMA AppendOnce ==
    ASSUME NEW S, NEW s \in Seq(S), NEW h \in S
    PROVE  IsInjective(Append(s, h)) <=> IsInjective(s) /\ h \notin ToSet(s)
<1>. DEFINE n == Len(s)
            t == Append(s, h)
<1>1. /\ t \in Seq(S) /\ n \in Nat /\ Len(t) = n + 1
      /\ t[n + 1] = h /\ \A k \in 1..n : t[k] = s[k]
  BY AppendProperties, LenProperties
<1>2. ToSet(s) = {s[k] : k \in 1..n}
  BY InSet
<1>3. /\ \A k \in 1..(n + 1) : k \in 1..n \/ k = n + 1
      /\ \A k \in 1..n : k \in 1..(n + 1) /\ k # n + 1
      /\ n + 1 \in 1..(n + 1)
  BY <1>1
<1>4. IsInjective(s) <=> \A a, b \in 1..n : s[a] = s[b] => a = b
  BY OnceFacts
<1>5. IsInjective(t) <=> \A a, b \in 1..(n + 1) : t[a] = t[b] => a = b
  BY <1>1, OnceFacts
<1>. HIDE DEF n, t
<1>6. ASSUME IsInjective(t) PROVE IsInjective(s) /\ h \notin ToSet(s)
  BY <1>1, <1>2, <1>3, <1>4, <1>5, <1>6
<1>7. ASSUME IsInjective(s), h \notin ToSet(s) PROVE IsInjective(t)
  BY <1>1, <1>2, <1>3, <1>4, <1>5, <1>7
<1>. QED  BY <1>6, <1>7 DEF t

LEMMA KeptOnce ==
    ASSUME NEW S, NEW s \in Seq(S), NEW K, IsInjective(s)
    PROVE  IsInjective(Kept(s, K))
<1>. DEFINE G == {p \in Seq(S) : IsInjective(p) => IsInjective(Kept(p, K))}
<1>1. <<>> \in G
  BY EmptySeq, KeptEmpty
<1>2. ASSUME NEW n \in 0..(Len(s) - 1), SubSeq(s, 1, n) \in G
      PROVE  Append(SubSeq(s, 1, n), s[n + 1]) \in G
  <2>. DEFINE p == SubSeq(s, 1, n)
              h == s[n + 1]
              q == Append(p, h)
  <2>1. n + 1 \in 1..Len(s)
    BY LenProperties
  <2>2. h \in S /\ p \in Seq(S) /\ (IsInjective(p) => IsInjective(Kept(p, K)))
    BY <1>2, <2>1, ElementOfSeq
  <2>. HIDE DEF p, h
  <2>3. /\ q \in Seq(S) /\ Kept(p, K) \in Seq(S)
        /\ ToSet(Kept(p, K)) = ToSet(p) \cap K
    BY <2>2, AppendProperties, KeptSet
  <2>4. Kept(q, K) = IF h \in K THEN Append(Kept(p, K), h) ELSE Kept(p, K)
    BY <2>2, KeptAppend
  <2>5. IsInjective(q) <=> IsInjective(p) /\ h \notin ToSet(p)
    BY <2>2, AppendOnce
  <2>6. IsInjective(Append(Kept(p, K), h)) <=> IsInjective(Kept(p, K)) /\ h \notin ToSet(Kept(p, K))
    BY <2>2, <2>3, AppendOnce
  <2>. HIDE DEF q
  <2>7. IsInjective(q) => IsInjective(Kept(q, K))
    BY <2>2, <2>3, <2>4, <2>5, <2>6
  <2>. QED  BY <2>3, <2>7 DEF p, h, q
<1>3. s \in G
  <2>. HIDE DEF G
  <2>. QED  BY <1>1, <1>2, SeqInduction
<1>. QED  BY <1>3

\* Without moves what is behind the element it takes out, and nothing else.
LEMMA WithoutAt ==
    ASSUME NEW S, NEW s \in Seq(S), NEW i \in 1..Len(s), IsInjective(s)
    PROVE  /\ Len(Without(s, s[i])) = Len(s) - 1
           /\ \A j \in 1..(Len(s) - 1) :
                Without(s, s[i])[j] = IF j < i THEN s[j] ELSE s[j + 1]
<1>. DEFINE N == Len(s)
            K == ToSet(s) \ {s[i]}
            W(n) == Kept(SubSeq(s, 1, n), K)
            L(n) == IF n < i THEN n ELSE n - 1
            Left(j) == IF j < i THEN s[j] ELSE s[j + 1]
            T == {n \in 0..N : Len(W(n)) = L(n) /\ \A j \in 1..L(n) : W(n)[j] = Left(j)}
<1>1. /\ N \in Nat /\ \A j \in 1..N : s[j] \in S /\ s[j] \in ToSet(s)
      /\ \A a, b \in 1..N : s[a] = s[b] => a = b
  BY LenProperties, ElementOfSeq, InSet, OnceFacts
<1>2. \A j \in 1..N : s[j] \in K <=> j # i
  BY <1>1
<1>3. \A n \in 0..N : W(n) \in Seq(S) /\ Len(W(n)) \in Nat
  BY PrefixFacts, KeptSet, LenProperties
<1>4. W(0) = <<>> /\ W(N) = Without(s, s[i])
  <2>1. SubSeq(s, 1, 0) = <<>>
    BY SubSeqEmpty
  <2>2. SubSeq(s, 1, N) = s
    BY SubSeqFull
  <2>3. Kept(<<>>, K) = <<>>
    BY KeptEmpty
  <2>. QED  BY <2>1, <2>2, <2>3 DEF Without
<1>5. ASSUME NEW n \in 0..(N - 1)
      PROVE  W(n + 1) = IF s[n + 1] \in K THEN Append(W(n), s[n + 1]) ELSE W(n)
  <2>1. n \in 0..N /\ n + 1 \in 1..N
    BY <1>1
  <2>. DEFINE p == SubSeq(s, 1, n)
              h == s[n + 1]
  <2>2. p \in Seq(S) /\ h \in S
    BY <1>1, <2>1, PrefixFacts
  <2>3. SubSeq(s, 1, n + 1) = Append(p, h)
    BY PrefixGrows
  <2>4. W(n) = Kept(p, K) /\ W(n + 1) = Kept(Append(p, h), K)
    BY <2>3
  <2>. HIDE DEF p, h, K, W
  <2>5. Kept(Append(p, h), K) = IF h \in K THEN Append(Kept(p, K), h) ELSE Kept(p, K)
    BY <2>2, KeptAppend
  <2>6. W(n + 1) = IF h \in K THEN Append(W(n), h) ELSE W(n)
    BY <2>4, <2>5
  <2>. QED  BY <2>6 DEF h
<1>. HIDE DEF W, K
<1>6. 0 \in T
  <2>1. Len(W(0)) = 0 /\ L(0) = 0
    BY <1>4, EmptySeq
  <2>2. \A j \in 1..0 : W(0)[j] = Left(j)
    OBVIOUS
  <2>. HIDE DEF L, At
  <2>. QED  BY <1>1, <2>1, <2>2
<1>7. ASSUME NEW n \in 0..(N - 1), n \in T PROVE n + 1 \in T
  <2>1. n \in 0..N /\ n + 1 \in 1..N /\ n + 1 \in 0..N
    BY <1>1
  <2>. DEFINE v == W(n)
              h == s[n + 1]
  <2>2. v \in Seq(S) /\ Len(v) = L(n) /\ (\A j \in 1..L(n) : v[j] = Left(j)) /\ h \in S
    BY <1>1, <1>3, <1>7, <2>1
  <2>3. W(n + 1) = IF n + 1 # i THEN Append(v, h) ELSE v
    BY <1>2, <1>5, <2>1
  <2>4. /\ Append(v, h) \in Seq(S) /\ Len(Append(v, h)) = L(n) + 1
        /\ Append(v, h)[L(n) + 1] = h /\ \A j \in 1..L(n) : Append(v, h)[j] = v[j]
    <3>. HIDE DEF v, h, L
    <3>. QED  BY <2>2, AppendProperties
  <2>. HIDE DEF v
  <2>5. CASE n + 1 = i
    <3>1. L(n + 1) = L(n) /\ W(n + 1) = v
      BY <2>3, <2>5
    <3>. HIDE DEF L, At
    <3>. QED  BY <2>1, <2>2, <3>1
  <2>6. CASE n + 1 # i
    <3>1. L(n + 1) = L(n) + 1 /\ L(n) \in Nat /\ Left(L(n) + 1) = h
      BY <2>1, <2>6
    <3>2. W(n + 1) = Append(v, h)
      BY <2>3, <2>6
    <3>. HIDE DEF L, At, h
    <3>3. ASSUME NEW j \in 1..(L(n) + 1) PROVE Append(v, h)[j] = Left(j)
      <4>1. j \in 1..L(n) \/ j = L(n) + 1
        BY <3>1
      <4>. QED  BY <2>2, <2>4, <3>1, <4>1
    <3>4. /\ Len(W(n + 1)) = L(n + 1)
          /\ \A j \in 1..L(n + 1) : W(n + 1)[j] = Left(j)
      BY <2>4, <3>1, <3>2, <3>3
    <3>. QED  BY <2>1, <3>4
  <2>. QED  BY <2>5, <2>6
<1>8. N \in T
  <2>. HIDE DEF T
  <2>1. 0..N \subseteq T
    BY <1>1, <1>6, <1>7, UpTo
  <2>. QED  BY <1>1, <2>1
<1>9. L(N) = N - 1
  BY <1>1
<1>. QED  BY <1>4, <1>8, <1>9

-----------------------------------------------------------------------------
(* The stack of calls.                                                     *)

LEMMA EntityFacts ==
    ASSUME NEW e \in [Index -> Entity \cup {None}], NEW i \in Index, e[i] # None
    PROVE  /\ e[i] \in Entity /\ e[i].serial \in Nat \ {0} /\ e[i].class \in Classes
           /\ e[i].mark \in {"no", "yes"} \cup Slots
           /\ <<i, e[i].serial>> \in Handle /\ LiveIn(<<i, e[i].serial>>, e)
<1>1. e[i] \in Entity
  OBVIOUS
<1>2. e[i].serial \in Nat \ {0}
  BY <1>1 DEF Entity
<1>. QED  BY <1>1, <1>2 DEF Entity, Handle, LiveIn

LEMMA TopFacts ==
    ASSUME NEW e, NEW s, GoodStack(s, e), s # <<>>
    PROVE  /\ GoodCall(Head(s), e) /\ GoodStack(Tail(s), e)
           /\ Len(s) \in Nat \ {0} /\ Len(Tail(s)) = Len(s) - 1
<1>1. s \in Seq(Call)
  BY DEF GoodStack
<1>2. Len(s) \in Nat \ {0} /\ Head(s) = s[1]
  BY <1>1, EmptySeq
<1>3. GoodCall(Head(s), e)
  BY <1>2 DEF GoodStack
<1>4. /\ Tail(s) \in Seq(Call) /\ Len(Tail(s)) = Len(s) - 1
      /\ \A i \in 1..Len(Tail(s)) : Tail(s)[i] = s[i + 1]
  BY <1>1, HeadTailProperties
<1>5. ASSUME NEW k \in 1..Len(Tail(s)) PROVE GoodCall(Tail(s)[k], e)
  <2>1. k + 1 \in 1..Len(s)
    BY <1>2, <1>4
  <2>2. GoodCall(s[k + 1], e)
    BY <2>1 DEF GoodStack
  <2>. QED  BY <1>4, <2>2
<1>. QED  BY <1>2, <1>3, <1>4, <1>5 DEF GoodStack

LEMMA PushFacts ==
    ASSUME NEW e, NEW s, GoodStack(s, e), NEW f, GoodCall(f, e)
    PROVE  GoodStack(<<f>> \o s, e) /\ Len(<<f>> \o s) = Len(s) + 1
<1>1. s \in Seq(Call) /\ f \in Call
  BY DEF GoodStack, GoodCall
<1>2. <<f>> \in Seq(Call) /\ Len(<<f>>) = 1 /\ <<f>>[1] = f
  BY <1>1
<1>3. /\ <<f>> \o s \in Seq(Call) /\ Len(<<f>> \o s) = 1 + Len(s)
      /\ \A i \in 1..(1 + Len(s)) :
           (<<f>> \o s)[i] = IF i <= 1 THEN f ELSE s[i - 1]
  <2>1. \A i \in 1..(Len(<<f>>) + Len(s)) :
          (<<f>> \o s)[i] = IF i <= Len(<<f>>) THEN <<f>>[i] ELSE s[i - Len(<<f>>)]
    BY <1>1, <1>2, ConcatProperties
  <2>2. <<f>> \o s \in Seq(Call) /\ Len(<<f>> \o s) = Len(<<f>>) + Len(s)
    BY <1>1, <1>2, ConcatProperties
  <2>3. \A i \in 1..(1 + Len(s)) : i <= 1 => i = 1
    BY <1>1, LenProperties
  <2>. QED  BY <1>2, <2>1, <2>2, <2>3
<1>4. Len(s) \in Nat
  BY <1>1, LenProperties
<1>. DEFINE t == <<f>> \o s
<1>. HIDE DEF t
<1>5. ASSUME NEW k \in 1..Len(t) PROVE GoodCall(t[k], e)
  <2>1. (k = 1 \/ (k > 1 /\ k - 1 \in 1..Len(s))) /\ k \in 1..(1 + Len(s))
    BY <1>3, <1>4 DEF t
  <2>2. t[k] = IF k <= 1 THEN f ELSE s[k - 1]
    BY <1>3, <1>4, <2>1 DEF t
  <2>3. CASE k = 1
    BY <2>2, <2>3
  <2>4. CASE k > 1 /\ k - 1 \in 1..Len(s)
    <3>1. t[k] = s[k - 1]
      BY <2>2, <2>4
    <3>. QED  BY <2>4, <3>1 DEF GoodStack
  <2>. QED  BY <2>1, <2>3, <2>4
<1>. QED  BY <1>3, <1>4, <1>5 DEF GoodStack, t

\* The same calls, when the call on top goes on.
LEMMA ReplaceFacts ==
    ASSUME NEW e, NEW s, GoodStack(s, e), s # <<>>, NEW f, GoodCall(f, e)
    PROVE  GoodStack(<<f>> \o Tail(s), e) /\ Len(<<f>> \o Tail(s)) = Len(s)
<1>1. GoodStack(Tail(s), e) /\ Len(s) \in Nat \ {0} /\ Len(Tail(s)) = Len(s) - 1
  BY TopFacts
<1>2. GoodStack(<<f>> \o Tail(s), e) /\ Len(<<f>> \o Tail(s)) = Len(Tail(s)) + 1
  BY <1>1, PushFacts
<1>. QED  BY <1>1, <1>2

LEMMA NoCalls == ASSUME NEW e PROVE GoodStack(<<>>, e)
<1>1. <<>> \in Seq(Call) /\ Len(<<>>) = 0
  BY EmptySeq
<1>2. \A k \in 1..0 : GoodCall(<<>>[k], e)
  OBVIOUS
<1>. QED  BY <1>1, <1>2 DEF GoodStack

LEMMA DisturbedFacts ==
    ASSUME GoodStack(stack, ents)
    PROVE  GoodStack(Disturbed, ents) /\ Len(Disturbed) = Len(stack)
<1>. DEFINE F(k) == [stack[k] EXCEPT !.quiet = stack[k].do # "replace", !.others = <<>>]
<1>1. stack \in Seq(Call) /\ Len(stack) \in Nat /\ DOMAIN stack = 1..Len(stack)
  BY LenProperties DEF GoodStack
<1>2. ASSUME NEW k \in 1..Len(stack) PROVE F(k) \in Call /\ GoodCall(F(k), ents)
  <2>. DEFINE f == stack[k]
              g == F(k)
  <2>1. GoodCall(f, ents)
    BY DEF GoodStack
  <2>2. f \in Call /\ <<>> \in Seq(Handle)
    BY <2>1 DEF GoodCall
  <2>3. g \in Call /\ g.do = f.do /\ g.at = f.at /\ g.slot = f.slot /\ g.i = f.i
        /\ g.w = f.w /\ g.new = f.new
    <3>. HIDE DEF f
    <3>. QED  BY <2>2 DEF Call, f
  <2>. HIDE DEF g, f
  <2>4. Fits(g) /\ PointsWell(g, ents)
    BY <2>1, <2>3 DEF GoodCall, Fits, PointsWell
  <2>. QED  BY <2>3, <2>4 DEF GoodCall, g
<1>3. Disturbed = [k \in 1..Len(stack) |-> F(k)]
  BY <1>1 DEF Disturbed
<1>. HIDE DEF F
<1>4. Disturbed \in [1..Len(stack) -> Call]
  BY <1>2, <1>3
<1>5. Disturbed \in Seq(Call) /\ Len(Disturbed) = Len(stack)
  BY <1>1, <1>4, SeqDef, LenProperties
<1>6. \A k \in 1..Len(Disturbed) : GoodCall(Disturbed[k], ents)
  BY <1>2, <1>3, <1>5
<1>. QED  BY <1>5, <1>6 DEF GoodStack

\* What lives in one world lives in the other.
Keeps(e, d) == \A h \in Handle : LiveIn(h, e) => LiveIn(h, d)

LEMMA CallsKept ==
    ASSUME NEW e, NEW d, Keeps(e, d), NEW f, GoodCall(f, e)
    PROVE  GoodCall(f, d)
<1>1. {f.w, f.new} \ {None} \subseteq Handle
  BY DEF GoodCall, Call
<1>2. PointsWell(f, d)
  BY <1>1 DEF PointsWell, GoodCall, Keeps
<1>. QED  BY <1>2 DEF GoodCall

LEMMA StackKept ==
    ASSUME NEW e, NEW d, Keeps(e, d), NEW s, GoodStack(s, e)
    PROVE  GoodStack(s, d)
BY CallsKept DEF GoodStack

-----------------------------------------------------------------------------
(* The hands of the players.                                               *)

LEMMA LiveFacts ==
    ASSUME NEW S, NEW s \in Seq(S)
    PROVE  Live(s) \in Seq(S) /\ ToSet(Live(s)) \subseteq ToSet(s)
BY KeptSet DEF Live

LEMMA WithoutFacts ==
    ASSUME NEW S, NEW s \in Seq(S), NEW h
    PROVE  Without(s, h) \in Seq(S) /\ ToSet(Without(s, h)) \subseteq ToSet(s) \ {h}
<1>1. /\ Without(s, h) \in Seq(S)
      /\ ToSet(Without(s, h)) \subseteq ToSet(s) \cap (ToSet(s) \ {h})
  BY KeptSet DEF Without
<1>. QED  BY <1>1

\* WeaponAt goes on, behind position i, at the first living weapon.
LEMMA WeaponAtParts ==
    ASSUME NEW hs \in Seq(Handle), NEW i \in 1..Len(hs)
    PROVE  \E m \in i..(Len(hs) + 1) :
             /\ WeaponAt(hs, i) \in Seq(Handle)
             /\ Len(WeaponAt(hs, i)) = Len(hs) + i - m
             /\ \A k \in 1..(Len(hs) + i - m) :
                  WeaponAt(hs, i)[k] = IF k < i THEN hs[k] ELSE hs[m + k - i]
             /\ m <= Len(hs) => EntityByHandle(hs[m])
             /\ \A k \in i..Len(hs) : EntityByHandle(hs[k]) => m <= k
<1>. DEFINE N == Len(hs)
            living == {k \in i..N : EntityByHandle(hs[k])}
            front == SubSeq(hs, 1, i - 1)
            Back(m) == SubSeq(hs, m, N)
<1>1. N \in Nat /\ i \in 1..N /\ \A k \in 1..N : hs[k] \in Handle
  BY LenProperties, ElementOfSeq
<1>2. WeaponAt(hs, i) = front \o IF living = {} THEN <<>> ELSE Back(Min(living))
  <2>1. WeaponAt(hs, i) = IF i > N THEN hs
                          ELSE front \o IF living = {} THEN <<>> ELSE Back(Min(living))
    BY DEF WeaponAt
  <2>2. ~(i > N)
    BY <1>1
  <2>. HIDE DEF N, front, Back, living
  <2>. QED  BY <2>1, <2>2
<1>3. PICK m \in i..(N + 1) :
        /\ WeaponAt(hs, i) = front \o Back(m)
        /\ m <= N => EntityByHandle(hs[m])
        /\ \A k \in i..N : EntityByHandle(hs[k]) => m <= k
  <2>1. CASE living = {}
    <3>1. Back(N + 1) = <<>>
      BY <1>1, SubSeqEmpty
    <3>2. N + 1 \in i..(N + 1) /\ ~(N + 1 <= N)
      BY <1>1
    <3>3. \A k \in i..N : ~EntityByHandle(hs[k])
      BY <2>1
    <3>4. WeaponAt(hs, i) = front \o Back(N + 1)
      BY <1>2, <2>1, <3>1
    <3>. HIDE DEF N, front, Back, living
    <3>. QED  BY <3>2, <3>3, <3>4
  <2>2. CASE living # {}
    <3>. DEFINE m == Min(living)
    <3>1. living \in SUBSET Nat
      BY <1>1
    <3>2. \E x \in living : \A y \in living : x <= y
      <4>. HIDE DEF living
      <4>. QED  BY <2>2, <3>1, LeastNumber
    <3>3. m \in living /\ \A y \in living : m <= y
      <4>. HIDE DEF living
      <4>. QED  BY <3>2 DEF Min
    <3>4. WeaponAt(hs, i) = front \o Back(m)
      BY <1>2, <2>2
    <3>. HIDE DEF front, Back, m
    <3>. QED  BY <1>1, <3>3, <3>4
  <2>. QED  BY <2>1, <2>2
<1>. DEFINE back == Back(m)
<1>4. /\ front \in Seq(Handle) /\ Len(front) = i - 1
      /\ \A k \in 1..(i - 1) : front[k] = hs[k]
  <2>1. \A k \in 1..(i - 1) : hs[k] \in Handle
    BY <1>1
  <2>2. i - 1 \in Int /\ (IF 1 <= i - 1 THEN (i - 1) - 1 + 1 ELSE 0) = i - 1
    BY <1>1
  <2>3. \A k \in 1..(i - 1) : 1 + k - 1 = k /\ k \in 1..((i - 1) - 1 + 1)
    BY <1>1
  <2>4. /\ front \in Seq(Handle)
        /\ Len(front) = IF 1 <= i - 1 THEN (i - 1) - 1 + 1 ELSE 0
        /\ \A k \in 1..((i - 1) - 1 + 1) : front[k] = hs[1 + k - 1]
    BY <2>1, <2>2, SubSeqProperties
  <2>. HIDE DEF front
  <2>. QED  BY <2>2, <2>3, <2>4
<1>5. /\ back \in Seq(Handle) /\ Len(back) = N + 1 - m
      /\ \A k \in 1..(N + 1 - m) : back[k] = hs[m + k - 1]
  <2>1. \A k \in m..N : hs[k] \in Handle
    BY <1>1
  <2>2. m \in Int /\ N \in Int /\ (IF m <= N THEN N - m + 1 ELSE 0) = N + 1 - m
        /\ N - m + 1 = N + 1 - m
    BY <1>1
  <2>3. /\ back \in Seq(Handle)
        /\ Len(back) = IF m <= N THEN N - m + 1 ELSE 0
        /\ \A k \in 1..(N - m + 1) : back[k] = hs[m + k - 1]
    BY <2>1, <2>2, SubSeqProperties
  <2>. HIDE DEF back
  <2>. QED  BY <2>2, <2>3
<1>. HIDE DEF front, back
<1>. DEFINE t == front \o back
<1>6. /\ t \in Seq(Handle) /\ Len(t) = Len(front) + Len(back)
      /\ \A k \in 1..(Len(front) + Len(back)) :
           t[k] = IF k <= Len(front) THEN front[k] ELSE back[k - Len(front)]
  BY <1>4, <1>5, ConcatProperties
<1>7. WeaponAt(hs, i) = t
  BY <1>3 DEF back
<1>. HIDE DEF t
<1>8. Len(front) + Len(back) = N + i - m /\ N + i - m \in Nat
  BY <1>1, <1>4, <1>5
<1>9. ASSUME NEW k \in 1..(N + i - m)
      PROVE  t[k] = IF k < i THEN hs[k] ELSE hs[m + k - i]
  <2>1. t[k] = IF k <= i - 1 THEN front[k] ELSE back[k - (i - 1)]
    BY <1>4, <1>6, <1>8
  <2>2. CASE k < i
    <3>1. k \in 1..(i - 1) /\ k <= i - 1
      BY <1>1, <2>2
    <3>. QED  BY <1>4, <2>1, <2>2, <3>1
  <2>3. CASE ~(k < i)
    <3>1. /\ k - (i - 1) \in 1..(N + 1 - m) /\ ~(k <= i - 1)
          /\ m + (k - (i - 1)) - 1 = m + k - i
      BY <1>1, <2>3
    <3>. HIDE DEF N
    <3>. QED  BY <1>5, <2>1, <2>3, <3>1
  <2>. QED  BY <2>2, <2>3
<1>. QED  BY <1>3, <1>6, <1>7, <1>8, <1>9

\* WeaponAt drops handles, and what it leaves at the position lives.
LEMMA WeaponAtFacts ==
    ASSUME NEW hs \in Seq(Handle), NEW i \in Nat \ {0}
    PROVE  /\ WeaponAt(hs, i) \in Seq(Handle)
           /\ ToSet(WeaponAt(hs, i)) \subseteq ToSet(hs)
           /\ i <= Len(WeaponAt(hs, i)) =>
                WeaponAt(hs, i)[i] \in Handle /\ LiveIn(WeaponAt(hs, i)[i], ents)
           /\ IsInjective(hs) => IsInjective(WeaponAt(hs, i))
           /\ (\A h \in ToSet(hs) : LiveIn(h, ents)) => WeaponAt(hs, i) = hs
<1>. DEFINE N == Len(hs)
            t == WeaponAt(hs, i)
<1>1. /\ N \in Nat /\ (\A k \in 1..N : hs[k] \in Handle)
      /\ ToSet(hs) = {hs[k] : k \in 1..N}
  BY LenProperties, ElementOfSeq, InSet
<1>2. CASE i > N
  <2>1. t = hs
    BY <1>2 DEF WeaponAt
  <2>. HIDE DEF t
  <2>. QED  BY <1>1, <1>2, <2>1 DEF t
<1>3. CASE i <= N
  <2>1. i \in 1..N
    BY <1>1, <1>3
  <2>2. PICK m \in i..(N + 1) :
          /\ t \in Seq(Handle) /\ Len(t) = N + i - m
          /\ \A k \in 1..(N + i - m) : t[k] = IF k < i THEN hs[k] ELSE hs[m + k - i]
          /\ m <= N => EntityByHandle(hs[m])
          /\ \A k \in i..N : EntityByHandle(hs[k]) => m <= k
    BY <2>1, WeaponAtParts
  <2>. DEFINE Spot(k) == IF k < i THEN k ELSE m + k - i
  <2>. HIDE DEF t, N
  <2>3. /\ \A k \in 1..(N + i - m) : Spot(k) \in 1..N /\ t[k] = hs[Spot(k)]
        /\ \A a, b \in 1..(N + i - m) : Spot(a) = Spot(b) => a = b
    <3>1. \A k \in 1..(N + i - m) : Spot(k) \in 1..N
      BY <1>1, <2>1
    <3>2. \A a, b \in 1..(N + i - m) : Spot(a) = Spot(b) => a = b
      BY <1>1, <2>1
    <3>. QED  BY <2>2, <3>1, <3>2
  <2>4. ToSet(t) = {t[k] : k \in 1..(N + i - m)}
    BY <2>2, InSet
  <2>5. ASSUME i <= Len(t) PROVE t[i] \in Handle /\ LiveIn(t[i], ents)
    <3>1. i \in 1..(N + i - m) /\ ~(i < i) /\ m + i - i = m /\ m \in 1..N
      BY <1>1, <2>1, <2>2, <2>5
    <3>2. t[i] = hs[m] /\ EntityByHandle(hs[m])
      BY <2>2, <3>1
    <3>. QED  BY <1>1, <3>1, <3>2 DEF EntityByHandle, LiveIn
  <2>6. ASSUME IsInjective(hs) PROVE IsInjective(t)
    <3>1. \A a, b \in 1..N : hs[a] = hs[b] => a = b
      BY <2>6, OnceFacts DEF N
    <3>2. \A a, b \in 1..(N + i - m) : t[a] = t[b] => a = b
      <4>. HIDE DEF At
      <4>. QED  BY <2>3, <3>1
    <3>. QED  BY <2>2, <3>2, OnceFacts
  <2>7. ASSUME \A h \in ToSet(hs) : LiveIn(h, ents) PROVE t = hs
    <3>1. EntityByHandle(hs[i])
      BY <1>1, <2>1, <2>7 DEF EntityByHandle, LiveIn
    <3>2. m = i
      BY <1>1, <2>1, <2>2, <3>1
    <3>3. Len(t) = Len(hs) /\ \A k \in 1..Len(t) : t[k] = hs[k]
      BY <1>1, <2>1, <2>2, <3>2 DEF N
    <3>. QED  BY <2>2, <3>3, SeqEqual
  <2>8. ToSet(t) \subseteq ToSet(hs)
    <3>. HIDE DEF At
    <3>. QED  BY <1>1, <2>3, <2>4
  <2>. QED  BY <2>2, <2>5, <2>6, <2>7, <2>8 DEF t
<1>. QED  BY <1>1, <1>2, <1>3

LEMMA SameValue ==
    ASSUME NEW T, NEW f \in [Slots -> T], NEW s \in Slots
    PROVE  f = [f EXCEPT ![s] = f[s]]
OBVIOUS

\* Hand(s, q, a, l): the step gives slot s this inventory, active and last weapon.
Hand(s, q, a, l) ==
    /\ inv' = [inv EXCEPT ![s] = q]
    /\ active' = [active EXCEPT ![s] = a]
    /\ last' = [last EXCEPT ![s] = l]

\* The step gives a player handles of nothing that weapon_remove has deleted.
HandsFollow ==
    /\ HandsTyped(inv', active', last')
    /\ \A s \in Slots : \A h \in Held(inv', active', last', s) \cap Handle :
         \/ h \in Held(inv, active, last, s)
         \/ LiveIn(h, ents') => ents'[h[1]].mark = "no"

LEMMA HandsStay ==
    ASSUME HandsTyped(inv, active, last), UNCHANGED hands
    PROVE  HandsFollow
BY DEF HandsFollow, HandsTyped, Held, hands

LEMMA OneHand ==
    ASSUME HandsTyped(inv, active, last), NEW s \in Slots, NEW q \in Seq(Handle),
           NEW a \in Handle \cup {None}, NEW l \in Handle \cup {None}, Hand(s, q, a, l),
           \A h \in (ToSet(q) \cup {a, l}) \cap Handle :
               \/ h \in Held(inv, active, last, s)
               \/ LiveIn(h, ents') => ents'[h[1]].mark = "no"
    PROVE  HandsFollow
<1>1. HandsTyped(inv', active', last')
  BY DEF HandsTyped, Hand
<1>2. inv'[s] = q /\ active'[s] = a /\ last'[s] = l
  BY DEF HandsTyped, Hand
<1>3. \A t \in Slots :
        t # s => inv'[t] = inv[t] /\ active'[t] = active[t] /\ last'[t] = last[t]
  BY DEF HandsTyped, Hand
<1>4. ASSUME NEW t \in Slots, NEW h \in Held(inv', active', last', t) \cap Handle
      PROVE  \/ h \in Held(inv, active, last, t)
             \/ LiveIn(h, ents') => ents'[h[1]].mark = "no"
  <2>1. CASE t = s
    <3>1. h \in (ToSet(q) \cup {a, l}) \cap Handle
      BY <1>2, <2>1 DEF Held
    <3>. QED  BY <2>1, <3>1
  <2>2. CASE t # s
    <3>1. h \in Held(inv, active, last, t)
      BY <1>3, <2>2 DEF Held
    <3>. QED  BY <3>1
  <2>. QED  BY <2>1, <2>2
<1>. QED  BY <1>1, <1>4 DEF HandsFollow

-----------------------------------------------------------------------------
(* What a step may do to the world.                                        *)

\* weapon_remove has deleted nothing more.
Calm(e, d) == \A i \in Index : (d[i] # None /\ d[i].mark \in Slots) => e[i] = d[i]

LEMMA StepKeeps ==
    ASSUME WorldInv, ents' \in [Index -> Entity \cup {None}], serials' \in [Index -> Nat],
           result' \in {"ok", "failed", "raised", None}, HandsFollow,
           Calm(ents, ents'), GoodStack(stack', ents')
    PROVE  WorldInv'
<1>1. ASSUME NEW s \in Slots, NEW h \in Held(inv', active', last', s) \cap Handle,
             LiveIn(h, ents'), ents'[h[1]].mark = s
      PROVE  FALSE
  <2>1. h[1] \in Index /\ "no" \notin Slots
    BY WorldAssumption DEF Handle
  <2>2. ents[h[1]] = ents'[h[1]]
    BY <1>1, <2>1 DEF Calm, LiveIn
  <2>3. h \in Held(inv, active, last, s)
    BY <1>1, <2>1 DEF HandsFollow
  <2>4. LiveIn(h, ents) /\ ents[h[1]].mark = s
    BY <1>1, <2>2 DEF LiveIn
  <2>. QED  BY <2>3, <2>4 DEF WorldInv, Forgotten
<1>2. Forgotten(ents', inv', active', last')
  BY <1>1 DEF Forgotten
<1>. QED  BY <1>2 DEF WorldInv, HandsFollow

\* The entities stay: what is left is the hands and the calls.
LEMMA EntsStay ==
    ASSUME WorldInv, UNCHANGED <<ents, serials>>,
           result' \in {"ok", "failed", "raised", None}, HandsFollow, GoodStack(stack', ents)
    PROVE  WorldInv'
<1>1. Calm(ents, ents')
  BY DEF Calm
<1>2. ents' \in [Index -> Entity \cup {None}] /\ serials' \in [Index -> Nat]
  BY DEF WorldInv
<1>3. GoodStack(stack', ents')
  OBVIOUS
<1>. QED  BY <1>1, <1>2, <1>3, StepKeeps

\* UTIL_Remove, which UtilRemove and RemoveWeapons of the engine are.
LEMMA UtilRemoveFacts ==
    ASSUME ents \in [Index -> Entity \cup {None}], NEW i \in Index, ents[i] # None,
           UtilRemove(i)
    PROVE  /\ ents' \in [Index -> Entity \cup {None}] /\ Keeps(ents, ents')
           /\ Calm(ents, ents') /\ ents'[i].mark # "no" /\ ents'[i] # None
<1>. DEFINE m == IF ents[i].mark = "no" THEN "yes" ELSE ents[i].mark
            d == [ents[i] EXCEPT !.mark = m]
<1>1. ents[i] \in Entity /\ m \in {"no", "yes"} \cup Slots /\ m # "no"
  BY EntityFacts
<1>2. ents' = [ents EXCEPT ![i] = d]
  BY DEF UtilRemove, Mark
<1>3. /\ d \in Entity /\ d.serial = ents[i].serial /\ d.mark = m
      /\ ents[i].mark = m => d = ents[i]
  <2>. HIDE DEF m
  <2>. QED  BY <1>1 DEF Entity
<1>4. d # None /\ {"no", "yes"} \cap Slots = {}
  BY <1>3, WorldAssumption
<1>5. m = "yes" \/ m = ents[i].mark
  OBVIOUS
<1>. HIDE DEF d, m
<1>6. ents'[i] = d /\ \A j \in Index : j # i => ents'[j] = ents[j]
  BY <1>2
<1>7. ents' \in [Index -> Entity \cup {None}]
  BY <1>2, <1>3
<1>8. Keeps(ents, ents')
  BY <1>3, <1>4, <1>6 DEF Keeps, LiveIn, Handle
<1>9. Calm(ents, ents')
  BY <1>3, <1>4, <1>5, <1>6 DEF Calm
<1>. QED  BY <1>1, <1>3, <1>4, <1>6, <1>7, <1>8, <1>9

\* A new entity has a handle that lives, and is not marked.
LEMMA MakeFacts ==
    ASSUME ents \in [Index -> Entity \cup {None}], serials \in [Index -> Nat],
           NEW i \in Index, NEW c \in Classes, Make(i, c)
    PROVE  /\ ents' \in [Index -> Entity \cup {None}] /\ serials' \in [Index -> Nat]
           /\ Keeps(ents, ents') /\ Calm(ents, ents')
           /\ NewHandle(i) \in Handle /\ LiveIn(NewHandle(i), ents')
           /\ ents'[i].mark = "no"
<1>. DEFINE d == [serial |-> serials[i] + 1, class |-> c, mark |-> "no"]
<1>1. /\ ents[i] = None /\ ents' = [ents EXCEPT ![i] = d]
      /\ serials' = [serials EXCEPT ![i] = @ + 1]
  BY DEF Make
<1>2. serials[i] \in Nat /\ serials[i] + 1 \in Nat \ {0}
  OBVIOUS
<1>3. d \in Entity /\ d.serial = serials[i] + 1 /\ d.mark = "no"
  BY <1>2 DEF Entity
<1>4. d # None /\ {"no", "yes"} \cap Slots = {}
  BY <1>3, WorldAssumption
<1>. HIDE DEF d
<1>5. ents'[i] = d /\ \A j \in Index : j # i => ents'[j] = ents[j]
  BY <1>1
<1>6. ents' \in [Index -> Entity \cup {None}]
  BY <1>1, <1>3
<1>7. serials' \in [Index -> Nat]
  BY <1>1, <1>2
<1>8. Keeps(ents, ents')
  BY <1>1, <1>5 DEF Keeps, LiveIn, Handle
<1>9. Calm(ents, ents')
  BY <1>3, <1>4, <1>5 DEF Calm
<1>10. NewHandle(i) \in Handle /\ NewHandle(i)[1] = i /\ NewHandle(i)[2] = serials[i] + 1
  BY <1>2 DEF NewHandle, Handle
<1>11. LiveIn(NewHandle(i), ents')
  BY <1>3, <1>4, <1>5, <1>10 DEF LiveIn
<1>. QED  BY <1>3, <1>5, <1>6, <1>7, <1>8, <1>9, <1>10, <1>11

-----------------------------------------------------------------------------
(* What the invariant says of a player, of a call, and of the call on top. *)

LEMMA InvFacts ==
    ASSUME WorldInv, NEW s \in Slots
    PROVE  /\ inv[s] \in Seq(Handle) /\ active[s] \in Handle \cup {None}
           /\ last[s] \in Handle \cup {None}
           /\ ToSet(inv[s]) \subseteq Handle
           /\ Held(inv, active, last, s) = ToSet(inv[s]) \cup {active[s], last[s]}
           /\ inv = [inv EXCEPT ![s] = inv[s]]
           /\ active = [active EXCEPT ![s] = active[s]]
           /\ last = [last EXCEPT ![s] = last[s]]
<1>1. HandsTyped(inv, active, last)
  BY DEF WorldInv
<1>2. /\ inv \in [Slots -> Seq(Handle)] /\ active \in [Slots -> Handle \cup {None}]
      /\ last \in [Slots -> Handle \cup {None}]
  BY <1>1 DEF HandsTyped
<1>3. ToSet(inv[s]) \subseteq Handle
  BY <1>2, InSet
<1>. QED  BY <1>2, <1>3 DEF Held

\* A player is left with what he has, or less.
LEMMA NarrowHand ==
    ASSUME WorldInv, NEW s \in Slots, NEW q \in Seq(Handle), NEW a, NEW l, Hand(s, q, a, l),
           ToSet(q) \subseteq ToSet(inv[s]), a \in {active[s], None} \cup ToSet(inv[s]),
           l \in {active[s], last[s], None}
    PROVE  HandsFollow
<1>1. /\ a \in Handle \cup {None} /\ l \in Handle \cup {None} /\ None \notin Handle
      /\ Held(inv, active, last, s) = ToSet(inv[s]) \cup {active[s], last[s]}
  BY InvFacts, WorldAssumption
<1>2. \A h \in (ToSet(q) \cup {a, l}) \cap Handle : h \in Held(inv, active, last, s)
  BY <1>1
<1>3. HandsTyped(inv, active, last)
  BY DEF WorldInv
<1>. QED  BY <1>1, <1>2, <1>3, OneHand

LEMMA HoldsFacts ==
    ASSUME WorldInv, NEW s \in Slots, NEW i \in Index, Holds(s, i)
    PROVE  /\ ents[i] # None /\ HandleAt(i) \in Handle /\ LiveIn(HandleAt(i), ents)
           /\ HandleAt(i) \in ToSet(inv[s])
<1>1. ents[i] # None /\ ents \in [Index -> Entity \cup {None}]
  BY DEF Holds, EntityByIndex, WorldInv
<1>2. HandleAt(i) \in Handle /\ LiveIn(HandleAt(i), ents)
  BY <1>1, EntityFacts DEF HandleAt
<1>3. HandleAt(i) \in ToSet(inv[s])
  BY InvFacts, InSet DEF Holds
<1>. QED  BY <1>1, <1>2, <1>3

LEMMA DropFacts ==
    ASSUME WorldInv, NEW s \in Slots, NEW h, DropWeapon(s, h), UNCHANGED last
    PROVE  HandsFollow
<1>. DEFINE q == Without(inv[s], h)
            a == IF active[s] = h THEN None ELSE active[s]
<1>1. q \in Seq(Handle) /\ ToSet(q) \subseteq ToSet(inv[s])
  BY InvFacts, WithoutFacts
<1>2. inv' = [inv EXCEPT ![s] = q] /\ active' = [active EXCEPT ![s] = a]
  BY DEF DropWeapon
<1>3. a \in {active[s], None}
  OBVIOUS
<1>. HIDE DEF q, a
<1>4. last' = [last EXCEPT ![s] = last[s]]
  BY InvFacts
<1>5. Hand(s, q, a, last[s])
  BY <1>2, <1>4 DEF Hand
<1>. QED  BY <1>1, <1>3, <1>5, NarrowHand

LEMMA SelectFacts ==
    ASSUME WorldInv, NEW s \in Slots, NEW h \in ToSet(inv[s]), Select(s, h), UNCHANGED inv
    PROVE  HandsFollow
<1>1. CASE UNCHANGED <<active, last>>
  BY <1>1, HandsStay DEF WorldInv, hands
<1>2. CASE /\ active' = [active EXCEPT ![s] = h]
           /\ last' = [last EXCEPT ![s] = active[s]]
  <2>1. Hand(s, inv[s], h, active[s]) /\ inv[s] \in Seq(Handle)
    BY <1>2, InvFacts DEF Hand
  <2>. QED  BY <2>1, NarrowHand
<1>. QED  BY <1>1, <1>2 DEF Select

LEMMA Results ==
    ASSUME \/ NoResult
           \/ \E r \in {"ok", "failed", "raised"} : Return(r)
    PROVE  result' \in {"ok", "failed", "raised", None}
BY DEF NoResult, Return

LEMMA PlaceFacts ==
    ASSUME NEW e, NEW f, GoodCall(f, e), NEW p \in Places,
           p \in {"giving", "selecting", "rollback"} => f.new \in Handle,
           p = "removing" => f.i > 0
    PROVE  GoodCall([f EXCEPT !.at = p], e)
<1>. DEFINE g == [f EXCEPT !.at = p]
<1>1. f \in Call /\ Fits(f) /\ PointsWell(f, e)
  BY DEF GoodCall
<1>2. /\ g \in Call /\ g.do = f.do /\ g.at = p /\ g.slot = f.slot /\ g.i = f.i
      /\ g.w = f.w /\ g.new = f.new
  BY <1>1 DEF Call
<1>. HIDE DEF g
<1>3. Fits(g) /\ PointsWell(g, e)
  BY <1>1, <1>2 DEF Fits, PointsWell
<1>. QED  BY <1>2, <1>3 DEF GoodCall, g

LEMMA LoopFacts ==
    ASSUME NEW e, NEW f, GoodCall(f, e), f.i > 0
    PROVE  GoodCall([f EXCEPT !.at = "loop", !.i = @ - 1], e)
<1>. DEFINE g == [f EXCEPT !.at = "loop", !.i = @ - 1]
<1>1. f \in Call /\ Fits(f) /\ PointsWell(f, e) /\ f.i \in Nat /\ "loop" \in Places
  BY DEF GoodCall, Call, Places
<1>2. f.i - 1 \in Nat
  BY <1>1
<1>3. /\ g \in Call /\ g.do = f.do /\ g.at = "loop" /\ g.slot = f.slot
      /\ g.w = f.w /\ g.new = f.new
  BY <1>1, <1>2 DEF Call
<1>. HIDE DEF g
<1>4. Fits(g) /\ PointsWell(g, e)
  BY <1>1, <1>3 DEF Fits, PointsWell
<1>. QED  BY <1>3, <1>4 DEF GoodCall, g

LEMMA RemovalFacts ==
    ASSUME WorldInv, NEW s \in Slots, NEW i \in Index, ents[i] # None, NEW delete \in BOOLEAN
    PROVE  GoodCall(Removal(s, i, delete), ents)
<1>. DEFINE f == Removal(s, i, delete)
<1>1. ents[i].class \in Classes /\ HandleAt(i) \in Handle /\ LiveIn(HandleAt(i), ents)
  BY EntityFacts DEF WorldInv, HandleAt
<1>2. <<>> \in Seq(Handle) /\ "unlinking" \in Places /\ "remove" \in Does
  BY DEF Places, InEngine, Does
<1>3. f \in Call
  BY <1>1, <1>2 DEF Call, Removal, Frame
<1>5. /\ f.do = "remove" /\ f.at = "unlinking" /\ f.slot = s /\ f.w = HandleAt(i)
      /\ f.new = None
  BY DEF Removal, Frame
<1>. HIDE DEF f
<1>6. Fits(f) /\ PointsWell(f, ents)
  BY <1>1, <1>5 DEF Fits, PointsWell
<1>. QED  BY <1>3, <1>6 DEF GoodCall, f

LEMMA TopOf ==
    ASSUME WorldInv, stack # <<>>
    PROVE  /\ GoodCall(Top, ents) /\ GoodStack(Tail(stack), ents)
           /\ Len(stack) \in Nat /\ Len(Tail(stack)) = Len(stack) - 1
BY TopFacts DEF WorldInv, Top

LEMMA CallsStay ==
    ASSUME WorldInv
    PROVE  /\ GoodStack(stack, ents)
           /\ Disturb => GoodStack(stack', ents) /\ Len(stack') = Len(stack)
BY DisturbedFacts DEF WorldInv, Disturb

LEMMA BeginFacts ==
    ASSUME WorldInv, NEW e, Keeps(ents, e), NEW f, GoodCall(f, e), Begin(f)
    PROVE  GoodStack(stack', e) /\ Len(stack') = Len(stack) + 1
<1>1. GoodStack(Disturbed, e) /\ Len(Disturbed) = Len(stack)
  BY DisturbedFacts, StackKept DEF WorldInv
<1>2. stack' = <<f>> \o Disturbed
  BY DEF Begin
<1>. QED  BY <1>1, <1>2, PushFacts

-----------------------------------------------------------------------------
(* The engine, and the calls that end with one engine call.                *)

LEMMA EngineDeletesKeeps ==
    ASSUME WorldInv, NEW i \in Index, EngineDeletes(i)
    PROVE  WorldInv'
<1>1. stack' = <<>> /\ ents' = [ents EXCEPT ![i] = None] /\ UNCHANGED <<serials, hands>>
  BY DEF EngineDeletes
<1>2. ents' \in [Index -> Entity \cup {None}] /\ serials' \in [Index -> Nat]
  BY <1>1 DEF WorldInv
<1>3. Calm(ents, ents')
  BY <1>1 DEF Calm, WorldInv
<1>4. HandsFollow
  BY <1>1, HandsStay DEF WorldInv
<1>5. GoodStack(stack', ents')
  BY <1>1, NoCalls
<1>6. result' \in {"ok", "failed", "raised", None}
  BY Results DEF EngineDeletes
<1>. QED  BY <1>2, <1>3, <1>4, <1>5, <1>6, StepKeeps

LEMMA EnginePicksUpKeeps ==
    ASSUME WorldInv, NEW s \in Slots, NEW i \in Index, EnginePicksUp(s, i)
    PROVE  WorldInv'
<1>. DEFINE h == HandleAt(i)
            q == Append(inv[s], h)
<1>1. h \in Handle /\ LiveIn(h, ents) /\ ents[h[1]].mark = "no"
  BY EntityFacts DEF EnginePicksUp, HandleAt, WorldInv
<1>2. q \in Seq(Handle) /\ ToSet(q) = ToSet(inv[s]) \cup {h}
  BY <1>1, InvFacts, AppendSet
<1>3. Hand(s, q, active[s], last[s])
  BY InvFacts DEF Hand, EnginePicksUp
<1>4. ents' = ents /\ UNCHANGED <<ents, serials>> /\ stack' = stack
  BY DEF EnginePicksUp
<1>. HIDE DEF h, q
<1>5. \A g \in (ToSet(q) \cup {active[s], last[s]}) \cap Handle :
         \/ g \in Held(inv, active, last, s)
         \/ LiveIn(g, ents') => ents'[g[1]].mark = "no"
  BY <1>1, <1>2, <1>4, InvFacts
<1>6. HandsFollow
  BY <1>2, <1>3, <1>5, InvFacts, OneHand DEF WorldInv
<1>7. result' \in {"ok", "failed", "raised", None}
  BY Results DEF EnginePicksUp
<1>. QED  BY <1>4, <1>6, <1>7, CallsStay, EntsStay

LEMMA WeaponCountKeeps ==
    ASSUME WorldInv, NEW s \in Slots, WeaponCount(s)
    PROVE  WorldInv'
<1>1. Live(inv[s]) \in Seq(Handle) /\ ToSet(Live(inv[s])) \subseteq ToSet(inv[s])
  BY InvFacts, LiveFacts
<1>2. Hand(s, Live(inv[s]), active[s], last[s])
  BY InvFacts DEF WeaponCount, Hand
<1>3. HandsFollow
  BY <1>1, <1>2, NarrowHand
<1>4. result' \in {"ok", "failed", "raised", None} /\ UNCHANGED <<ents, serials>> /\ Disturb
  BY Results DEF WeaponCount
<1>. QED  BY <1>3, <1>4, CallsStay, EntsStay

LEMMA WeaponDropKeeps ==
    ASSUME WorldInv, NEW s \in Slots,
           WeaponDropActive(s) \/ \E i \in Index : WeaponDrop(s, i)
    PROVE  WorldInv'
<1>1. PICK h : DropWeapon(s, h) /\ UNCHANGED last
  BY DEF WeaponDrop, WeaponDropActive
<1>2. HandsFollow
  BY <1>1, DropFacts
<1>3. result' \in {"ok", "failed", "raised", None} /\ UNCHANGED <<ents, serials>> /\ Disturb
  BY Results DEF WeaponDrop, WeaponDropActive
<1>. QED  BY <1>2, <1>3, CallsStay, EntsStay

LEMMA WeaponSwitchKeeps ==
    ASSUME WorldInv, NEW s \in Slots, NEW i \in Index, WeaponSwitch(s, i)
    PROVE  WorldInv'
<1>1. HandleAt(i) \in ToSet(inv[s])
  BY HoldsFacts DEF WeaponSwitch
<1>2. HandsFollow
  BY <1>1, SelectFacts DEF WeaponSwitch
<1>3. result' \in {"ok", "failed", "raised", None} /\ UNCHANGED <<ents, serials>> /\ Disturb
  BY Results DEF WeaponSwitch
<1>. QED  BY <1>2, <1>3, CallsStay, EntsStay

LEMMA WeaponRemoveAllKeeps ==
    ASSUME WorldInv, NEW s \in Slots, WeaponRemoveAll(s)
    PROVE  WorldInv'
<1>. DEFINE Hit(i) == ents[i] # None /\ Contains(inv[s], HandleAt(i)) /\ ents[i].mark = "no"
            d(i) == IF Hit(i) THEN [ents[i] EXCEPT !.mark = "yes"] ELSE ents[i]
<1>1. ents' = [i \in Index |-> d(i)]
  BY DEF WeaponRemoveAll
<1>2. ASSUME NEW i \in Index
      PROVE  /\ d(i) \in Entity \cup {None} /\ (ents[i] # None => d(i) # None)
             /\ ents[i] # None => d(i).serial = ents[i].serial
             /\ (d(i) # None /\ d(i).mark \in Slots) => d(i) = ents[i]
  <2>1. {"no", "yes"} \cap Slots = {} /\ None \notin Entity /\ ents[i] \in Entity \cup {None}
    BY WorldAssumption DEF WorldInv
  <2>2. CASE Hit(i)
    <3>1. ents[i] \in Entity /\ d(i) = [ents[i] EXCEPT !.mark = "yes"]
      BY <2>1, <2>2
    <3>2. d(i) \in Entity /\ d(i).serial = ents[i].serial /\ d(i).mark = "yes"
      <4>. HIDE DEF d
      <4>. QED  BY <3>1 DEF Entity
    <3>. HIDE DEF d
    <3>. QED  BY <2>1, <3>2
  <2>3. CASE ~Hit(i)
    <3>1. d(i) = ents[i]
      BY <2>3
    <3>. HIDE DEF d
    <3>. QED  BY <2>1, <3>1
  <2>. QED  BY <2>2, <2>3
<1>. HIDE DEF d
<1>3. ents' \in [Index -> Entity \cup {None}] /\ Calm(ents, ents') /\ Keeps(ents, ents')
  BY <1>1, <1>2 DEF Calm, Keeps, LiveIn, Handle
<1>4. <<>> \in Seq(Handle) /\ ToSet(<<>>) \subseteq ToSet(inv[s])
  <2>1. <<>> \in Seq(Handle) /\ Len(<<>>) = 0
    BY EmptySeq
  <2>2. ToSet(<<>>) = {<<>>[k] : k \in 1..0}
    BY <2>1, InSet
  <2>3. \A k \in 1..0 : FALSE
    OBVIOUS
  <2>. QED  BY <2>1, <2>2, <2>3
<1>5. Hand(s, <<>>, None, None)
  BY DEF WeaponRemoveAll, Hand
<1>6. HandsFollow
  BY <1>4, <1>5, NarrowHand
<1>7. GoodStack(stack', ents')
  BY <1>3, CallsStay, StackKept DEF WeaponRemoveAll
<1>8. result' \in {"ok", "failed", "raised", None} /\ serials' \in [Index -> Nat]
  BY Results DEF WeaponRemoveAll, WorldInv
<1>. QED  BY <1>3, <1>6, <1>7, <1>8, StepKeeps

LEMMA GivenFacts ==
    ASSUME WorldInv, NEW s \in Slots, NEW i \in Index, NEW c \in Classes, Make(i, c),
           inv' = [inv EXCEPT ![s] = Append(@, NewHandle(i))], UNCHANGED <<active, last>>
    PROVE  HandsFollow
<1>. DEFINE h == NewHandle(i)
            q == Append(inv[s], h)
<1>1. h \in Handle /\ LiveIn(h, ents') /\ ents'[i].mark = "no" /\ h[1] = i
  BY MakeFacts DEF WorldInv, NewHandle
<1>2. q \in Seq(Handle) /\ ToSet(q) = ToSet(inv[s]) \cup {h}
  BY <1>1, InvFacts, AppendSet
<1>3. Hand(s, q, active[s], last[s])
  BY InvFacts DEF Hand
<1>. HIDE DEF h, q
<1>4. \A g \in (ToSet(q) \cup {active[s], last[s]}) \cap Handle :
         \/ g \in Held(inv, active, last, s)
         \/ LiveIn(g, ents') => ents'[g[1]].mark = "no"
  BY <1>1, <1>2, InvFacts
<1>. QED  BY <1>2, <1>3, <1>4, InvFacts, OneHand DEF WorldInv

LEMMA WeaponGiveKeeps ==
    ASSUME WorldInv, NEW s \in Slots, NEW i \in Index, NEW c \in Classes, WeaponGive(s, i, c)
    PROVE  WorldInv'
<1>1. Make(i, c) /\ Disturb
  BY DEF WeaponGive
<1>2. /\ ents' \in [Index -> Entity \cup {None}] /\ serials' \in [Index -> Nat]
      /\ Keeps(ents, ents') /\ Calm(ents, ents')
  BY <1>1, MakeFacts DEF WorldInv
<1>3. HandsFollow
  BY <1>1, GivenFacts DEF WeaponGive
<1>4. GoodStack(stack', ents')
  BY <1>1, <1>2, CallsStay, StackKept
<1>5. result' \in {"ok", "failed", "raised", None}
  BY Results DEF WeaponGive
<1>. QED  BY <1>2, <1>3, <1>4, <1>5, StepKeeps

LEMMA RemoveEntityKeeps ==
    ASSUME WorldInv, NEW i \in Index, RemoveEntity(i)
    PROVE  WorldInv'
<1>1. ents[i] # None /\ UtilRemove(i) /\ Disturb
  BY DEF RemoveEntity, EntityByIndex
<1>2. ents' \in [Index -> Entity \cup {None}] /\ Keeps(ents, ents') /\ Calm(ents, ents')
  BY <1>1, UtilRemoveFacts DEF WorldInv
<1>3. HandsFollow
  BY HandsStay DEF RemoveEntity, WorldInv
<1>4. GoodStack(stack', ents')
  BY <1>1, <1>2, CallsStay, StackKept
<1>5. result' \in {"ok", "failed", "raised", None} /\ serials' \in [Index -> Nat]
  BY Results DEF RemoveEntity, WorldInv
<1>. QED  BY <1>2, <1>3, <1>4, <1>5, StepKeeps

-----------------------------------------------------------------------------
(* weapon_remove, and the loops that call it.                              *)

LEMMA InvNarrows ==
    ASSUME WorldInv, NEW s \in Slots, NEW q \in Seq(Handle), inv' = [inv EXCEPT ![s] = q],
           ToSet(q) \subseteq ToSet(inv[s]), UNCHANGED <<active, last>>
    PROVE  HandsFollow
<1>1. Hand(s, q, active[s], last[s])
  BY InvFacts DEF Hand
<1>. QED  BY <1>1, NarrowHand

LEMMA TwoCalls ==
    ASSUME NEW e, NEW s, GoodStack(s, e), NEW f, GoodCall(f, e), NEW g, GoodCall(g, e)
    PROVE  /\ GoodStack(<<f>> \o <<g>> \o s, e)
           /\ Len(<<f>> \o <<g>> \o s) = Len(s) + 2
<1>1. s \in Seq(Call) /\ Len(s) \in Nat /\ f \in Call /\ g \in Call
  BY LenProperties DEF GoodStack, GoodCall
<1>2. <<f>> \in Seq(Call) /\ <<g>> \in Seq(Call)
  BY <1>1
<1>3. <<f>> \o <<g>> \o s = <<f>> \o (<<g>> \o s)
  BY <1>1, <1>2, ConcatAssociative
<1>4. GoodStack(<<g>> \o s, e) /\ Len(<<g>> \o s) = Len(s) + 1
  BY PushFacts
<1>. DEFINE t == <<g>> \o s
            u == <<f>> \o <<g>> \o s
<1>5. GoodStack(<<f>> \o t, e) /\ Len(<<f>> \o t) = Len(t) + 1
  BY <1>4, PushFacts
<1>6. GoodStack(t, e) /\ Len(t) = Len(s) + 1 /\ u = <<f>> \o t
  BY <1>3, <1>4
<1>. HIDE DEF t, u
<1>7. GoodStack(u, e) /\ Len(u) = Len(s) + 2
  BY <1>1, <1>5, <1>6
<1>. QED  BY <1>7 DEF u

LEMMA RemovePlayerItemFacts ==
    ASSUME WorldInv, NEW s \in Slots, NEW h, RemovePlayerItem(s, h), UNCHANGED <<active, last>>
    PROVE  HandsFollow
<1>1. CASE inv' = inv
  BY <1>1, HandsStay DEF WorldInv, hands
<1>2. CASE inv' = [inv EXCEPT ![s] = Without(@, h)]
  <2>1. /\ Without(inv[s], h) \in Seq(Handle)
        /\ ToSet(Without(inv[s], h)) \subseteq ToSet(inv[s])
    BY InvFacts, WithoutFacts
  <2>2. inv' = [inv EXCEPT ![s] = Without(inv[s], h)]
    BY <1>2
  <2>. QED  BY <2>1, <2>2, InvNarrows
<1>. QED  BY <1>1, <1>2 DEF RemovePlayerItem

LEMMA RemoveWeaponKeeps ==
    ASSUME WorldInv, NEW s \in Slots, NEW i \in Index, NEW delete \in BOOLEAN,
           RemoveWeapon(s, i, delete)
    PROVE  WorldInv'
<1>1. ents[i] # None
  BY HoldsFacts DEF RemoveWeapon
<1>2. GoodCall(Removal(s, i, delete), ents)
  BY <1>1, RemovalFacts
<1>3. Keeps(ents, ents)
  BY DEF Keeps
<1>4. GoodStack(stack', ents)
  BY <1>2, <1>3, BeginFacts DEF RemoveWeapon
<1>5. HandsFollow
  BY RemovePlayerItemFacts DEF RemoveWeapon
<1>6. result' \in {"ok", "failed", "raised", None} /\ UNCHANGED <<ents, serials>>
  BY Results DEF RemoveWeapon
<1>. QED  BY <1>4, <1>5, <1>6, EntsStay

LEMMA RepairFacts ==
    ASSUME WorldInv, NEW s \in Slots, NEW h \in Handle, Repair(s, h)
    PROVE  HandsFollow /\ h \notin Held(inv', active', last', s)
<1>. DEFINE q == Without(inv[s], h)
            a == IF active[s] = h THEN None ELSE active[s]
            l == IF last[s] = h THEN None ELSE last[s]
<1>1. q \in Seq(Handle) /\ ToSet(q) \subseteq ToSet(inv[s]) \ {h}
  BY InvFacts, WithoutFacts
<1>2. Hand(s, q, a, l)
  BY DEF Repair, Hand
<1>3. /\ a \in {active[s], None} /\ l \in {active[s], last[s], None}
      /\ a # h /\ l # h
  BY WorldAssumption
<1>. HIDE DEF q, a, l
<1>4. HandsFollow
  BY <1>1, <1>2, <1>3, NarrowHand
<1>5. inv'[s] = q /\ active'[s] = a /\ last'[s] = l
  BY <1>2 DEF Hand, WorldInv, HandsTyped
<1>6. h \notin Held(inv', active', last', s)
  BY <1>1, <1>3, <1>5 DEF Held
<1>. QED  BY <1>4, <1>6

\* The mark of one entity changes.
LEMMA MarkFacts ==
    ASSUME WorldInv, NEW i \in Index, ents[i] # None, NEW s \in Slots, Mark(i, s)
    PROVE  /\ ents' \in [Index -> Entity \cup {None}] /\ Keeps(ents, ents')
           /\ ents'[i].serial = ents[i].serial /\ ents'[i].mark = s
           /\ ents'[i].class = ents[i].class
           /\ \A j \in Index : j # i => ents'[j] = ents[j]
<1>. DEFINE d == [ents[i] EXCEPT !.mark = s]
<1>1. ents \in [Index -> Entity \cup {None}] /\ ents[i] \in Entity
  BY EntityFacts DEF WorldInv
<1>2. d \in Entity /\ d.serial = ents[i].serial /\ d.mark = s
      /\ d.class = ents[i].class
  BY <1>1 DEF Entity
<1>3. ents' = [ents EXCEPT ![i] = d]
  BY DEF Mark
<1>4. d # None
  BY <1>2, WorldAssumption
<1>. HIDE DEF d
<1>5. ents'[i] = d /\ \A j \in Index : j # i => ents'[j] = ents[j]
  BY <1>1, <1>3
<1>6. ents' \in [Index -> Entity \cup {None}]
  BY <1>1, <1>2, <1>3
<1>7. Keeps(ents, ents')
  BY <1>2, <1>4, <1>5 DEF Keeps, LiveIn, Handle
<1>. QED  BY <1>2, <1>5, <1>6, <1>7

LEMMA RepairAndDeleteKeeps ==
    ASSUME WorldInv, RepairAndDelete
    PROVE  WorldInv'
<1>. DEFINE s == Top.slot
            h == Top.w
<1>1. stack # <<>> /\ Top.do = "remove" /\ Repair(s, h)
  BY DEF RepairAndDelete, At
<1>2. GoodCall(Top, ents) /\ GoodStack(Tail(stack), ents)
  BY <1>1, TopOf
<1>3. s \in Slots /\ h \in Handle
  BY <1>1, <1>2 DEF GoodCall, Fits
<1>4. h \in {Top.w, Top.new} \ {None}
  BY <1>3, WorldAssumption
<1>5. LiveIn(h, ents)
  BY <1>2, <1>4 DEF GoodCall, PointsWell
<1>6. h[1] \in Index /\ ents[h[1]] # None /\ h = <<h[1], h[2]>>
  BY <1>3, <1>5 DEF LiveIn, Handle
<1>7. serials' \in [Index -> Nat] /\ UNCHANGED serials
  BY DEF RepairAndDelete, WorldInv
<1>. HIDE DEF s, h
<1>8. HandsFollow /\ h \notin Held(inv', active', last', s)
  BY <1>1, <1>3, RepairFacts
<1>9. CASE Return("ok") /\ UNCHANGED ents
  <2>1. result' \in {"ok", "failed", "raised", None} /\ stack' = Tail(stack)
    BY <1>9, Results DEF Return
  <2>. QED  BY <1>2, <1>7, <1>8, <1>9, <2>1, EntsStay
<1>10. CASE Mark(h[1], s) /\ Goto("deleting") /\ NoResult
  <2>1. /\ ents' \in [Index -> Entity \cup {None}] /\ Keeps(ents, ents')
        /\ ents'[h[1]].serial = ents[h[1]].serial /\ ents'[h[1]].mark = s
        /\ \A j \in Index : j # h[1] => ents'[j] = ents[j]
    BY <1>3, <1>6, <1>10, MarkFacts
  <2>2. GoodCall([Top EXCEPT !.at = "deleting"], ents)
    BY <1>2, PlaceFacts DEF Places, InEngine
  <2>3. GoodStack(stack', ents)
    BY <1>1, <1>10, <2>2, ReplaceFacts DEF Goto, WorldInv
  <2>4. GoodStack(stack', ents')
    BY <2>1, <2>3, StackKept
  <2>5. ASSUME NEW t \in Slots, NEW g \in Held(inv', active', last', t) \cap Handle,
               LiveIn(g, ents'), ents'[g[1]].mark = t
        PROVE  FALSE
    <3>1. g[1] \in Index /\ g = <<g[1], g[2]>> /\ "no" \notin Slots
      BY WorldAssumption DEF Handle
    <3>2. g \in Held(inv, active, last, t)
      BY <1>8, <2>5, <3>1 DEF HandsFollow
    <3>3. CASE g[1] # h[1]
      <4>1. LiveIn(g, ents) /\ ents[g[1]].mark = t
        BY <2>1, <2>5, <3>1, <3>3 DEF LiveIn
      <4>. QED  BY <3>2, <4>1 DEF WorldInv, Forgotten
    <3>4. CASE g[1] = h[1]
      <4>1. g = h /\ t = s
        BY <1>5, <1>6, <2>1, <2>5, <3>1, <3>4 DEF LiveIn
      <4>. QED  BY <1>8, <4>1
    <3>. QED  BY <3>3, <3>4
  <2>6. Forgotten(ents', inv', active', last')
    BY <2>5 DEF Forgotten
  <2>7. result' \in {"ok", "failed", "raised", None}
    BY <1>10, Results
  <2>. QED  BY <1>7, <1>8, <2>1, <2>4, <2>6, <2>7 DEF WorldInv, HandsFollow
<1>. QED  BY <1>9, <1>10 DEF RepairAndDelete, s, h

\* A call returns, and that is all.
LEMMA ReturnKeeps ==
    ASSUME WorldInv, stack # <<>>, NEW r \in {"ok", "failed", "raised"}, Return(r),
           UNCHANGED <<ents, serials, hands>>
    PROVE  WorldInv'
<1>1. GoodStack(stack', ents)
  BY TopOf DEF Return
<1>2. HandsFollow
  BY HandsStay DEF WorldInv
<1>. QED  BY <1>1, <1>2, Results, EntsStay

\* A call goes on, and that is all.
LEMMA GotoKeeps ==
    ASSUME WorldInv, stack # <<>>,
           NEW p \in Places \ {"giving", "selecting", "rollback", "removing"}, Goto(p),
           NoResult, UNCHANGED <<ents, serials, hands>>
    PROVE  WorldInv'
<1>1. GoodCall([Top EXCEPT !.at = p], ents)
  BY TopOf, PlaceFacts
<1>2. GoodStack(stack', ents)
  BY <1>1, ReplaceFacts DEF Goto, WorldInv
<1>3. HandsFollow
  BY HandsStay DEF WorldInv
<1>. QED  BY <1>2, <1>3, Results, EntsStay

LEMMA StartLoopKeeps ==
    ASSUME WorldInv, NEW do \in {"removeclass", "replace"}, NEW s \in Slots,
           NEW c \in Classes, NEW flag \in BOOLEAN, StartLoop(do, s, c, flag)
    PROVE  WorldInv'
<1>. DEFINE weapons == Live(inv[s])
            others == IF do = "replace" THEN Others(weapons, c) ELSE <<>>
            f == [Frame(do, s, c, flag) EXCEPT !.at = "loop", !.i = Len(weapons),
                                               !.others = others]
<1>1. weapons \in Seq(Handle) /\ ToSet(weapons) \subseteq ToSet(inv[s])
  BY InvFacts, LiveFacts
<1>2. inv' = [inv EXCEPT ![s] = weapons] /\ Begin(f)
      /\ UNCHANGED <<ents, serials, active, last>> /\ NoResult
  BY DEF StartLoop
<1>3. Len(weapons) \in Nat
  BY <1>1, LenProperties
<1>4. others \in Seq(Handle)
  <2>1. Others(weapons, c) \in Seq(Handle) /\ <<>> \in Seq(Handle)
    BY <1>1, KeptSet, EmptySeq DEF Others
  <2>. QED  BY <2>1
<1>. HIDE DEF weapons, others
<1>5. do \in Does /\ "loop" \in Places
  BY DEF Does, Places
<1>6. f \in Call
  BY <1>3, <1>4, <1>5 DEF Call, Frame
<1>7. f.do = do /\ f.at = "loop" /\ f.slot = s /\ f.w = None /\ f.new = None
  BY DEF Frame
<1>. HIDE DEF f
<1>8. GoodCall(f, ents)
  BY <1>6, <1>7 DEF GoodCall, Fits, PointsWell
<1>9. Keeps(ents, ents)
  BY DEF Keeps
<1>10. GoodStack(stack', ents)
  BY <1>2, <1>8, <1>9, BeginFacts
<1>11. HandsFollow
  BY <1>1, <1>2, InvNarrows
<1>. QED  BY <1>2, <1>10, <1>11, Results, EntsStay

LEMMA LoopStepKeeps ==
    ASSUME WorldInv, LoopStep
    PROVE  WorldInv'
<1>. DEFINE s == Top.slot
            weapons == WeaponAt(inv[s], Top.i)
            h == weapons[Top.i]
<1>1. /\ stack # <<>> /\ Top.do \in {"removeclass", "replace"} /\ Top.at = "loop" /\ Top.i > 0
      /\ UNCHANGED <<ents, serials, active, last>>
  BY DEF LoopStep, InLoop, At
<1>2. GoodCall(Top, ents) /\ GoodStack(Tail(stack), ents) /\ GoodStack(stack, ents)
  BY <1>1, TopOf DEF WorldInv
<1>3. s \in Slots /\ Top.i \in Nat \ {0} /\ Top \in Call
  BY <1>1, <1>2 DEF GoodCall, Fits, Call
<1>4. /\ weapons \in Seq(Handle) /\ ToSet(weapons) \subseteq ToSet(inv[s])
      /\ Top.i <= Len(weapons) => h \in Handle /\ LiveIn(h, ents)
  BY <1>3, InvFacts, WeaponAtFacts
<1>5. \/ /\ inv' = [inv EXCEPT ![s] = weapons] /\ Return("failed")
      \/ /\ inv' = [inv EXCEPT ![s] = weapons]
         /\ stack' = <<[Top EXCEPT !.i = @ - 1]>> \o Tail(stack) /\ NoResult
      \/ /\ Top.i <= Len(weapons)
         /\ CallRemove(s, h, Top.do = "replace" \/ Top.flag)
         /\ \E left \in {weapons, Without(weapons, h)} : inv' = [inv EXCEPT ![s] = left]
         /\ NoResult
  BY DEF LoopStep
<1>. HIDE DEF s, weapons
<1>6. CASE inv' = [inv EXCEPT ![s] = weapons] /\ Return("failed")
  <2>1. HandsFollow
    BY <1>1, <1>3, <1>4, <1>6, InvNarrows
  <2>2. GoodStack(stack', ents) /\ result' \in {"ok", "failed", "raised", None}
    BY <1>2, <1>6, Results DEF Return
  <2>. QED  BY <1>1, <2>1, <2>2, EntsStay
<1>7. CASE /\ inv' = [inv EXCEPT ![s] = weapons]
           /\ stack' = <<[Top EXCEPT !.i = @ - 1]>> \o Tail(stack) /\ NoResult
  <2>1. HandsFollow
    BY <1>1, <1>3, <1>4, <1>7, InvNarrows
  <2>2. GoodCall([Top EXCEPT !.at = "loop", !.i = @ - 1], ents)
    BY <1>1, <1>2, LoopFacts
  <2>3. [Top EXCEPT !.at = "loop", !.i = @ - 1] = [Top EXCEPT !.i = @ - 1]
    BY <1>1, <1>3 DEF Call
  <2>4. GoodStack(stack', ents)
    BY <1>1, <1>2, <1>7, <2>2, <2>3, ReplaceFacts
  <2>. QED  BY <1>1, <1>7, <2>1, <2>4, Results, EntsStay
<1>8. CASE /\ Top.i <= Len(weapons)
           /\ CallRemove(s, h, Top.do = "replace" \/ Top.flag)
           /\ \E left \in {weapons, Without(weapons, h)} : inv' = [inv EXCEPT ![s] = left]
           /\ NoResult
  <2>1. PICK left \in {weapons, Without(weapons, h)} : inv' = [inv EXCEPT ![s] = left]
    BY <1>8
  <2>2. left \in Seq(Handle) /\ ToSet(left) \subseteq ToSet(inv[s])
    <3>1. /\ Without(weapons, h) \in Seq(Handle)
          /\ ToSet(Without(weapons, h)) \subseteq ToSet(weapons)
      BY <1>4, WithoutFacts
    <3>. QED  BY <1>4, <2>1, <3>1
  <2>3. HandsFollow
    BY <1>1, <1>3, <2>1, <2>2, InvNarrows
  <2>4. h[1] \in Index /\ ents[h[1]] # None
    BY <1>4, <1>8 DEF Handle, LiveIn
  <2>5. Top.flag \in BOOLEAN
    BY <1>3 DEF Call
  <2>. DEFINE delete == (Top.do = "replace" \/ Top.flag)
  <2>6. delete \in BOOLEAN
    BY <2>5
  <2>. HIDE DEF delete
  <2>7. GoodCall(Removal(s, h[1], delete), ents)
    BY <1>3, <2>4, <2>6, RemovalFacts
  <2>8. GoodCall([Top EXCEPT !.at = "removing"], ents)
    BY <1>1, <1>2, PlaceFacts DEF Places
  <2>9. stack' = <<Removal(s, h[1], delete)>> \o <<[Top EXCEPT !.at = "removing"]>>
                   \o Tail(stack)
    BY <1>8 DEF CallRemove, delete
  <2>10. GoodStack(stack', ents)
    BY <1>2, <2>7, <2>8, <2>9, TwoCalls
  <2>. QED  BY <1>1, <1>8, <2>3, <2>10, Results, EntsStay
<1>. QED  BY <1>5, <1>6, <1>7, <1>8

LEMMA LoopRemovedKeeps ==
    ASSUME WorldInv, LoopRemoved
    PROVE  WorldInv'
<1>1. /\ stack # <<>> /\ Top.at = "removing" /\ UNCHANGED <<ents, serials, hands>>
      /\ \/ /\ stack' = <<[Top EXCEPT !.at = "loop", !.i = @ - 1]>> \o Tail(stack)
            /\ NoResult
         \/ Return("failed")
  BY DEF LoopRemoved, At
<1>2. GoodCall(Top, ents) /\ GoodStack(stack, ents)
  BY <1>1, TopOf DEF WorldInv
<1>3. GoodCall([Top EXCEPT !.at = "loop", !.i = @ - 1], ents)
  BY <1>1, <1>2, LoopFacts DEF GoodCall, Fits
<1>4. CASE /\ stack' = <<[Top EXCEPT !.at = "loop", !.i = @ - 1]>> \o Tail(stack)
           /\ NoResult
  <2>1. GoodStack(stack', ents)
    BY <1>1, <1>2, <1>3, <1>4, ReplaceFacts
  <2>2. HandsFollow
    BY <1>1, HandsStay DEF WorldInv
  <2>. QED  BY <1>1, <1>4, <2>1, <2>2, Results, EntsStay
<1>5. CASE Return("failed")
  BY <1>1, <1>5, ReturnKeeps
<1>. QED  BY <1>1, <1>4, <1>5

\* A step that does nothing but return.
LEMMA ReturnsKeep ==
    ASSUME WorldInv,
           \/ RemoveReturns \/ RemovedByClassname \/ GiveFails \/ Equipped \/ RolledBack
           \/ GrenadeChecked
    PROVE  WorldInv'
<1>1. stack # <<>> /\ UNCHANGED <<ents, serials, hands>>
  BY DEF RemoveReturns, RemovedByClassname, GiveFails, Equipped, RolledBack,
         GrenadeChecked, At
<1>2. \E r \in {"ok", "failed", "raised"} : Return(r)
  BY DEF RemoveReturns, RemovedByClassname, GiveFails, Equipped, RolledBack,
         GrenadeChecked
<1>. QED  BY <1>1, <1>2, ReturnKeeps

-----------------------------------------------------------------------------
(* weapons.replace_slot gives its weapon.                                  *)

LEMMA GiveReplacementKeeps ==
    ASSUME WorldInv, NEW i \in Index, GiveReplacement(i)
    PROVE  WorldInv'
<1>. DEFINE s == Top.slot
            h == NewHandle(i)
            f == [Top EXCEPT !.at = "giving", !.new = h]
<1>1. /\ stack # <<>> /\ Top.do = "replace" /\ Make(i, Top.class)
      /\ inv' = [inv EXCEPT ![s] = Append(@, NewHandle(i))] /\ UNCHANGED <<active, last>>
      /\ stack' = <<f>> \o Tail(stack) /\ NoResult
  BY DEF GiveReplacement, At
<1>2. GoodCall(Top, ents) /\ GoodStack(stack, ents)
  BY <1>1, TopOf DEF WorldInv
<1>3. s \in Slots /\ Top.class \in Classes /\ Top \in Call
  BY <1>1, <1>2 DEF GoodCall, Fits, Call
<1>4. /\ ents' \in [Index -> Entity \cup {None}] /\ serials' \in [Index -> Nat]
      /\ Keeps(ents, ents') /\ Calm(ents, ents') /\ h \in Handle /\ LiveIn(h, ents')
  BY <1>1, <1>3, MakeFacts DEF WorldInv
<1>5. HandsFollow
  BY <1>1, <1>3, GivenFacts
<1>6. GoodCall(Top, ents') /\ GoodStack(stack, ents')
  BY <1>2, <1>4, CallsKept, StackKept
<1>7. GoodCall(f, ents')
  <2>1. "giving" \in Places
    BY DEF Places, InEngine
  <2>2. /\ f \in Call /\ f.do = "replace" /\ f.at = "giving" /\ f.slot = s /\ f.w = Top.w
        /\ f.new = h
    <3>. HIDE DEF h
    <3>. QED  BY <1>1, <1>3, <1>4, <2>1 DEF Call
  <2>. HIDE DEF f, h, s
  <2>3. Fits(f)
    BY <1>3, <1>4, <2>2 DEF Fits
  <2>4. PointsWell(f, ents')
    BY <1>4, <1>6, <2>2 DEF GoodCall, PointsWell
  <2>. QED  BY <2>2, <2>3, <2>4 DEF GoodCall
<1>. HIDE DEF f
<1>8. GoodStack(stack', ents')
  BY <1>1, <1>6, <1>7, ReplaceFacts
<1>. QED  BY <1>1, <1>4, <1>5, <1>8, Results, StepKeeps

LEMMA EquipReplacementKeeps ==
    ASSUME WorldInv, EquipReplacement
    PROVE  WorldInv'
<1>. DEFINE s == Top.slot
            h == Top.new
<1>1. stack # <<>> /\ Top.do = "replace" /\ Top.at = "giving" /\ UNCHANGED <<ents, serials>>
  BY DEF EquipReplacement, At
<1>2. GoodCall(Top, ents) /\ GoodStack(stack, ents) /\ GoodStack(Tail(stack), ents)
  BY <1>1, TopOf DEF WorldInv
<1>3. s \in Slots /\ h \in Handle
  BY <1>1, <1>2 DEF GoodCall, Fits
<1>4. h[1] \in Index /\ h = HandleAt(h[1])
  <2>1. LiveIn(h, ents)
    BY <1>2, <1>3, WorldAssumption DEF GoodCall, PointsWell
  <2>2. h[1] \in Index /\ h = <<h[1], h[2]>>
    BY <1>3 DEF Handle
  <2>. QED  BY <2>1, <2>2 DEF LiveIn, HandleAt
<1>5. \/ \E r \in {"ok", "failed"} : Return(r) /\ UNCHANGED hands
      \/ /\ Holds(s, h[1]) /\ Select(s, h) /\ Goto("selecting") /\ UNCHANGED inv /\ NoResult
      \/ /\ Holds(s, h[1])
         /\ stack' = <<Removal(s, h[1], TRUE)>> \o <<[Top EXCEPT !.at = "rollback"]>>
                      \o Tail(stack)
         /\ RemovePlayerItem(s, h) /\ UNCHANGED <<active, last>> /\ NoResult
  BY DEF EquipReplacement
<1>6. "selecting" \in Places /\ "rollback" \in Places
  BY DEF Places, InEngine
<1>7. CASE \E r \in {"ok", "failed"} : Return(r) /\ UNCHANGED hands
  <2>1. PICK r \in {"ok", "failed", "raised"} : Return(r) /\ UNCHANGED hands
    BY <1>7
  <2>2. UNCHANGED <<ents, serials, hands>>
    BY <1>1, <2>1
  <2>. QED  BY <1>1, <2>1, <2>2, ReturnKeeps
<1>8. CASE /\ Holds(s, h[1]) /\ Select(s, h) /\ Goto("selecting") /\ UNCHANGED inv /\ NoResult
  <2>1. h \in ToSet(inv[s])
    BY <1>3, <1>4, <1>8, HoldsFacts
  <2>2. HandsFollow
    BY <1>3, <1>8, <2>1, SelectFacts
  <2>3. GoodCall([Top EXCEPT !.at = "selecting"], ents)
    BY <1>2, <1>3, <1>6, PlaceFacts
  <2>4. GoodStack(stack', ents)
    BY <1>1, <1>2, <1>8, <2>3, ReplaceFacts DEF Goto
  <2>. QED  BY <1>1, <1>8, <2>2, <2>4, Results, EntsStay
<1>9. CASE /\ Holds(s, h[1])
           /\ stack' = <<Removal(s, h[1], TRUE)>> \o <<[Top EXCEPT !.at = "rollback"]>>
                        \o Tail(stack)
           /\ RemovePlayerItem(s, h) /\ UNCHANGED <<active, last>> /\ NoResult
  <2>1. HandsFollow
    BY <1>3, <1>9, RemovePlayerItemFacts
  <2>2. ents[h[1]] # None
    BY <1>3, <1>4, <1>9, HoldsFacts
  <2>3. GoodCall(Removal(s, h[1], TRUE), ents)
    BY <1>3, <1>4, <2>2, RemovalFacts
  <2>4. GoodCall([Top EXCEPT !.at = "rollback"], ents)
    BY <1>2, <1>3, <1>6, PlaceFacts
  <2>5. GoodStack(stack', ents)
    BY <1>2, <1>9, <2>3, <2>4, TwoCalls
  <2>. QED  BY <1>1, <1>9, <2>1, <2>5, Results, EntsStay
<1>. QED  BY <1>5, <1>7, <1>8, <1>9

-----------------------------------------------------------------------------
(* entities.create and grenades.spawn.                                     *)

LEMMA BeginCreationKeeps ==
    ASSUME WorldInv, NEW do \in {"create", "grenade"}, NEW i \in Index, NEW c \in Classes,
           BeginCreation(do, i, c)
    PROVE  WorldInv'
<1>. DEFINE h == NewHandle(i)
            f == [Frame(do, None, c, FALSE) EXCEPT !.at = "creating", !.new = h]
<1>1. Make(i, c) /\ Begin(f) /\ UNCHANGED hands /\ NoResult
  BY DEF BeginCreation
<1>2. /\ ents' \in [Index -> Entity \cup {None}] /\ serials' \in [Index -> Nat]
      /\ Keeps(ents, ents') /\ Calm(ents, ents') /\ h \in Handle /\ LiveIn(h, ents')
  BY <1>1, MakeFacts DEF WorldInv
<1>3. do \in Does /\ "creating" \in Places /\ <<>> \in Seq(Handle)
  BY EmptySeq DEF Does, Places, InEngine
<1>. HIDE DEF h
<1>4. f \in Call
  BY <1>2, <1>3 DEF Call, Frame
<1>5. f.do = do /\ f.at = "creating" /\ f.w = None /\ f.new = h
  BY DEF Frame
<1>. HIDE DEF f
<1>6. GoodCall(f, ents')
  BY <1>2, <1>4, <1>5 DEF GoodCall, Fits, PointsWell
<1>7. GoodStack(stack', ents')
  BY <1>1, <1>2, <1>6, BeginFacts
<1>8. HandsFollow
  BY <1>1, HandsStay DEF WorldInv
<1>. QED  BY <1>1, <1>2, <1>7, <1>8, Results, StepKeeps

\* The roll-back removes the entity, which is still the one that was made.
LEMMA RollBackFacts ==
    ASSUME WorldInv, stack # <<>>, Top.do \in {"create", "grenade"}, RollBack,
           UNCHANGED <<serials, hands>>
    PROVE  WorldInv' /\ ents'[Top.new[1]].mark # "no"
<1>. DEFINE h == Top.new
<1>1. GoodCall(Top, ents) /\ GoodStack(Tail(stack), ents)
  BY TopOf
<1>2. h \in Handle
  BY <1>1 DEF GoodCall, Fits
<1>3. LiveIn(h, ents) /\ h[1] \in Index
  BY <1>1, <1>2, WorldAssumption DEF GoodCall, PointsWell, Handle
<1>4. UtilRemove(h[1]) /\ Return("failed") /\ ents[h[1]] # None
  BY <1>3 DEF RollBack, EntityByIndex, LiveIn
<1>. HIDE DEF h
<1>5. /\ ents' \in [Index -> Entity \cup {None}] /\ Keeps(ents, ents')
      /\ Calm(ents, ents') /\ ents'[h[1]].mark # "no"
  BY <1>3, <1>4, UtilRemoveFacts DEF WorldInv
<1>6. GoodStack(stack', ents')
  BY <1>1, <1>4, <1>5, StackKept DEF Return
<1>7. HandsFollow
  BY HandsStay DEF WorldInv
<1>8. serials' \in [Index -> Nat] /\ result' \in {"ok", "failed", "raised", None}
  BY <1>4, Results DEF WorldInv
<1>. QED  BY <1>5, <1>6, <1>7, <1>8, StepKeeps DEF h

\* A step of a creation after the host has reported the entity.
CreationStep ==
    \/ CreateOptions \/ CreateSpawn \/ CreateRefresh
    \/ GrenadeTeleport \/ GrenadeFields \/ GrenadeReport

LEMMA CreationSteps ==
    ASSUME CreationStep
    PROVE  /\ stack # <<>> /\ Top.do \in {"create", "grenade"} /\ UNCHANGED <<serials, hands>>
           /\ \/ RollBack
              \/ \E r \in {"ok", "raised"} : Return(r) /\ UNCHANGED ents
              \/ \E p \in {"placing", "placed", "spawning", "spawned", "released"} :
                    Goto(p) /\ UNCHANGED ents /\ NoResult
<1>1. stack # <<>> /\ Top.do \in {"create", "grenade"} /\ UNCHANGED <<serials, hands>>
  BY DEF CreationStep, CreateOptions, CreateSpawn, CreateRefresh, GrenadeTeleport,
         GrenadeFields, GrenadeReport, At
<1>2. \/ RollBack
      \/ \E r \in {"ok", "raised"} : Return(r) /\ UNCHANGED ents
      \/ \E p \in {"placing", "placed", "spawning", "spawned", "released"} :
            Goto(p) /\ UNCHANGED ents /\ NoResult
  BY DEF CreationStep, CreateOptions, CreateSpawn, CreateRefresh, GrenadeTeleport,
         GrenadeFields, GrenadeReport
<1>. QED  BY <1>1, <1>2

LEMMA CreationKeeps ==
    ASSUME WorldInv, CreationStep
    PROVE  WorldInv'
<1>1. CASE RollBack
  BY <1>1, CreationSteps, RollBackFacts
<1>2. ASSUME NEW r \in {"ok", "raised"}, Return(r), UNCHANGED ents
      PROVE  WorldInv'
  <2>1. UNCHANGED <<ents, serials, hands>> /\ stack # <<>>
    BY <1>2, CreationSteps
  <2>. QED  BY <1>2, <2>1, ReturnKeeps
<1>3. ASSUME NEW p \in {"placing", "placed", "spawning", "spawned", "released"}, Goto(p),
             UNCHANGED ents, NoResult
      PROVE  WorldInv'
  <2>1. UNCHANGED <<ents, serials, hands>> /\ stack # <<>>
    BY <1>3, CreationSteps
  <2>2. p \in Places \ {"giving", "selecting", "rollback", "removing"}
    BY DEF Places, InEngine
  <2>. QED  BY <1>3, <2>1, <2>2, GotoKeeps
<1>. QED  BY <1>1, <1>2, <1>3, CreationSteps

LEMMA CreatedKeeps ==
    ASSUME WorldInv, Created
    PROVE  WorldInv'
<1>1. stack # <<>> /\ UNCHANGED <<ents, serials, hands>>
  BY DEF Created, At
<1>2. CASE Return("failed")
  BY <1>1, <1>2, ReturnKeeps
<1>3. CASE Goto("options") /\ NoResult
  <2>1. "options" \in Places \ {"giving", "selecting", "rollback", "removing"}
    BY DEF Places
  <2>. QED  BY <1>1, <1>3, <2>1, GotoKeeps
<1>. QED  BY <1>2, <1>3 DEF Created

-----------------------------------------------------------------------------
(* The invariant.                                                          *)

LEMMA InitInv == ASSUME Init PROVE WorldInv
<1>1. /\ ents \in [Index -> Entity \cup {None}] /\ serials \in [Index -> Nat]
      /\ result \in {"ok", "failed", "raised", None}
  BY DEF Init
<1>2. HandsTyped(inv, active, last)
  <2>1. <<>> \in Seq(Handle)
    BY EmptySeq
  <2>. QED  BY <2>1 DEF HandsTyped, Init
<1>3. GoodStack(stack, ents)
  BY NoCalls DEF Init
<1>4. Forgotten(ents, inv, active, last)
  <2>1. \A h \in Handle : ~LiveIn(h, ents)
    BY DEF Init, LiveIn, Handle
  <2>. QED  BY <2>1 DEF Forgotten
<1>. QED  BY <1>1, <1>2, <1>3, <1>4 DEF WorldInv

LEMMA NextInv == ASSUME WorldInv, Next PROVE WorldInv'
<1>1. ASSUME NEW i \in Index, EngineDeletes(i) \/ RemoveEntity(i) \/ GiveReplacement(i)
      PROVE  WorldInv'
  BY <1>1, EngineDeletesKeeps, RemoveEntityKeeps, GiveReplacementKeeps
<1>2. ASSUME NEW i \in Index, NEW c \in Classes, CreateEntity(i, c) \/ SpawnGrenade(i, c)
      PROVE  WorldInv'
  BY <1>2, BeginCreationKeeps DEF CreateEntity, SpawnGrenade
<1>3. ASSUME NEW s \in Slots, WeaponCount(s) \/ WeaponDropActive(s) \/ WeaponRemoveAll(s)
      PROVE  WorldInv'
  BY <1>3, WeaponCountKeeps, WeaponDropKeeps, WeaponRemoveAllKeeps
<1>4. ASSUME NEW s \in Slots, NEW i \in Index,
             EnginePicksUp(s, i) \/ WeaponDrop(s, i) \/ WeaponSwitch(s, i)
      PROVE  WorldInv'
  BY <1>4, EnginePicksUpKeeps, WeaponDropKeeps, WeaponSwitchKeeps
<1>5. ASSUME NEW s \in Slots, NEW i \in Index, NEW delete \in BOOLEAN,
             RemoveWeapon(s, i, delete)
      PROVE  WorldInv'
  BY <1>5, RemoveWeaponKeeps
<1>6. ASSUME NEW s \in Slots, NEW i \in Index, NEW c \in Classes, WeaponGive(s, i, c)
      PROVE  WorldInv'
  BY <1>6, WeaponGiveKeeps
<1>7. ASSUME NEW s \in Slots, NEW c \in Classes, NEW flag \in BOOLEAN,
             RemoveByClassname(s, c, flag) \/ ReplaceSlot(s, c, flag)
      PROVE  WorldInv'
  BY <1>7, StartLoopKeeps DEF RemoveByClassname, ReplaceSlot
<1>8. CASE RepairAndDelete \/ LoopStep \/ LoopRemoved \/ EquipReplacement \/ Created
  BY <1>8, RepairAndDeleteKeeps, LoopStepKeeps, LoopRemovedKeeps, EquipReplacementKeeps,
     CreatedKeeps
<1>9. CASE \/ RemoveReturns \/ RemovedByClassname \/ GiveFails \/ Equipped \/ RolledBack
           \/ GrenadeChecked
  BY <1>9, ReturnsKeep
<1>10. CASE CreationStep
  BY <1>10, CreationKeeps
<1>. QED  BY <1>1, <1>2, <1>3, <1>4, <1>5, <1>6, <1>7, <1>8, <1>9, <1>10
          DEF Next, CreationStep

LEMMA StutterInv == ASSUME WorldInv, UNCHANGED vars PROVE WorldInv'
<1>1. UNCHANGED <<ents, serials, hands, stack, result>>
  BY DEF vars, hands
<1>2. HandsFollow /\ GoodStack(stack', ents) /\ result' \in {"ok", "failed", "raised", None}
  BY <1>1, HandsStay DEF WorldInv
<1>. QED  BY <1>1, <1>2, EntsStay

LEMMA Invariance == Spec => []WorldInv
<1>1. Init => WorldInv
  BY InitInv
<1>2. WorldInv /\ [Next]_vars => WorldInv'
  BY NextInv, StutterInv
<1>. QED  BY <1>1, <1>2, PTL DEF Spec

\* Entities, inventories and calls have their types, however many entities the
\* engine makes and however deep the callbacks nest.
THEOREM TypeCorrect == Spec => []TypeOK
<1>1. WorldInv => TypeOK
  BY DEF WorldInv, HandsTyped, GoodStack, TypeOK
<1>. QED  BY <1>1, Invariance, PTL

\* weapon_remove (game_api_players.cpp:448): whatever callbacks do between its engine
\* calls, a weapon it has deleted is in no inventory, and is neither the active nor
\* the last weapon of the player it was deleted for.
THEOREM DeletedStayForgotten == Spec => []DeletedIsForgotten
<1>1. ASSUME WorldInv PROVE DeletedIsForgotten
  <2>1. SUFFICES ASSUME NEW i \in Index, NEW s \in Slots, ents[i] # None, ents[i].mark = s
                 PROVE  HandleAt(i) \notin Held(inv, active, last, s)
    <3>1. \A i \in Index, s \in Slots : Contains(inv[s], HandleAt(i)) <=>
                                        HandleAt(i) \in ToSet(inv[s])
      BY <1>1, InvFacts, InSet
    <3>. QED  BY <3>1 DEF DeletedIsForgotten, Held
  <2>2. HandleAt(i) \in Handle /\ LiveIn(HandleAt(i), ents) /\ HandleAt(i)[1] = i
    BY <1>1, <2>1, EntityFacts DEF WorldInv, HandleAt
  <2>. QED  BY <1>1, <2>1, <2>2 DEF WorldInv, Forgotten
<1>. QED  BY <1>1, Invariance, PTL

\* The entity pointers that weapon_remove, replace_slot, entities.create and
\* grenades.spawn keep while callbacks run (game_api_players.cpp:454,
\* entities.cpp:351) stay those of the entities they were taken of.
THEOREM PointersOutliveCallbacks == Spec => []PointersStayGood
<1>1. ASSUME WorldInv PROVE PointersStayGood
  <2>1. ASSUME NEW k \in DOMAIN stack PROVE PointsWell(stack[k], ents)
    <3>1. k \in 1..Len(stack)
      BY <1>1, LenProperties DEF WorldInv, GoodStack
    <3>. QED  BY <1>1, <3>1 DEF WorldInv, GoodStack, GoodCall
  <2>. QED  BY <2>1 DEF PointersStayGood, PointsWell, LiveIn, EntityByHandle
<1>. QED  BY <1>1, Invariance, PTL

-----------------------------------------------------------------------------
(* Which steps return from a call.                                         *)

NothingReturns == \A do : ~Returns(do)

LEMMA LongerNeverReturns ==
    ASSUME WorldInv, stack # <<>> => Len(stack') >= Len(stack)
    PROVE  NothingReturns
<1>1. stack # <<>> => /\ Len(stack) \in Nat /\ Len(Tail(stack)) = Len(stack) - 1
  BY TopOf
<1>. QED  BY <1>1 DEF NothingReturns, Returns

LEMMA PushNeverReturns ==
    ASSUME WorldInv, NEW f, NEW s, s \in Seq(Call), stack' = <<f>> \o s,
           stack # <<>> => Len(s) >= Len(stack) - 1
    PROVE  NothingReturns
<1>. DEFINE S == Call \cup {f}
<1>1. s \in Seq(S) /\ <<f>> \in Seq(S) /\ Len(<<f>>) = 1
  BY SeqMonotonic
<1>2. Len(<<f>> \o s) = Len(<<f>>) + Len(s) /\ Len(s) \in Nat
  BY <1>1, ConcatProperties, LenProperties
<1>3. Len(stack') = Len(s) + 1 /\ Len(s) \in Nat
  BY <1>1, <1>2
<1>. QED  BY <1>3, TopOf, LongerNeverReturns

LEMMA BeginNeverReturns ==
    ASSUME WorldInv, NEW f, Begin(f)
    PROVE  NothingReturns
<1>1. Len(Disturbed) = Len(stack) /\ Disturbed \in Seq(Call) /\ Len(stack) \in Nat
  BY DisturbedFacts, LenProperties DEF WorldInv, GoodStack
<1>2. stack' = <<f>> \o Disturbed
  BY DEF Begin
<1>3. stack # <<>> => Len(Disturbed) >= Len(stack) - 1
  BY <1>1
<1>. QED  BY <1>1, <1>2, <1>3, PushNeverReturns

LEMMA GotoNeverReturns ==
    ASSUME WorldInv, stack # <<>>, NEW p, Goto(p)
    PROVE  NothingReturns
<1>1. Tail(stack) \in Seq(Call) /\ Len(Tail(stack)) = Len(stack) - 1 /\ Len(stack) \in Nat
  BY TopOf DEF GoodStack
<1>. DEFINE f == [Top EXCEPT !.at = p]
<1>2. stack' = <<f>> \o Tail(stack)
  BY DEF Goto
<1>. HIDE DEF f
<1>3. stack # <<>> => Len(Tail(stack)) >= Len(stack) - 1
  BY <1>1
<1>. QED  BY <1>1, <1>2, <1>3, PushNeverReturns

\* Steps of the engine, and those that begin a call.
LEMMA StepsThatReturn ==
    ASSUME WorldInv, Next
    PROVE  \/ NothingReturns \/ RepairAndDelete \/ RemoveReturns
           \/ LoopStep \/ LoopRemoved \/ RemovedByClassname
           \/ (\E i \in Index : GiveReplacement(i))
           \/ GiveFails \/ EquipReplacement \/ Equipped \/ RolledBack
           \/ Created \/ GrenadeChecked \/ CreationStep
<1>1. ASSUME NEW i \in Index, EngineDeletes(i) PROVE NothingReturns
  BY <1>1 DEF EngineDeletes, NothingReturns, Returns
<1>2. ASSUME NEW s \in Slots, NEW i \in Index, EnginePicksUp(s, i) PROVE NothingReturns
  BY <1>2 DEF EnginePicksUp, NothingReturns, Returns
<1>3. ASSUME Disturb PROVE NothingReturns
  <2>1. Len(stack') = Len(stack) /\ Len(stack) \in Nat
    BY <1>3, CallsStay, LenProperties DEF GoodStack
  <2>. QED  BY <2>1, LongerNeverReturns
<1>4. ASSUME NEW i \in Index, RemoveEntity(i) PROVE NothingReturns
  BY <1>3, <1>4 DEF RemoveEntity
<1>5. ASSUME NEW s \in Slots, WeaponCount(s) \/ WeaponDropActive(s) \/ WeaponRemoveAll(s)
      PROVE  NothingReturns
  BY <1>3, <1>5 DEF WeaponCount, WeaponDropActive, WeaponRemoveAll
<1>6. ASSUME NEW s \in Slots, NEW i \in Index, WeaponDrop(s, i) \/ WeaponSwitch(s, i)
      PROVE  NothingReturns
  BY <1>3, <1>6 DEF WeaponDrop, WeaponSwitch
<1>7. ASSUME NEW s \in Slots, NEW i \in Index, NEW c \in Classes, WeaponGive(s, i, c)
      PROVE  NothingReturns
  BY <1>3, <1>7 DEF WeaponGive
<1>8. ASSUME NEW s \in Slots, NEW i \in Index, NEW delete \in BOOLEAN,
             RemoveWeapon(s, i, delete)
      PROVE  NothingReturns
  BY <1>8, BeginNeverReturns DEF RemoveWeapon
<1>9. ASSUME NEW s \in Slots, NEW c \in Classes, NEW flag \in BOOLEAN,
             RemoveByClassname(s, c, flag) \/ ReplaceSlot(s, c, flag)
      PROVE  NothingReturns
  <2>1. \E f : Begin(f)
    BY <1>9 DEF RemoveByClassname, ReplaceSlot, StartLoop
  <2>. QED  BY <2>1, BeginNeverReturns
<1>10. ASSUME NEW i \in Index, NEW c \in Classes, CreateEntity(i, c) \/ SpawnGrenade(i, c)
       PROVE  NothingReturns
  <2>1. \E f : Begin(f)
    BY <1>10 DEF CreateEntity, SpawnGrenade, BeginCreation
  <2>. QED  BY <2>1, BeginNeverReturns
<1>. QED  BY <1>1, <1>2, <1>4, <1>5, <1>6, <1>7, <1>8, <1>9, <1>10 DEF Next, CreationStep

-----------------------------------------------------------------------------
(* Creation rolls back.                                                    *)

RollsBack ==
    (Creates /\ result' = "failed" /\ Top.at \notin {"creating", "released"}) =>
        ents'[Top.new[1]].mark # "no"

LEMMA CreationRollsBack == ASSUME WorldInv, CreationStep PROVE RollsBack
<1>1. CASE RollBack
  BY <1>1, CreationSteps, RollBackFacts DEF RollsBack
<1>2. ASSUME NEW r \in {"ok", "raised"}, Return(r) PROVE RollsBack
  BY <1>2 DEF Return, RollsBack
<1>3. ASSUME NEW p, Goto(p) PROVE RollsBack
  BY <1>3, CreationSteps, GotoNeverReturns DEF RollsBack, NothingReturns, Creates
<1>. QED  BY <1>1, <1>2, <1>3, CreationSteps

\* Every other step: it returns from no creation, or from one where the roll-back is
\* not armed yet or released.
LEMMA OthersNeverRollBack == ASSUME WorldInv, Next, ~CreationStep PROVE RollsBack
<1>1. NothingReturns => ~Creates
  BY DEF NothingReturns, Creates
<1>2. ASSUME RepairAndDelete \/ RemoveReturns PROVE ~Creates
  BY <1>2 DEF RepairAndDelete, RemoveReturns, At, Creates, Returns
<1>3. ASSUME LoopStep \/ LoopRemoved \/ RemovedByClassname PROVE ~Creates
  BY <1>3 DEF LoopStep, InLoop, LoopRemoved, RemovedByClassname, At, Creates, Returns
<1>4. ASSUME GiveFails \/ EquipReplacement \/ Equipped \/ RolledBack PROVE ~Creates
  BY <1>4 DEF GiveFails, EquipReplacement, Equipped, RolledBack, At, Creates, Returns
<1>5. ASSUME NEW i \in Index, GiveReplacement(i) PROVE ~Creates
  BY <1>5 DEF GiveReplacement, At, Creates, Returns
<1>6. ASSUME Created \/ GrenadeChecked PROVE Top.at \in {"creating", "released"}
  BY <1>6 DEF Created, GrenadeChecked, At
<1>. QED  BY <1>1, <1>2, <1>3, <1>4, <1>5, <1>6, StepsThatReturn DEF RollsBack

\* entities.create and grenades.spawn (entities.cpp:325,
\* game_api_advanced_schema_grenades_build.cpp:265): a call that returns nil after the
\* host has reported the new entity has removed that entity, at whatever step it
\* fails and whatever callbacks did to it, until the roll-back is released.
THEOREM CreationIsRolledBack == Spec => CreateRollsBack
<1>1. WorldInv /\ [Next]_vars => [RollsBack]_vars
  BY CreationRollsBack, OthersNeverRollBack
<1>2. CreateRollsBack <=> [][RollsBack]_vars
  BY DEF CreateRollsBack, RollsBack
<1>. QED  BY <1>1, <1>2, Invariance, PTL DEF Spec

-----------------------------------------------------------------------------
(* Handles are given out once, and held once.                              *)

\* Every handle of an inventory has been given out.
Numbered == \A s \in Slots : \A h \in ToSet(inv[s]) : h[2] <= serials[h[1]]

HoldInv == SerialsAreCurrent /\ HeldOnce /\ Numbered

LEMMA HoldInit == ASSUME Init PROVE HoldInv
<1>1. ToSet(<<>>) = {} /\ IsInjective(<<>>)
  BY DEF ToSet, IsInjective
<1>. QED  BY <1>1 DEF Init, HoldInv, SerialsAreCurrent, HeldOnce, Numbered

\* The entities that are there keep their serial numbers, or go.
SameSerials(e, d) == \A i \in Index : d[i] # None => e[i] # None /\ d[i].serial = e[i].serial

LEMMA HoldNarrows ==
    ASSUME WorldInv, HoldInv, UNCHANGED serials, SameSerials(ents, ents'), NEW s \in Slots,
           NEW q, inv' = [inv EXCEPT ![s] = q], IsInjective(q), ToSet(q) \subseteq ToSet(inv[s])
    PROVE  HoldInv'
<1>1. inv'[s] = q /\ \A t \in Slots : t # s => inv'[t] = inv[t]
  BY DEF WorldInv, HandsTyped
<1>2. SerialsAreCurrent'
  BY DEF HoldInv, SerialsAreCurrent, SameSerials
<1>3. HeldOnce'
  BY <1>1 DEF HoldInv, HeldOnce
<1>4. Numbered'
  BY <1>1 DEF HoldInv, Numbered
<1>. QED  BY <1>2, <1>3, <1>4 DEF HoldInv

LEMMA HoldStays ==
    ASSUME HoldInv, UNCHANGED <<inv, serials>>, SameSerials(ents, ents')
    PROVE  HoldInv'
<1>1. SerialsAreCurrent'
  BY DEF HoldInv, SerialsAreCurrent, SameSerials
<1>2. HeldOnce' /\ Numbered'
  BY DEF HoldInv, HeldOnce, Numbered
<1>. QED  BY <1>1, <1>2 DEF HoldInv

LEMMA HoldLonger ==
    ASSUME WorldInv, HoldInv, \A i \in Index : serials'[i] >= serials[i],
           serials' \in [Index -> Nat], SerialsAreCurrent',
           NEW s \in Slots, NEW h \in Handle, h[2] <= serials'[h[1]], h \notin ToSet(inv[s]),
           inv' = [inv EXCEPT ![s] = Append(@, h)]
    PROVE  HoldInv'
<1>1. /\ inv'[s] = Append(inv[s], h) /\ inv[s] \in Seq(Handle)
      /\ \A t \in Slots : t # s => inv'[t] = inv[t]
  BY DEF WorldInv, HandsTyped
<1>2. /\ ToSet(inv'[s]) = ToSet(inv[s]) \cup {h}
      /\ IsInjective(inv'[s]) <=> IsInjective(inv[s]) /\ h \notin ToSet(inv[s])
  BY <1>1, AppendSet, AppendOnce
<1>3. HeldOnce'
  BY <1>1, <1>2 DEF HoldInv, HeldOnce
<1>4. ASSUME NEW t \in Slots, NEW g \in ToSet(inv'[t]) PROVE g[2] <= serials'[g[1]]
  <2>1. CASE g = h
    BY <2>1
  <2>2. CASE g # h
    <3>1. g \in ToSet(inv[t])
      BY <1>1, <1>2, <2>2
    <3>2. g[2] <= serials[g[1]] /\ g[1] \in Index /\ g[2] \in Nat
      BY <3>1, InvFacts DEF HoldInv, Numbered, Handle
    <3>3. serials[g[1]] \in Nat /\ serials'[g[1]] \in Nat /\ serials'[g[1]] >= serials[g[1]]
      BY <3>2 DEF WorldInv
    <3>. QED  BY <3>2, <3>3
  <2>. QED  BY <2>1, <2>2
<1>. QED  BY <1>3, <1>4 DEF HoldInv, Numbered

\* A new entity.
LEMMA HoldMakes ==
    ASSUME WorldInv, HoldInv, NEW i \in Index, NEW c \in Classes, Make(i, c)
    PROVE  /\ SerialsAreCurrent' /\ \A j \in Index : serials'[j] >= serials[j]
           /\ NewHandle(i) \in Handle /\ NewHandle(i)[2] <= serials'[NewHandle(i)[1]]
           /\ \A s \in Slots : NewHandle(i) \notin ToSet(inv[s])
           /\ serials' \in [Index -> Nat]
           /\ UNCHANGED inv => HoldInv'
<1>. DEFINE d == [serial |-> serials[i] + 1, class |-> c, mark |-> "no"]
<1>1. /\ ents' = [ents EXCEPT ![i] = d] /\ serials' = [serials EXCEPT ![i] = @ + 1]
      /\ serials \in [Index -> Nat] /\ ents \in [Index -> Entity \cup {None}]
      /\ d.serial = serials[i] + 1
  BY DEF Make, WorldInv
<1>. HIDE DEF d
<1>2. SerialsAreCurrent'
  BY <1>1 DEF HoldInv, SerialsAreCurrent
<1>3. \A j \in Index : serials'[j] >= serials[j]
  BY <1>1
<1>4. /\ NewHandle(i) \in Handle /\ NewHandle(i)[1] = i /\ NewHandle(i)[2] = serials[i] + 1
      /\ serials'[i] = serials[i] + 1 /\ serials[i] \in Nat
  BY <1>1 DEF NewHandle, Handle
<1>5. ASSUME NEW s \in Slots, NewHandle(i) \in ToSet(inv[s]) PROVE FALSE
  BY <1>4, <1>5 DEF HoldInv, Numbered
<1>6. ASSUME UNCHANGED inv PROVE HoldInv'
  <2>1. HeldOnce'
    BY <1>6 DEF HoldInv, HeldOnce
  <2>2. ASSUME NEW t \in Slots, NEW g \in ToSet(inv[t]) PROVE g[2] <= serials'[g[1]]
    <3>1. g[2] <= serials[g[1]] /\ g[1] \in Index /\ g[2] \in Nat
      BY InvFacts DEF HoldInv, Numbered, Handle
    <3>2. serials[g[1]] \in Nat /\ serials'[g[1]] \in Nat /\ serials'[g[1]] >= serials[g[1]]
      BY <1>1, <1>3, <3>1
    <3>. QED  BY <3>1, <3>2
  <2>. QED  BY <1>2, <1>6, <2>1, <2>2 DEF HoldInv, Numbered
<1>7. serials' \in [Index -> Nat]
  BY <1>1
<1>. QED  BY <1>2, <1>3, <1>4, <1>5, <1>6, <1>7

\* UTIL_Remove and weapon_remove change a mark.
LEMMA MarkSerials ==
    ASSUME WorldInv, NEW i \in Index, ents[i] # None, NEW m, Mark(i, m)
    PROVE  SameSerials(ents, ents')
<1>. DEFINE d == [ents[i] EXCEPT !.mark = m]
<1>1. ents \in [Index -> Entity \cup {None}] /\ ents[i] \in Entity
  BY EntityFacts DEF WorldInv
<1>2. d.serial = ents[i].serial
  BY <1>1 DEF Entity
<1>3. ents' = [ents EXCEPT ![i] = d]
  BY DEF Mark
<1>. HIDE DEF d
<1>. QED  BY <1>1, <1>2, <1>3 DEF SameSerials

LEMMA EntsSame == UNCHANGED ents => SameSerials(ents, ents')
BY DEF SameSerials

LEMMA WithoutHold ==
    ASSUME WorldInv, HoldInv, NEW s \in Slots, NEW h
    PROVE  IsInjective(Without(inv[s], h)) /\ ToSet(Without(inv[s], h)) \subseteq ToSet(inv[s])
<1>1. inv[s] \in Seq(Handle) /\ IsInjective(inv[s])
  BY InvFacts DEF HoldInv, HeldOnce
<1>. QED  BY <1>1, KeptOnce, WithoutFacts DEF Without

LEMMA LiveHold ==
    ASSUME WorldInv, HoldInv, NEW s \in Slots
    PROVE  IsInjective(Live(inv[s])) /\ ToSet(Live(inv[s])) \subseteq ToSet(inv[s])
<1>1. inv[s] \in Seq(Handle) /\ IsInjective(inv[s])
  BY InvFacts DEF HoldInv, HeldOnce
<1>. QED  BY <1>1, KeptOnce, LiveFacts DEF Live

LEMMA PickUpHold ==
    ASSUME WorldInv, HoldInv, NEW s \in Slots, NEW i \in Index, EnginePicksUp(s, i)
    PROVE  HoldInv'
<1>1. ents[i] # None /\ HandleAt(i) \notin ToSet(inv[s]) /\ UNCHANGED <<ents, serials>>
      /\ inv' = [inv EXCEPT ![s] = Append(@, HandleAt(i))]
  <2>1. ents[i] # None /\ ~Contains(inv[s], HandleAt(i)) /\ UNCHANGED <<ents, serials>>
        /\ inv' = [inv EXCEPT ![s] = Append(@, HandleAt(i))]
    BY DEF EnginePicksUp
  <2>. QED  BY <2>1, InvFacts, InSet
<1>2. HandleAt(i) \in Handle /\ HandleAt(i)[1] = i /\ HandleAt(i)[2] = serials[i]
  BY <1>1, EntityFacts DEF HandleAt, WorldInv, HoldInv, SerialsAreCurrent
<1>3. /\ \A j \in Index : serials'[j] >= serials[j]
      /\ serials' \in [Index -> Nat] /\ SerialsAreCurrent'
  BY <1>1 DEF WorldInv, HoldInv, SerialsAreCurrent
<1>4. HandleAt(i)[2] <= serials'[HandleAt(i)[1]]
  BY <1>1, <1>2 DEF WorldInv
<1>. QED  BY <1>1, <1>2, <1>3, <1>4, HoldLonger

LEMMA GivenHold ==
    ASSUME WorldInv, HoldInv, NEW s \in Slots, NEW i \in Index, NEW c \in Classes, Make(i, c),
           inv' = [inv EXCEPT ![s] = Append(@, NewHandle(i))]
    PROVE  HoldInv'
BY HoldMakes, HoldLonger

LEMMA ItemHold ==
    ASSUME WorldInv, HoldInv, NEW s \in Slots, NEW h, RemovePlayerItem(s, h),
           UNCHANGED <<ents, serials>>
    PROVE  HoldInv'
<1>1. CASE inv' = inv
  BY <1>1, EntsSame, HoldStays
<1>2. CASE inv' = [inv EXCEPT ![s] = Without(@, h)]
  BY <1>2, EntsSame, WithoutHold, HoldNarrows
<1>. QED  BY <1>1, <1>2 DEF RemovePlayerItem

LEMMA RemoveAllHold ==
    ASSUME WorldInv, HoldInv, NEW s \in Slots, WeaponRemoveAll(s)
    PROVE  HoldInv'
<1>1. SameSerials(ents, ents')
  <2>1. ASSUME NEW i \in Index, ents'[i] # None
        PROVE  ents[i] # None /\ ents'[i].serial = ents[i].serial
    <3>1. \/ ents'[i] = ents[i]
          \/ ents[i] # None /\ ents'[i] = [ents[i] EXCEPT !.mark = "yes"]
      BY DEF WeaponRemoveAll
    <3>2. ents[i] \in Entity \cup {None}
      BY DEF WorldInv
    <3>. QED  BY <2>1, <3>1, <3>2 DEF Entity
  <2>. QED  BY <2>1 DEF SameSerials
<1>2. ToSet(<<>>) = {} /\ IsInjective(<<>>)
  BY DEF ToSet, IsInjective
<1>3. inv' = [inv EXCEPT ![s] = <<>>] /\ UNCHANGED serials
  BY DEF WeaponRemoveAll
<1>. QED  BY <1>1, <1>2, <1>3, HoldNarrows

LEMMA RepairHold ==
    ASSUME WorldInv, HoldInv, RepairAndDelete
    PROVE  HoldInv'
<1>. DEFINE s == Top.slot
            h == Top.w
<1>1. stack # <<>> /\ Top.do = "remove" /\ Repair(s, h) /\ UNCHANGED serials
      /\ (Mark(h[1], s) \/ UNCHANGED ents)
  BY DEF RepairAndDelete, At
<1>2. GoodCall(Top, ents)
  BY <1>1, TopOf
<1>3. s \in Slots /\ h \in Handle
  BY <1>1, <1>2 DEF GoodCall, Fits
<1>4. LiveIn(h, ents)
  BY <1>2, <1>3, WorldAssumption DEF GoodCall, PointsWell
<1>. HIDE DEF s, h
<1>5. SameSerials(ents, ents')
  BY <1>1, <1>3, <1>4, MarkSerials, EntsSame DEF Handle, LiveIn
<1>6. inv' = [inv EXCEPT ![s] = Without(inv[s], h)]
  BY <1>1 DEF Repair
<1>. QED  BY <1>1, <1>3, <1>5, <1>6, WithoutHold, HoldNarrows

LEMMA LoopHold ==
    ASSUME WorldInv, HoldInv, LoopStep
    PROVE  HoldInv'
<1>. DEFINE s == Top.slot
            weapons == WeaponAt(inv[s], Top.i)
            h == weapons[Top.i]
<1>1. stack # <<>> /\ Top.do \in {"removeclass", "replace"} /\ Top.i > 0
      /\ UNCHANGED <<ents, serials>>
  BY DEF LoopStep, InLoop, At
<1>2. GoodCall(Top, ents)
  BY <1>1, TopOf
<1>3. s \in Slots /\ Top.i \in Nat \ {0}
  BY <1>1, <1>2 DEF GoodCall, Fits, Call
<1>4. inv[s] \in Seq(Handle) /\ IsInjective(inv[s])
  BY <1>3, InvFacts DEF HoldInv, HeldOnce
<1>5. weapons \in Seq(Handle) /\ ToSet(weapons) \subseteq ToSet(inv[s]) /\ IsInjective(weapons)
  BY <1>3, <1>4, WeaponAtFacts
<1>6. \E q \in {weapons, Without(weapons, h)} : inv' = [inv EXCEPT ![s] = q]
  BY DEF LoopStep
<1>. HIDE DEF s, weapons
<1>7. /\ ToSet(Without(weapons, h)) \subseteq ToSet(weapons)
      /\ IsInjective(Without(weapons, h))
  BY <1>5, WithoutFacts, KeptOnce DEF Without
<1>8. PICK q \in {weapons, Without(weapons, h)} : inv' = [inv EXCEPT ![s] = q]
  BY <1>6
<1>9. IsInjective(q) /\ ToSet(q) \subseteq ToSet(inv[s])
  BY <1>5, <1>7
<1>. QED  BY <1>1, <1>3, <1>8, <1>9, EntsSame, HoldNarrows

LEMMA HoldNext == ASSUME WorldInv, HoldInv, Next PROVE HoldInv'
<1>1. ASSUME NEW i \in Index, EngineDeletes(i) PROVE HoldInv'
  <2>1. SameSerials(ents, ents') /\ UNCHANGED <<inv, serials>>
    BY <1>1 DEF EngineDeletes, SameSerials, WorldInv, hands
  <2>. QED  BY <2>1, HoldStays
<1>2. ASSUME NEW i \in Index, RemoveEntity(i) PROVE HoldInv'
  <2>1. SameSerials(ents, ents') /\ UNCHANGED <<inv, serials>>
    BY <1>2, MarkSerials DEF RemoveEntity, UtilRemove, EntityByIndex, hands
  <2>. QED  BY <2>1, HoldStays
<1>3. ASSUME NEW i \in Index, GiveReplacement(i) PROVE HoldInv'
  <2>1. /\ stack # <<>> /\ Top.do = "replace" /\ Make(i, Top.class)
        /\ inv' = [inv EXCEPT ![Top.slot] = Append(@, NewHandle(i))]
    BY <1>3 DEF GiveReplacement, At
  <2>2. Top.slot \in Slots /\ Top.class \in Classes
    BY <2>1, TopOf DEF GoodCall, Fits, Call
  <2>. QED  BY <2>1, <2>2, GivenHold
<1>4. ASSUME NEW i \in Index, NEW c \in Classes, CreateEntity(i, c) \/ SpawnGrenade(i, c)
      PROVE  HoldInv'
  BY <1>4, HoldMakes DEF CreateEntity, SpawnGrenade, BeginCreation, hands
<1>5. ASSUME NEW s \in Slots, WeaponCount(s) PROVE HoldInv'
  <2>1. inv' = [inv EXCEPT ![s] = Live(inv[s])] /\ UNCHANGED <<ents, serials>>
    BY <1>5 DEF WeaponCount
  <2>. QED  BY <2>1, EntsSame, LiveHold, HoldNarrows
<1>6. ASSUME NEW s \in Slots, WeaponDropActive(s) \/ \E i \in Index : WeaponDrop(s, i)
      PROVE  HoldInv'
  <2>1. \E h : inv' = [inv EXCEPT ![s] = Without(inv[s], h)] /\ UNCHANGED <<ents, serials>>
    BY <1>6 DEF WeaponDropActive, WeaponDrop, DropWeapon
  <2>. QED  BY <2>1, EntsSame, WithoutHold, HoldNarrows
<1>7. ASSUME NEW s \in Slots, WeaponRemoveAll(s) PROVE HoldInv'
  BY <1>7, RemoveAllHold
<1>8. ASSUME NEW s \in Slots, NEW i \in Index, EnginePicksUp(s, i) PROVE HoldInv'
  BY <1>8, PickUpHold
<1>9. ASSUME NEW s \in Slots, NEW i \in Index, WeaponSwitch(s, i) PROVE HoldInv'
  BY <1>9, EntsSame, HoldStays DEF WeaponSwitch
<1>10. ASSUME NEW s \in Slots, NEW i \in Index, NEW delete \in BOOLEAN,
              RemoveWeapon(s, i, delete)
       PROVE  HoldInv'
  BY <1>10, ItemHold DEF RemoveWeapon
<1>11. ASSUME NEW s \in Slots, NEW i \in Index, NEW c \in Classes, WeaponGive(s, i, c)
       PROVE  HoldInv'
  BY <1>11, GivenHold DEF WeaponGive
<1>12. ASSUME NEW s \in Slots, NEW c \in Classes, NEW flag \in BOOLEAN,
              RemoveByClassname(s, c, flag) \/ ReplaceSlot(s, c, flag)
       PROVE  HoldInv'
  <2>1. inv' = [inv EXCEPT ![s] = Live(inv[s])] /\ UNCHANGED <<ents, serials>>
    BY <1>12 DEF RemoveByClassname, ReplaceSlot, StartLoop
  <2>. QED  BY <2>1, EntsSame, LiveHold, HoldNarrows
<1>13. ASSUME RepairAndDelete PROVE HoldInv'
  BY <1>13, RepairHold
<1>14. ASSUME LoopStep PROVE HoldInv'
  BY <1>14, LoopHold
<1>15. ASSUME \/ RemoveReturns \/ LoopRemoved \/ RemovedByClassname \/ GiveFails \/ Equipped
              \/ RolledBack \/ GrenadeChecked \/ Created
       PROVE  HoldInv'
  <2>1. UNCHANGED <<ents, serials, inv>>
    BY <1>15 DEF RemoveReturns, LoopRemoved, RemovedByClassname, GiveFails, Equipped,
                 RolledBack, GrenadeChecked, Created, hands
  <2>. QED  BY <2>1, EntsSame, HoldStays
<1>16. ASSUME EquipReplacement PROVE HoldInv'
  <2>1. /\ stack # <<>> /\ Top.do = "replace" /\ UNCHANGED <<ents, serials>>
        /\ UNCHANGED inv \/ RemovePlayerItem(Top.slot, Top.new)
    BY <1>16 DEF EquipReplacement, At, hands
  <2>2. Top.slot \in Slots
    BY <2>1, TopOf DEF GoodCall, Fits
  <2>. QED  BY <2>1, <2>2, EntsSame, HoldStays, ItemHold
<1>17. ASSUME CreationStep PROVE HoldInv'
  <2>1. stack # <<>> /\ Top.do \in {"create", "grenade"} /\ UNCHANGED <<serials, inv>>
        /\ (RollBack \/ UNCHANGED ents)
    BY <1>17, CreationSteps DEF hands
  <2>2. SameSerials(ents, ents')
    <3>1. Top.new \in Handle
      BY <2>1, TopOf DEF GoodCall, Fits
    <3>2. RollBack => UNCHANGED ents
                      \/ (ents[Top.new[1]] # None /\ UtilRemove(Top.new[1]))
      BY DEF RollBack, EntityByIndex
    <3>. QED  BY <2>1, <3>1, <3>2, EntsSame, MarkSerials DEF UtilRemove, Handle
  <2>. QED  BY <2>1, <2>2, HoldStays
<1>. QED  BY <1>1, <1>2, <1>3, <1>4, <1>5, <1>6, <1>7, <1>8, <1>9, <1>10, <1>11, <1>12,
             <1>13, <1>14, <1>15, <1>16, <1>17 DEF Next, CreationStep

-----------------------------------------------------------------------------
(* A replacement that no callback has disturbed.                          *)

\* What weapons.replace_slot is about in an inventory v of a world e, and the rest.
Mine(e, v, c) == {h \in ToSet(v) : SlotOf[e[h[1]].class] = SlotOf[c]}
Rest(e, v, c) == Kept(v, ToSet(v) \ Mine(e, v, c))

\* The loop has been through the positions behind i.
Beyond(e, v, i, c) ==
    i \in 0..Len(v) /\ \A j \in 1..Len(v) : j > i => v[j] \notin Mine(e, v, c)

\* What a replacement f has made of the inventory v by the place it has come to.
Suits(e, v, f) ==
    /\ \A h \in ToSet(v) : LiveIn(h, e)
    /\ Rest(e, v, f.class) = f.others
    /\ f.at \in {"loop", "removing", "giving", "selecting", "rollback"}
    /\ f.at = "loop" => Beyond(e, v, f.i, f.class)
    /\ f.at = "removing" => Beyond(e, v, f.i - 1, f.class)
    /\ f.at \in {"giving", "selecting"} => Mine(e, v, f.class) = {f.new}
    /\ f.at = "rollback" => Mine(e, v, f.class) = {}

Quiet(f) == f.do = "replace" /\ f.quiet

\* The inventory as it will be when the removal r has repaired it.
Repaired(v, r) == IF r.at = "unlinking" THEN Without(v[r.slot], r.w) ELSE v[r.slot]

\* An undisturbed replacement is on top, or waits for its own weapon_remove.
QuietAt(s, e, v, res, k) ==
    \/ /\ k = 1 /\ (s[1].at = "removing" => res = "ok")
       /\ Suits(e, v[s[1].slot], s[1])
    \/ /\ k = 2 /\ s[1].do = "remove" /\ s[1].slot = s[2].slot
       /\ s[1].at \in {"unlinking", "deleting"} /\ s[2].at \in {"removing", "rollback"}
       /\ Suits(e, Repaired(v, s[1]), s[2])

QuietStack(s, e, v, res) ==
    \A k \in 1..Len(s) : Quiet(s[k]) => QuietAt(s, e, v, res, k)

\* The inductive invariant of the replacement.
ReplaceInv == WorldInv /\ HoldInv /\ QuietStack(stack, ents, inv, result)

LEMMA MineMatches ==
    ASSUME NEW v, NEW c
    PROVE  /\ Mine(ents, v, c) = {h \in ToSet(v) : Matches("replace", h, c)}
           /\ Others(v, c) = Rest(ents, v, c)
<1>1. \A h : Matches("replace", h, c) <=> SlotOf[ents[h[1]].class] = SlotOf[c]
  BY DEF Matches
<1>2. Mine(ents, v, c) = {h \in ToSet(v) : Matches("replace", h, c)}
  BY <1>1 DEF Mine
<1>3. {h \in ToSet(v) : ~Matches("replace", h, c)} = ToSet(v) \ Mine(ents, v, c)
  BY <1>2
<1>. QED  BY <1>2, <1>3 DEF Others, Rest

\* Entities do not change their class.
LEMMA MineStays ==
    ASSUME NEW e, NEW d, NEW v, NEW c, \A h \in ToSet(v) : d[h[1]].class = e[h[1]].class
    PROVE  Mine(d, v, c) = Mine(e, v, c) /\ Rest(d, v, c) = Rest(e, v, c)
<1>1. Mine(d, v, c) = Mine(e, v, c)
  BY DEF Mine
<1>. QED  BY <1>1 DEF Rest

\* The inventory v becomes w, where h, which was of the slot, is gone.
TakenOut(e, v, w, c, h) ==
    /\ \A g : g \in Mine(e, w, c) <=> g \in Mine(e, v, c) /\ g # h
    /\ Rest(e, w, c) = Rest(e, v, c)
    /\ ToSet(w) = ToSet(v) \ {h}

LEMMA WithoutMine ==
    ASSUME NEW e, NEW v \in Seq(Handle), NEW c, NEW h \in Mine(e, v, c)
    PROVE  TakenOut(e, v, Without(v, h), c, h)
<1>. DEFINE K == ToSet(v) \ {h}
            w == Without(v, h)
            L == ToSet(w) \ Mine(e, w, c)
<1>1. ToSet(w) = ToSet(v) \ {h}
  <2>1. ToSet(Kept(v, K)) = ToSet(v) \cap K
    BY KeptSet
  <2>. QED  BY <2>1 DEF Without
<1>2. Mine(e, w, c) = Mine(e, v, c) \ {h}
  <2>. HIDE DEF w
  <2>. QED  BY <1>1 DEF Mine
<1>3. K \cap L = ToSet(v) \ Mine(e, v, c)
  <2>. HIDE DEF w
  <2>. QED  BY <1>1, <1>2
<1>4. Kept(Kept(v, K), L) = Kept(v, K \cap L)
  BY KeptTwice
<1>5. Rest(e, w, c) = Rest(e, v, c)
  <2>1. Rest(e, w, c) = Kept(w, L)
    BY DEF Rest
  <2>2. w = Kept(v, K)
    BY DEF Without
  <2>3. Rest(e, v, c) = Kept(v, ToSet(v) \ Mine(e, v, c))
    BY DEF Rest
  <2>. HIDE DEF w, K, L
  <2>. QED  BY <1>3, <1>4, <2>1, <2>2, <2>3
<1>6. \A g : g \in Mine(e, w, c) <=> g \in Mine(e, v, c) /\ g # h
  <2>. HIDE DEF w
  <2>. QED  BY <1>2
<1>. QED  BY <1>1, <1>5, <1>6 DEF TakenOut

LEMMA WithoutTwice ==
    ASSUME NEW v \in Seq(Handle), NEW h
    PROVE  Without(Without(v, h), h) = Without(v, h)
<1>. DEFINE w == Without(v, h)
<1>1. w \in Seq(Handle) /\ ToSet(w) \subseteq ToSet(v) \ {h}
  BY WithoutFacts
<1>. HIDE DEF w
<1>2. ToSet(w) \subseteq ToSet(w) \ {h}
  BY <1>1
<1>3. Kept(w, ToSet(w) \ {h}) = w
  BY <1>1, <1>2, KeptAll
<1>. QED  BY <1>3 DEF Without, w

LEMMA LongerMine ==
    ASSUME NEW e, NEW v \in Seq(Handle), NEW c, NEW h \in Handle,
           SlotOf[e[h[1]].class] = SlotOf[c]
    PROVE  /\ Mine(e, Append(v, h), c) = Mine(e, v, c) \cup {h}
           /\ h \notin ToSet(v) => Rest(e, Append(v, h), c) = Rest(e, v, c)
<1>. DEFINE w == Append(v, h)
            L == ToSet(w) \ Mine(e, w, c)
<1>1. ToSet(w) = ToSet(v) \cup {h}
  BY AppendSet
<1>2. Kept(w, L) = IF h \in L THEN Append(Kept(v, L), h) ELSE Kept(v, L)
  BY KeptAppend
<1>3. Rest(e, w, c) = Kept(w, L)
  BY DEF Rest
<1>. HIDE DEF w
<1>4. Mine(e, w, c) = Mine(e, v, c) \cup {h}
  BY <1>1 DEF Mine
<1>5. ASSUME h \notin ToSet(v) PROVE Rest(e, w, c) = Rest(e, v, c)
  <2>1. h \notin L /\ \A g \in ToSet(v) : g \in L <=> g \in ToSet(v) \ Mine(e, v, c)
    BY <1>1, <1>4, <1>5
  <2>2. Kept(v, L) = Kept(v, ToSet(v) \ Mine(e, v, c))
    <3>. HIDE DEF L
    <3>. QED  BY <2>1, KeptSame
  <2>. HIDE DEF L
  <2>. QED  BY <1>2, <1>3, <2>1, <2>2 DEF Rest
<1>. QED  BY <1>4, <1>5 DEF w

LEMMA BeyondFacts ==
    ASSUME NEW e, NEW v \in Seq(Handle), NEW c
    PROVE  /\ Beyond(e, v, Len(v), c)
           /\ Beyond(e, v, 0, c) => Mine(e, v, c) = {}
           /\ \A i \in 1..Len(v) :
                Beyond(e, v, i, c) /\ v[i] \notin Mine(e, v, c) => Beyond(e, v, i - 1, c)
<1>1. Len(v) \in Nat /\ ToSet(v) = {v[k] : k \in 1..Len(v)}
  BY LenProperties, InSet
<1>2. Beyond(e, v, Len(v), c)
  BY <1>1 DEF Beyond
<1>3. ASSUME Beyond(e, v, 0, c), NEW h \in Mine(e, v, c) PROVE FALSE
  <2>1. PICK k \in 1..Len(v) : h = v[k]
    BY <1>1 DEF Mine
  <2>2. k > 0
    BY <1>1
  <2>. QED  BY <1>3, <2>1, <2>2 DEF Beyond
<1>4. ASSUME NEW i \in 1..Len(v), Beyond(e, v, i, c), v[i] \notin Mine(e, v, c)
      PROVE  Beyond(e, v, i - 1, c)
  <2>1. i - 1 \in 0..Len(v) /\ \A j \in 1..Len(v) : j > i - 1 => j > i \/ j = i
    BY <1>1
  <2>. QED  BY <1>4, <2>1 DEF Beyond
<1>. QED  BY <1>2, <1>3, <1>4

LEMMA BeyondWithout ==
    ASSUME NEW e, NEW v \in Seq(Handle), IsInjective(v), NEW c, NEW i \in 1..Len(v),
           Beyond(e, v, i, c), v[i] \in Mine(e, v, c)
    PROVE  Beyond(e, Without(v, v[i]), i - 1, c)
<1>. DEFINE w == Without(v, v[i])
<1>1. /\ Len(w) = Len(v) - 1
      /\ \A j \in 1..(Len(v) - 1) : w[j] = IF j < i THEN v[j] ELSE v[j + 1]
  BY WithoutAt
<1>2. Mine(e, w, c) \subseteq Mine(e, v, c)
  <2>. DEFINE h == v[i]
  <2>1. h \in Mine(e, v, c)
    OBVIOUS
  <2>. HIDE DEF h
  <2>2. TakenOut(e, v, Without(v, h), c, h)
    BY <2>1, WithoutMine
  <2>. QED  BY <2>2 DEF h, TakenOut
<1>3. Len(v) \in Nat
  BY LenProperties
<1>. HIDE DEF w
<1>4. i - 1 \in 0..Len(w)
  BY <1>1, <1>3
<1>5. ASSUME NEW j \in 1..Len(w), j > i - 1 PROVE w[j] \notin Mine(e, w, c)
  <2>1. j \in 1..(Len(v) - 1) /\ ~(j < i) /\ j + 1 \in 1..Len(v) /\ j + 1 > i
    BY <1>1, <1>3, <1>5
  <2>2. w[j] = v[j + 1]
    BY <1>1, <2>1
  <2>. QED  BY <1>2, <2>1, <2>2 DEF Beyond
<1>. QED  BY <1>4, <1>5 DEF Beyond, w

LEMMA SuitsKept ==
    ASSUME NEW e, NEW d, NEW v, NEW f, Suits(e, v, f),
           \A h \in ToSet(v) : LiveIn(h, e) => LiveIn(h, d) /\ d[h[1]].class = e[h[1]].class
    PROVE  Suits(d, v, f)
<1>1. \A h \in ToSet(v) : LiveIn(h, d) /\ d[h[1]].class = e[h[1]].class
  BY DEF Suits
<1>2. Mine(d, v, f.class) = Mine(e, v, f.class) /\ Rest(d, v, f.class) = Rest(e, v, f.class)
  BY <1>1, MineStays
<1>3. \A i : Beyond(e, v, i, f.class) => Beyond(d, v, i, f.class)
  BY <1>2 DEF Beyond
<1>. QED  BY <1>1, <1>2, <1>3 DEF Suits

-----------------------------------------------------------------------------
(* Where the calls under an undisturbed replacement are.                  *)

NoneQuiet(s) == \A k \in 1..Len(s) : ~Quiet(s[k])

LEMMA ConsFacts ==
    ASSUME NEW S, NEW s \in Seq(S), NEW f \in S
    PROVE  /\ <<f>> \o s \in Seq(S) /\ Len(<<f>> \o s) = Len(s) + 1 /\ Len(s) \in Nat
           /\ (<<f>> \o s)[1] = f /\ \A k \in 1..Len(s) : (<<f>> \o s)[k + 1] = s[k]
<1>. DEFINE o == <<f>>
            t == o \o s
            n == Len(s)
<1>1. o \in Seq(S) /\ Len(o) = 1 /\ o[1] = f /\ n \in Nat
  BY LenProperties
<1>. HIDE DEF o, n
<1>2. /\ t \in Seq(S) /\ Len(t) = 1 + n
      /\ \A k \in 1..(1 + n) : t[k] = IF k <= 1 THEN o[k] ELSE s[k - 1]
  <2>1. /\ t \in Seq(S) /\ Len(t) = Len(o) + Len(s)
        /\ \A k \in 1..(Len(o) + Len(s)) : t[k] = IF k <= Len(o) THEN o[k] ELSE s[k - Len(o)]
    BY <1>1, ConcatProperties
  <2>. HIDE DEF t
  <2>. QED  BY <1>1, <2>1 DEF n
<1>. HIDE DEF t
<1>3. t[1] = f
  <2>1. 1 \in 1..(1 + n) /\ 1 <= 1
    BY <1>1
  <2>. QED  BY <1>1, <1>2, <2>1
<1>4. ASSUME NEW k \in 1..n PROVE t[k + 1] = s[k]
  <2>1. k + 1 \in 1..(1 + n) /\ ~(k + 1 <= 1) /\ (k + 1) - 1 = k
    BY <1>1
  <2>. QED  BY <1>2, <2>1
<1>5. 1 + n = n + 1
  BY <1>1
<1>. QED  BY <1>1, <1>2, <1>3, <1>4, <1>5 DEF t, o, n

\* The positions of a stack with one call more.
LEMMA Below ==
    ASSUME NEW n \in Nat, NEW k \in 1..(n + 1)
    PROVE  k = 1 \/ \E j \in 1..n : k = j + 1
<1>1. CASE k = 1
  BY <1>1
<1>2. CASE k # 1
  <2>1. k - 1 \in 1..n /\ k = (k - 1) + 1
    BY <1>2
  <2>. QED  BY <2>1
<1>. QED  BY <1>1, <1>2

LEMMA OneOnTop ==
    ASSUME NEW s \in Seq(Call), NEW f \in Call, NoneQuiet(s), NEW e, NEW v, NEW res,
           Quiet(f) => (f.at = "removing" => res = "ok") /\ Suits(e, v[f.slot], f)
    PROVE  QuietStack(<<f>> \o s, e, v, res)
<1>. DEFINE t == <<f>> \o s
            n == Len(s)
<1>1. Len(t) = n + 1 /\ n \in Nat /\ t[1] = f /\ \A k \in 1..n : t[k + 1] = s[k]
  BY ConsFacts
<1>2. \A k \in 1..n : ~Quiet(s[k])
  BY DEF NoneQuiet
<1>. HIDE DEF t, n
<1>3. ASSUME NEW k \in 1..Len(t), Quiet(t[k]) PROVE QuietAt(t, e, v, res, k)
  <2>1. k \in 1..(n + 1)
    BY <1>1
  <2>2. k = 1
    <3>1. ASSUME NEW j \in 1..n, k = j + 1 PROVE FALSE
      BY <1>1, <1>2, <1>3, <3>1
    <3>. QED  BY <1>1, <2>1, <3>1, Below
  <2>. QED  BY <1>1, <1>3, <2>2 DEF QuietAt
<1>. QED  BY <1>3 DEF QuietStack, t

LEMMA TwoOnTop ==
    ASSUME NEW s \in Seq(Call), NEW f \in Call, NEW r \in Call, NoneQuiet(s),
           r.do = "remove", r.slot = f.slot, r.at \in {"unlinking", "deleting"},
           f.at \in {"removing", "rollback"}, NEW e, NEW v, NEW res,
           Quiet(f) => Suits(e, Repaired(v, r), f)
    PROVE  QuietStack(<<r>> \o <<f>> \o s, e, v, res)
<1>. DEFINE t == <<f>> \o s
            u == <<r>> \o t
            n == Len(s)
<1>1. t \in Seq(Call) /\ Len(t) = n + 1 /\ n \in Nat /\ t[1] = f
      /\ \A k \in 1..n : t[k + 1] = s[k]
  BY ConsFacts
<1>2. \A k \in 1..n : ~Quiet(s[k])
  BY DEF NoneQuiet
<1>. HIDE DEF t
<1>3. Len(u) = Len(t) + 1 /\ u[1] = r /\ \A k \in 1..Len(t) : u[k + 1] = t[k]
  BY <1>1, ConsFacts
<1>4. <<r>> \o <<f>> \o s = u
  <2>1. <<r>> \in Seq(Call) /\ <<f>> \in Seq(Call)
    OBVIOUS
  <2>. QED  BY <2>1, ConcatAssociative DEF t
<1>. HIDE DEF u, n
<1>5. u[2] = f
  <2>1. 1 \in 1..Len(t) /\ 1 + 1 = 2
    BY <1>1
  <2>. QED  BY <1>1, <1>3, <2>1
<1>6. ASSUME NEW k \in 1..Len(u), Quiet(u[k]) PROVE QuietAt(u, e, v, res, k)
  <2>1. k \in 1..(Len(t) + 1) /\ Len(t) \in Nat
    BY <1>1, <1>3
  <2>2. k # 1
    BY <1>3, <1>6 DEF Quiet
  <2>3. PICK j \in 1..Len(t) : k = j + 1
    BY <2>1, <2>2, Below
  <2>4. u[k] = t[j]
    BY <1>3, <2>3
  <2>5. j = 1
    <3>1. ASSUME NEW i \in 1..n, j = i + 1 PROVE FALSE
      BY <1>1, <1>2, <1>6, <2>4, <3>1
    <3>2. j \in 1..(n + 1)
      BY <1>1, <2>3
    <3>. QED  BY <1>1, <3>1, <3>2, Below
  <2>6. k = 2
    BY <2>3, <2>5
  <2>7. Quiet(f)
    BY <1>5, <1>6, <2>6
  <2>. QED  BY <1>3, <1>5, <2>6, <2>7 DEF QuietAt
<1>. QED  BY <1>4, <1>6 DEF QuietStack

\* A call that is not a removal has no undisturbed replacement below it.
LEMMA TailNone ==
    ASSUME NEW s \in Seq(Call), s # <<>>, s[1].do # "remove", NEW e, NEW v, NEW res,
           QuietStack(s, e, v, res)
    PROVE  NoneQuiet(Tail(s))
<1>1. /\ Len(Tail(s)) = Len(s) - 1 /\ Len(s) \in Nat
      /\ \A k \in 1..Len(Tail(s)) : Tail(s)[k] = s[k + 1]
  BY HeadTailProperties, LenProperties
<1>2. ASSUME NEW k \in 1..Len(Tail(s)), Quiet(Tail(s)[k]) PROVE FALSE
  <2>1. k + 1 \in 1..Len(s) /\ k + 1 # 1
    BY <1>1
  <2>2. Quiet(s[k + 1])
    BY <1>1, <1>2
  <2>3. QuietAt(s, e, v, res, k + 1)
    BY <2>1, <2>2 DEF QuietStack
  <2>. QED  BY <2>1, <2>3 DEF QuietAt
<1>. QED  BY <1>2 DEF NoneQuiet

\* A weapon_remove goes on or returns to the replacement that waits for it.
LEMMA UnderRemoval ==
    ASSUME NEW s \in Seq(Call), s # <<>>, s[1].do = "remove", NEW e, NEW v, NEW res,
           QuietStack(s, e, v, res), NEW d, NEW u,
           \A f \in Call :
              f.slot = s[1].slot /\ Suits(e, Repaired(v, s[1]), f) => Suits(d, u[f.slot], f)
    PROVE  /\ QuietStack(Tail(s), d, u, "ok")
           /\ \A r \in Call : \A x :
                r.do = "remove" /\ r.at = "deleting" /\ r.slot = s[1].slot =>
                    QuietStack(<<r>> \o Tail(s), d, u, x)
<1>. DEFINE t == Tail(s)
<1>1. /\ t \in Seq(Call) /\ Len(t) = Len(s) - 1 /\ Len(s) \in Nat
      /\ \A k \in 1..Len(t) : t[k] = s[k + 1]
  BY HeadTailProperties, LenProperties
<1>. HIDE DEF t
<1>2. ASSUME NEW k \in 1..Len(t), Quiet(t[k])
      PROVE  /\ k = 1 /\ t[1] \in Call /\ t[1].slot = s[1].slot
             /\ t[1].at \in {"removing", "rollback"} /\ Suits(d, u[t[1].slot], t[1])
  <2>1. k + 1 \in 1..Len(s) /\ k + 1 # 1 /\ (k + 1 = 2 => k = 1) /\ t[k] = s[k + 1]
    BY <1>1
  <2>2. QuietAt(s, e, v, res, k + 1)
    BY <1>2, <2>1 DEF QuietStack
  <2>3. /\ k + 1 = 2 /\ s[1].slot = s[2].slot /\ s[2].at \in {"removing", "rollback"}
        /\ Suits(e, Repaired(v, s[1]), s[2])
    BY <2>1, <2>2 DEF QuietAt
  <2>4. k = 1 /\ t[1] = s[2]
    BY <2>1, <2>3
  <2>5. t[1] \in Call
    BY <1>1, <2>4, ElementOfSeq
  <2>. QED  BY <2>3, <2>4, <2>5
<1>3. QuietStack(t, d, u, "ok")
  BY <1>2 DEF QuietStack, QuietAt
<1>4. ASSUME NEW r \in Call, NEW x, r.do = "remove", r.at = "deleting", r.slot = s[1].slot
      PROVE  QuietStack(<<r>> \o t, d, u, x)
  <2>. DEFINE w == <<r>> \o t
  <2>1. Len(w) = Len(t) + 1 /\ Len(t) \in Nat /\ w[1] = r
        /\ \A k \in 1..Len(t) : w[k + 1] = t[k]
    BY <1>1, ConsFacts
  <2>. HIDE DEF w
  <2>2. ASSUME NEW k \in 1..Len(w), Quiet(w[k]) PROVE QuietAt(w, d, u, x, k)
    <3>1. k # 1 /\ k \in 1..(Len(t) + 1)
      BY <1>4, <2>1, <2>2 DEF Quiet
    <3>2. PICK j \in 1..Len(t) : k = j + 1
      BY <2>1, <3>1, Below
    <3>3. Quiet(t[j]) /\ w[k] = t[j]
      BY <2>1, <2>2, <3>2
    <3>4. /\ j = 1 /\ t[1].slot = s[1].slot /\ t[1].at \in {"removing", "rollback"}
          /\ Suits(d, u[t[1].slot], t[1])
      BY <1>2, <3>3
    <3>5. k = 2 /\ w[2] = t[1]
      BY <3>2, <3>3, <3>4
    <3>6. Repaired(u, r) = u[r.slot]
      BY <1>4 DEF Repaired
    <3>. QED  BY <1>4, <2>1, <3>4, <3>5, <3>6 DEF QuietAt
  <2>. QED  BY <2>2 DEF QuietStack, w
<1>. QED  BY <1>3, <1>4 DEF t

\* Every callback disturbs the replacements in progress.
LEMMA DisturbedNone ==
    ASSUME WorldInv
    PROVE  NoneQuiet(Disturbed) /\ Disturbed \in Seq(Call)
<1>1. stack \in Seq(Call) /\ DOMAIN stack = 1..Len(stack)
  BY LenProperties DEF WorldInv, GoodStack
<1>2. Disturbed \in Seq(Call) /\ Len(Disturbed) = Len(stack)
  BY DisturbedFacts DEF WorldInv, GoodStack
<1>3. ASSUME NEW k \in 1..Len(stack) PROVE ~Quiet(Disturbed[k])
  <2>. DEFINE f == stack[k]
  <2>1. f \in Call
    BY <1>1, ElementOfSeq
  <2>2. Disturbed[k] = [f EXCEPT !.quiet = f.do # "replace", !.others = <<>>]
    BY <1>1 DEF Disturbed
  <2>. HIDE DEF f
  <2>. QED  BY <2>1, <2>2 DEF Quiet, Call
<1>. QED  BY <1>2, <1>3 DEF NoneQuiet

LEMMA DisturbQuiet == ASSUME WorldInv, Disturb PROVE QuietStack(stack', ents', inv', result')
BY DisturbedNone DEF Disturb, NoneQuiet, QuietStack

LEMMA BeginQuiet ==
    ASSUME WorldInv, NEW f \in Call, f.do # "replace", Begin(f)
    PROVE  QuietStack(stack', ents', inv', result')
<1>1. stack' = <<f>> \o Disturbed /\ ~Quiet(f)
  BY DEF Begin, Quiet
<1>. QED  BY <1>1, DisturbedNone, OneOnTop

-----------------------------------------------------------------------------
(* The steps of a replacement.                                            *)

LEMMA TopIs ==
    ASSUME WorldInv, stack # <<>>
    PROVE  stack \in Seq(Call) /\ Top = stack[1] /\ Top \in Call /\ Tail(stack) \in Seq(Call)
<1>1. stack \in Seq(Call)
  BY DEF WorldInv, GoodStack
<1>. QED  BY <1>1, HeadTailProperties DEF Top

LEMMA QuietTop ==
    ASSUME ReplaceInv, stack # <<>>, Quiet(Top)
    PROVE  (Top.at = "removing" => result = "ok") /\ Suits(ents, inv[Top.slot], Top)
<1>1. Top = stack[1] /\ 1 \in 1..Len(stack) /\ QuietStack(stack, ents, inv, result)
  <2>1. Len(stack) \in Nat \ {0}
    BY TopIs, EmptySeq DEF ReplaceInv
  <2>. QED  BY <2>1, TopIs DEF ReplaceInv
<1>2. QuietAt(stack, ents, inv, result, 1)
  BY <1>1 DEF QuietStack
<1>. QED  BY <1>1, <1>2 DEF QuietAt

LEMMA PopQuiet ==
    ASSUME ReplaceInv, stack # <<>>, Top.do # "remove"
    PROVE  /\ NoneQuiet(Tail(stack))
           /\ stack' = Tail(stack) => QuietStack(stack', ents', inv', result')
<1>1. NoneQuiet(Tail(stack))
  BY TopIs, TailNone DEF ReplaceInv
<1>. QED  BY <1>1 DEF NoneQuiet, QuietStack

LEMMA OnQuiet ==
    ASSUME ReplaceInv, stack # <<>>, Top.do # "remove", NEW f \in Call,
           stack' = <<f>> \o Tail(stack),
           Quiet(f) => (f.at = "removing" => result' = "ok") /\ Suits(ents', inv'[f.slot], f)
    PROVE  QuietStack(stack', ents', inv', result')
BY PopQuiet, TopIs, OneOnTop DEF ReplaceInv

LEMMA RepairQuiet ==
    ASSUME ReplaceInv, RepairAndDelete
    PROVE  QuietStack(stack', ents', inv', result')
<1>. DEFINE s == Top.slot
            h == Top.w
            r == [Top EXCEPT !.at = "deleting"]
            q == Without(inv[s], h)
<1>1. /\ WorldInv /\ stack # <<>> /\ Top.do = "remove" /\ Top.at = "unlinking" /\ Repair(s, h)
      /\ \/ Mark(h[1], s) /\ stack' = <<r>> \o Tail(stack)
         \/ stack' = Tail(stack) /\ result' = "ok" /\ UNCHANGED ents
  BY DEF RepairAndDelete, At, ReplaceInv, Goto, Return
<1>2. GoodCall(Top, ents) /\ Top \in Call /\ Top = stack[1] /\ stack \in Seq(Call)
  BY <1>1, TopOf, TopIs
<1>3. s \in Slots /\ h \in Handle
  BY <1>1, <1>2 DEF GoodCall, Fits
<1>4. LiveIn(h, ents) /\ h[1] \in Index
  BY <1>2, <1>3, WorldAssumption DEF GoodCall, PointsWell, Handle
<1>5. inv'[s] = q /\ Repaired(inv, Top) = q
  BY <1>1, <1>3 DEF Repair, Repaired, WorldInv, HandsTyped
<1>6. \A g \in Handle :
        LiveIn(g, ents) => LiveIn(g, ents') /\ ents'[g[1]].class = ents[g[1]].class
  <2>1. CASE UNCHANGED ents
    BY <2>1
  <2>2. CASE Mark(h[1], s)
    <3>1. /\ Keeps(ents, ents') /\ ents'[h[1]].class = ents[h[1]].class
          /\ \A j \in Index : j # h[1] => ents'[j] = ents[j]
      <4>. HIDE DEF h, s
      <4>. QED  BY <1>1, <1>3, <1>4, <2>2, MarkFacts DEF LiveIn
    <3>. QED  BY <3>1 DEF Keeps, Handle
  <2>. QED  BY <1>1, <2>1, <2>2
<1>7. q \in Seq(Handle) /\ ToSet(q) \subseteq Handle
  BY <1>1, <1>3, InvFacts, WithoutFacts, InSet
<1>8. r \in Call /\ r.do = "remove" /\ r.at = "deleting" /\ r.slot = s
  BY <1>1, <1>2 DEF Call, Places, InEngine
<1>. HIDE DEF r, q, h
<1>9. ASSUME NEW f \in Call, f.slot = s, Suits(ents, q, f) PROVE Suits(ents', inv'[f.slot], f)
  BY <1>5, <1>6, <1>7, <1>9, SuitsKept
<1>10. QuietStack(stack, ents, inv, result) /\ stack[1].slot = s
  BY <1>2 DEF ReplaceInv
<1>. HIDE DEF s
<1>11. /\ QuietStack(Tail(stack), ents', inv', "ok")
       /\ \A x : QuietStack(<<r>> \o Tail(stack), ents', inv', x)
  BY <1>1, <1>2, <1>5, <1>8, <1>9, <1>10, UnderRemoval
<1>. QED  BY <1>1, <1>11

LEMMA RemoveReturnsQuiet ==
    ASSUME ReplaceInv, RemoveReturns
    PROVE  QuietStack(stack', ents', inv', result')
<1>1. /\ WorldInv /\ stack # <<>> /\ Top.do = "remove" /\ Top.at = "deleting"
      /\ stack' = Tail(stack) /\ result' = "ok" /\ UNCHANGED <<ents, inv>>
  BY DEF RemoveReturns, At, ReplaceInv, Return, hands
<1>2. Top = stack[1] /\ stack \in Seq(Call) /\ QuietStack(stack, ents, inv, result)
  BY <1>1, TopIs DEF ReplaceInv
<1>3. Repaired(inv, stack[1]) = inv[stack[1].slot]
  BY <1>1, <1>2 DEF Repaired
<1>4. \A f \in Call : f.slot = stack[1].slot /\ Suits(ents, Repaired(inv, stack[1]), f)
                        => Suits(ents', inv'[f.slot], f)
  BY <1>1, <1>3
<1>5. QuietStack(Tail(stack), ents', inv', "ok")
  BY <1>1, <1>2, <1>4, UnderRemoval
<1>. QED  BY <1>1, <1>5

LEMMA StartLoopQuiet ==
    ASSUME WorldInv, NEW do \in {"removeclass", "replace"}, NEW s \in Slots,
           NEW c \in Classes, NEW flag \in BOOLEAN, StartLoop(do, s, c, flag)
    PROVE  QuietStack(stack', ents', inv', result')
<1>. DEFINE weapons == Live(inv[s])
            others == IF do = "replace" THEN Others(weapons, c) ELSE <<>>
            f == [Frame(do, s, c, flag) EXCEPT !.at = "loop", !.i = Len(weapons),
                                               !.others = others]
            K == {h \in ToSet(inv[s]) : EntityByHandle(h)}
<1>1. inv' = [inv EXCEPT ![s] = weapons] /\ Begin(f) /\ UNCHANGED ents
  BY DEF StartLoop
<1>2. weapons \in Seq(Handle) /\ ToSet(weapons) = ToSet(inv[s]) \cap K
  BY InvFacts, KeptSet DEF Live
<1>3. \A h \in ToSet(weapons) : LiveIn(h, ents)
  BY <1>2 DEF EntityByHandle, LiveIn
<1>4. inv'[s] = weapons
  BY <1>1 DEF WorldInv, HandsTyped
<1>. HIDE DEF weapons
<1>5. others \in Seq(Handle) /\ Len(weapons) \in Nat /\ do \in Does /\ "loop" \in Places
  BY <1>2, KeptSet, EmptySeq, LenProperties DEF Others, Does, Places
<1>6. do = "replace" => others = Rest(ents, weapons, c)
  BY MineMatches
<1>7. Beyond(ents, weapons, Len(weapons), c)
  BY <1>2, BeyondFacts
<1>. HIDE DEF others
<1>8. f \in Call
  BY <1>5 DEF Call, Frame
<1>9. /\ f.do = do /\ f.at = "loop" /\ f.slot = s /\ f.class = c /\ f.i = Len(weapons)
      /\ f.others = others
  BY DEF Frame
<1>. HIDE DEF f
<1>10. Quiet(f) => (f.at = "removing" => result' = "ok") /\ Suits(ents', inv'[f.slot], f)
  BY <1>1, <1>3, <1>4, <1>6, <1>7, <1>9 DEF Suits, Quiet
<1>. QED  BY <1>1, <1>8, <1>10, DisturbedNone, OneOnTop DEF Begin

\* As long as nothing has disturbed it, the loop finds a living weapon at its place.
LEMMA QuietLoop ==
    ASSUME ReplaceInv, stack # <<>>, Quiet(Top), Top.at = "loop", Top.i > 0
    PROVE  /\ Top.slot \in Slots /\ inv[Top.slot] \in Seq(Handle) /\ IsInjective(inv[Top.slot])
           /\ Suits(ents, inv[Top.slot], Top) /\ Top.i \in 1..Len(inv[Top.slot])
           /\ WeaponAt(inv[Top.slot], Top.i) = inv[Top.slot]
           /\ Beyond(ents, inv[Top.slot], Top.i, Top.class)
<1>. DEFINE v == inv[Top.slot]
<1>1. GoodCall(Top, ents) /\ Top \in Call /\ Top.do = "replace"
  BY TopOf DEF ReplaceInv, GoodCall, Quiet
<1>2. Top.slot \in Slots /\ Top.i \in Nat \ {0}
  BY <1>1 DEF GoodCall, Fits, Call
<1>3. v \in Seq(Handle) /\ IsInjective(v) /\ Len(v) \in Nat
  BY <1>2, InvFacts, LenProperties DEF ReplaceInv, HoldInv, HeldOnce
<1>4. Suits(ents, v, Top)
  BY QuietTop
<1>. HIDE DEF v
<1>5. Beyond(ents, v, Top.i, Top.class) /\ \A h \in ToSet(v) : LiveIn(h, ents)
  BY <1>4 DEF Suits
<1>6. Top.i \in 1..Len(v)
  BY <1>2, <1>3, <1>5 DEF Beyond
<1>7. WeaponAt(v, Top.i) = v
  BY <1>2, <1>3, <1>5, WeaponAtFacts
<1>. QED  BY <1>2, <1>3, <1>4, <1>5, <1>6, <1>7 DEF v

\* The loop leaves the weapon at its place alone.
LEMMA LoopPassesQuiet ==
    ASSUME ReplaceInv, stack # <<>>, Top.do \in {"removeclass", "replace"}, Top.at = "loop",
           Top.i > 0, UNCHANGED ents, NEW v, v = WeaponAt(inv[Top.slot], Top.i),
           inv' = [inv EXCEPT ![Top.slot] = v],
           ~Matches(Top.do, v[Top.i], Top.class),
           stack' = <<[Top EXCEPT !.i = @ - 1]>> \o Tail(stack)
    PROVE  QuietStack(stack', ents', inv', result')
<1>. DEFINE f == [Top EXCEPT !.i = @ - 1]
<1>1. WorldInv /\ Top \in Call
  BY TopIs DEF ReplaceInv
<1>2. Top.i - 1 \in Nat
  BY <1>1 DEF Call
<1>3. f \in Call /\ f.do = Top.do /\ f.at = "loop" /\ f.slot = Top.slot /\ f.class = Top.class
      /\ f.i = Top.i - 1 /\ f.others = Top.others /\ f.quiet = Top.quiet
  BY <1>1, <1>2 DEF Call
<1>. HIDE DEF f
<1>4. ASSUME Quiet(f) PROVE Suits(ents', inv'[f.slot], f)
  <2>1. Quiet(Top) /\ Top.do = "replace"
    BY <1>3, <1>4 DEF Quiet
  <2>2. /\ Top.slot \in Slots /\ v \in Seq(Handle) /\ Top.i \in 1..Len(v)
        /\ Suits(ents, v, Top) /\ Beyond(ents, v, Top.i, Top.class)
    BY <2>1, QuietLoop
  <2>3. v[Top.i] \notin Mine(ents, v, Top.class)
    BY <2>1, MineMatches
  <2>4. Beyond(ents, v, Top.i - 1, Top.class)
    BY <2>2, <2>3, BeyondFacts
  <2>5. inv'[Top.slot] = v
    BY <1>1, <2>2 DEF WorldInv, HandsTyped
  <2>. QED  BY <1>3, <2>2, <2>4, <2>5 DEF Suits
<1>5. stack' = <<f>> \o Tail(stack)
  BY DEF f
<1>. QED  BY <1>3, <1>4, <1>5, OnQuiet

\* One weapon of the slot less.
LEMMA SuitsWithout ==
    ASSUME NEW e, NEW v \in Seq(Handle), IsInjective(v), NEW f, NEW g, Suits(e, v, f),
           g.class = f.class, g.others = f.others, g.at = "removing", g.i \in 1..Len(v),
           Beyond(e, v, g.i, f.class), v[g.i] \in Mine(e, v, f.class)
    PROVE  Suits(e, Without(v, v[g.i]), g)
<1>. DEFINE c == f.class
            i == g.i
            h == v[i]
            q == Without(v, h)
<1>1. Beyond(e, q, i - 1, c)
  BY BeyondWithout
<1>2. h \in Mine(e, v, c)
  OBVIOUS
<1>. HIDE DEF c, h
<1>3. TakenOut(e, v, Without(v, h), c, h)
  BY <1>2, WithoutMine
<1>4. Rest(e, q, c) = f.others /\ \A x \in ToSet(q) : LiveIn(x, e)
  BY <1>3 DEF Suits, c, TakenOut
<1>. HIDE DEF q
<1>5. Suits(e, q, g)
  BY <1>1, <1>4 DEF Suits, c
<1>. QED  BY <1>5 DEF q, h

\* It asks weapon_remove for it, which leaves the handle there or not.
LEMMA LoopRemovesQuiet ==
    ASSUME ReplaceInv, stack # <<>>, Top.do \in {"removeclass", "replace"}, Top.at = "loop",
           Top.i > 0, UNCHANGED ents, NEW v, v = WeaponAt(inv[Top.slot], Top.i),
           Top.i <= Len(v), NEW left \in {v, Without(v, v[Top.i])},
           inv' = [inv EXCEPT ![Top.slot] = left],
           Matches(Top.do, v[Top.i], Top.class),
           CallRemove(Top.slot, v[Top.i], Top.do = "replace" \/ Top.flag)
    PROVE  QuietStack(stack', ents', inv', result')
<1>. DEFINE h == v[Top.i]
            s == Top.slot
            delete == (Top.do = "replace" \/ Top.flag)
            r == Removal(s, h[1], delete)
            f == [Top EXCEPT !.at = "removing"]
<1>1. WorldInv /\ Top \in Call /\ GoodCall(Top, ents) /\ Tail(stack) \in Seq(Call)
  BY TopIs, TopOf DEF ReplaceInv
<1>2. s \in Slots /\ Top.i \in Nat \ {0} /\ Top.flag \in BOOLEAN
  BY <1>1 DEF GoodCall, Fits, Call
<1>3. h \in Handle /\ LiveIn(h, ents) /\ v \in Seq(Handle)
  BY <1>1, <1>2, InvFacts, WeaponAtFacts
<1>4. h[1] \in Index /\ ents[h[1]] # None /\ HandleAt(h[1]) = h
  <2>. HIDE DEF h
  <2>1. h[1] \in Index /\ h = <<h[1], h[2]>>
    BY <1>3 DEF Handle
  <2>. QED  BY <1>3, <2>1 DEF LiveIn, HandleAt
<1>5. delete \in BOOLEAN
  BY <1>2
<1>6. stack' = <<r>> \o <<f>> \o Tail(stack)
  BY DEF CallRemove
<1>7. f \in Call /\ f.do = Top.do /\ f.at = "removing" /\ f.slot = s /\ f.class = Top.class
      /\ f.i = Top.i /\ f.others = Top.others /\ f.quiet = Top.quiet
  BY <1>1 DEF Call, Places
<1>. HIDE DEF delete, h
<1>8. r \in Call
  BY <1>1, <1>2, <1>4, <1>5, RemovalFacts DEF GoodCall
<1>9. r.do = "remove" /\ r.slot = s /\ r.at = "unlinking" /\ r.w = h
  BY <1>4 DEF Removal, Frame
<1>. HIDE DEF r, f, s
<1>10. ASSUME Quiet(f) PROVE Suits(ents, Repaired(inv', r), f)
  <2>1. Quiet(Top) /\ Top.do = "replace"
    BY <1>7, <1>10 DEF Quiet
  <2>2. /\ IsInjective(v) /\ Top.i \in 1..Len(v)
        /\ Suits(ents, v, Top) /\ Beyond(ents, v, Top.i, Top.class)
    BY <2>1, QuietLoop
  <2>3. h \in Mine(ents, v, Top.class)
    <3>1. h \in ToSet(v)
      BY <1>3, <2>2, InSet DEF h
    <3>. QED  BY <2>1, <3>1, MineMatches DEF h
  <2>. DEFINE q == Without(v, h)
  <2>4. Suits(ents, q, f)
    BY <1>3, <1>7, <2>2, <2>3, SuitsWithout DEF h
  <2>6. Without(q, h) = q
    BY <1>3, WithoutTwice
  <2>7. left = v \/ left = q
    BY DEF h
  <2>8. Repaired(inv', r) = q
    <3>1. inv'[s] = left
      BY <1>1, <1>2 DEF WorldInv, HandsTyped, s
    <3>. QED  BY <1>9, <2>6, <2>7, <3>1 DEF Repaired
  <2>. HIDE DEF q
  <2>. QED  BY <2>4, <2>8
<1>11. NoneQuiet(Tail(stack))
  BY PopQuiet
<1>12. QuietStack(<<r>> \o <<f>> \o Tail(stack), ents, inv', result')
  BY <1>1, <1>7, <1>8, <1>9, <1>10, <1>11, TwoOnTop
<1>. QED  BY <1>6, <1>12

LEMMA LoopStepQuiet ==
    ASSUME ReplaceInv, LoopStep
    PROVE  QuietStack(stack', ents', inv', result')
<1>. DEFINE v == WeaponAt(inv[Top.slot], Top.i)
<1>1. stack # <<>> /\ Top.do \in {"removeclass", "replace"} /\ Top.at = "loop" /\ Top.i > 0
      /\ UNCHANGED ents
  BY DEF LoopStep, InLoop, At
<1>2. \/ Return("failed")
      \/ /\ inv' = [inv EXCEPT ![Top.slot] = v] /\ ~Matches(Top.do, v[Top.i], Top.class)
         /\ stack' = <<[Top EXCEPT !.i = @ - 1]>> \o Tail(stack)
      \/ /\ Top.i <= Len(v) /\ Matches(Top.do, v[Top.i], Top.class)
         /\ CallRemove(Top.slot, v[Top.i], Top.do = "replace" \/ Top.flag)
         /\ \E left \in {v, Without(v, v[Top.i])} : inv' = [inv EXCEPT ![Top.slot] = left]
  BY DEF LoopStep
<1>. HIDE DEF v
<1>3. CASE Return("failed")
  BY <1>1, <1>3, PopQuiet DEF Return
<1>4. CASE /\ inv' = [inv EXCEPT ![Top.slot] = v] /\ ~Matches(Top.do, v[Top.i], Top.class)
           /\ stack' = <<[Top EXCEPT !.i = @ - 1]>> \o Tail(stack)
  BY <1>1, <1>4, LoopPassesQuiet DEF v
<1>5. CASE /\ Top.i <= Len(v) /\ Matches(Top.do, v[Top.i], Top.class)
           /\ CallRemove(Top.slot, v[Top.i], Top.do = "replace" \/ Top.flag)
           /\ \E left \in {v, Without(v, v[Top.i])} : inv' = [inv EXCEPT ![Top.slot] = left]
  <2>1. PICK left \in {v, Without(v, v[Top.i])} : inv' = [inv EXCEPT ![Top.slot] = left]
    BY <1>5
  <2>. QED  BY <1>1, <1>5, <2>1, LoopRemovesQuiet DEF v
<1>. QED  BY <1>2, <1>3, <1>4, <1>5

LEMMA LoopRemovedQuiet ==
    ASSUME ReplaceInv, LoopRemoved
    PROVE  QuietStack(stack', ents', inv', result')
<1>. DEFINE f == [Top EXCEPT !.at = "loop", !.i = @ - 1]
<1>1. /\ stack # <<>> /\ Top.do # "remove" /\ Top.at = "removing" /\ UNCHANGED <<ents, inv>>
      /\ (stack' = <<f>> \o Tail(stack) \/ stack' = Tail(stack))
  BY DEF LoopRemoved, At, hands, Return
<1>2. GoodCall(Top, ents)
  BY <1>1, TopOf DEF ReplaceInv
<1>3. Top \in Call /\ Top.i - 1 \in Nat /\ "loop" \in Places
  BY <1>1, <1>2 DEF GoodCall, Fits, Call, Places
<1>4. f \in Call /\ f.do = Top.do /\ f.at = "loop" /\ f.slot = Top.slot /\ f.class = Top.class
      /\ f.i = Top.i - 1 /\ f.others = Top.others /\ f.quiet = Top.quiet
  BY <1>3 DEF Call
<1>. HIDE DEF f
<1>5. ASSUME Quiet(f) PROVE Suits(ents', inv'[f.slot], f)
  <2>1. Suits(ents, inv[Top.slot], Top)
    BY <1>1, <1>4, <1>5, QuietTop DEF Quiet
  <2>. QED  BY <1>1, <1>4, <2>1 DEF Suits
<1>6. CASE stack' = <<f>> \o Tail(stack)
  BY <1>1, <1>4, <1>5, <1>6, OnQuiet
<1>. QED  BY <1>1, <1>6, PopQuiet

\* The loop is done, and nothing of the slot is left.
LEMMA GiveReplacementQuiet ==
    ASSUME ReplaceInv, NEW i \in Index, GiveReplacement(i)
    PROVE  QuietStack(stack', ents', inv', result')
<1>. DEFINE s == Top.slot
            c == Top.class
            h == NewHandle(i)
            f == [Top EXCEPT !.at = "giving", !.new = h]
            v == inv[s]
            w == Append(v, h)
<1>1. /\ stack # <<>> /\ Top.do = "replace" /\ Top.at = "loop" /\ Top.i = 0 /\ Make(i, c)
      /\ inv' = [inv EXCEPT ![s] = w] /\ stack' = <<f>> \o Tail(stack)
  BY DEF GiveReplacement, At
<1>2. WorldInv /\ HoldInv /\ GoodCall(Top, ents) /\ Top \in Call
  BY <1>1, TopOf DEF ReplaceInv, GoodCall
<1>3. s \in Slots /\ c \in Classes
  BY <1>1, <1>2 DEF GoodCall, Fits, Call
<1>4. v \in Seq(Handle) /\ ToSet(v) \subseteq Handle
  BY <1>2, <1>3, InvFacts
<1>5. h \in Handle /\ LiveIn(h, ents') /\ Keeps(ents, ents') /\ h \notin ToSet(v)
  BY <1>1, <1>2, <1>3, MakeFacts, HoldMakes DEF WorldInv
<1>6. /\ h[1] = i /\ ents[i] = None /\ ents'[i].class = c
      /\ \A j \in Index : j # i => ents'[j] = ents[j]
  <2>. DEFINE d == [serial |-> serials[i] + 1, class |-> c, mark |-> "no"]
  <2>1. ents[i] = None /\ ents' = [ents EXCEPT ![i] = d] /\ d.class = c
    BY <1>1 DEF Make
  <2>. HIDE DEF d
  <2>. QED  BY <1>2, <2>1 DEF WorldInv, NewHandle
<1>7. f \in Call /\ f.do = "replace" /\ f.at = "giving" /\ f.slot = s /\ f.class = c
      /\ f.new = h /\ f.others = Top.others /\ f.quiet = Top.quiet
  <2>. HIDE DEF h
  <2>. QED  BY <1>1, <1>2, <1>5 DEF Call, Places, InEngine
<1>8. inv'[s] = w
  BY <1>1, <1>2, <1>3 DEF WorldInv, HandsTyped
<1>9. stack' = <<f>> \o Tail(stack)
  BY <1>1
<1>10. Quiet(f) => Suits(ents, v, Top)
  BY <1>1, <1>7, QuietTop DEF Quiet
<1>. HIDE DEF f, h, v, c, s
<1>11. ASSUME Quiet(f) PROVE Suits(ents', inv'[f.slot], f)
  <2>1. /\ \A g \in ToSet(v) : LiveIn(g, ents) /\ g \in Handle
        /\ Rest(ents, v, c) = f.others /\ Beyond(ents, v, 0, c)
    BY <1>1, <1>4, <1>7, <1>10, <1>11 DEF Suits, c
  <2>2. \A g \in ToSet(v) : LiveIn(g, ents') /\ ents'[g[1]].class = ents[g[1]].class
    BY <1>5, <1>6, <2>1 DEF Keeps, LiveIn, Handle
  <2>3. Mine(ents', v, c) = {} /\ Rest(ents', v, c) = f.others
    <3>. DEFINE e == ents'
    <3>1. \A g \in ToSet(v) : e[g[1]].class = ents[g[1]].class
      BY <2>2
    <3>. HIDE DEF e
    <3>2. Mine(e, v, c) = Mine(ents, v, c) /\ Rest(e, v, c) = Rest(ents, v, c)
      BY <3>1, MineStays
    <3>3. Mine(ents, v, c) = {}
      BY <1>4, <2>1, BeyondFacts
    <3>4. Mine(e, v, c) = {} /\ Rest(e, v, c) = f.others
      BY <2>1, <3>2, <3>3
    <3>. QED  BY <3>4 DEF e
  <2>4. SlotOf[ents'[h[1]].class] = SlotOf[c]
    BY <1>6
  <2>5. Mine(ents', w, c) = {h} /\ Rest(ents', w, c) = f.others
    <3>. DEFINE e == ents'
    <3>1. SlotOf[e[h[1]].class] = SlotOf[c] /\ Mine(e, v, c) = {} /\ Rest(e, v, c) = f.others
      BY <2>3, <2>4
    <3>. HIDE DEF e
    <3>2. Mine(e, w, c) = Mine(e, v, c) \cup {h} /\ Rest(e, w, c) = Rest(e, v, c)
      BY <1>4, <1>5, <3>1, LongerMine
    <3>3. Mine(e, w, c) = {h} /\ Rest(e, w, c) = f.others
      BY <3>1, <3>2
    <3>. QED  BY <3>3 DEF e
  <2>6. \A g \in ToSet(w) : LiveIn(g, ents')
    <3>1. ToSet(w) = ToSet(v) \cup {h}
      BY <1>4, <1>5, AppendSet
    <3>. QED  BY <1>5, <2>2, <3>1
  <2>. HIDE DEF w
  <2>7. Suits(ents', w, f)
    BY <1>7, <2>5, <2>6 DEF Suits
  <2>. QED  BY <1>7, <1>8, <2>7
<1>. QED  BY <1>1, <1>7, <1>9, <1>11, OnQuiet

LEMMA EquipReplacementQuiet ==
    ASSUME ReplaceInv, EquipReplacement
    PROVE  QuietStack(stack', ents', inv', result')
<1>. DEFINE s == Top.slot
            h == Top.new
            c == Top.class
            v == inv[s]
            g == [Top EXCEPT !.at = "selecting"]
            f == [Top EXCEPT !.at = "rollback"]
            r == Removal(s, h[1], TRUE)
<1>1. stack # <<>> /\ Top.do = "replace" /\ Top.at = "giving" /\ UNCHANGED ents
  BY DEF EquipReplacement, At
<1>2. WorldInv /\ GoodCall(Top, ents) /\ Top \in Call /\ Tail(stack) \in Seq(Call)
  BY <1>1, TopOf, TopIs DEF ReplaceInv, GoodCall
<1>3. s \in Slots /\ h \in Handle
  BY <1>1, <1>2 DEF GoodCall, Fits
<1>4. LiveIn(h, ents)
  BY <1>2, <1>3, WorldAssumption DEF GoodCall, PointsWell
<1>5. h[1] \in Index /\ HandleAt(h[1]) = h /\ ents[h[1]] # None
  <2>1. h[1] \in Index /\ h = <<h[1], h[2]>>
    BY <1>3 DEF Handle
  <2>. QED  BY <1>4, <2>1 DEF LiveIn, HandleAt
<1>6. v \in Seq(Handle)
  BY <1>2, <1>3, InvFacts
<1>7. \/ stack' = Tail(stack)
      \/ stack' = <<g>> \o Tail(stack) /\ UNCHANGED inv
      \/ stack' = <<r>> \o <<f>> \o Tail(stack) /\ RemovePlayerItem(s, h)
  BY DEF EquipReplacement, Return, Goto
<1>8. /\ g \in Call /\ g.do = "replace" /\ g.at = "selecting" /\ g.slot = s /\ g.class = c
      /\ g.new = h /\ g.others = Top.others /\ g.quiet = Top.quiet
  BY <1>1, <1>2 DEF Call, Places, InEngine
<1>9. /\ f \in Call /\ f.do = "replace" /\ f.at = "rollback" /\ f.slot = s /\ f.class = c
      /\ f.others = Top.others /\ f.quiet = Top.quiet
  BY <1>1, <1>2 DEF Call, Places
<1>10. r \in Call /\ r.do = "remove" /\ r.slot = s /\ r.at = "unlinking" /\ r.w = h
  <2>1. r \in Call
    BY <1>2, <1>3, <1>5, RemovalFacts DEF GoodCall
  <2>. QED  BY <1>5, <2>1 DEF Removal, Frame
<1>11. Quiet(Top) => Suits(ents, v, Top)
  BY <1>1, QuietTop
<1>. HIDE DEF g, f, r, v, c, h, s
<1>12. CASE stack' = <<g>> \o Tail(stack) /\ UNCHANGED inv
  <2>1. ASSUME Quiet(g) PROVE Suits(ents', inv'[g.slot], g)
    <3>1. Suits(ents, v, Top)
      BY <1>1, <1>8, <1>11, <2>1 DEF Quiet
    <3>2. Suits(ents, v, g)
      BY <1>1, <1>8, <3>1 DEF Suits, c, h
    <3>. QED  BY <1>1, <1>8, <1>12, <3>2 DEF v
  <2>. QED  BY <1>1, <1>8, <1>12, <2>1, OnQuiet
<1>13. CASE stack' = <<r>> \o <<f>> \o Tail(stack) /\ RemovePlayerItem(s, h)
  <2>1. ASSUME Quiet(f) PROVE Suits(ents, Repaired(inv', r), f)
    <3>. DEFINE q == Without(v, h)
    <3>1. Suits(ents, v, Top)
      BY <1>1, <1>9, <1>11, <2>1 DEF Quiet
    <3>2. Mine(ents, v, c) = {h} /\ Rest(ents, v, c) = f.others
      BY <1>1, <1>9, <3>1 DEF Suits, c, h
    <3>3. h \in Mine(ents, v, c)
      BY <3>2
    <3>4. TakenOut(ents, v, Without(v, h), c, h)
      BY <1>6, <3>3, WithoutMine
    <3>5. inv'[s] = v \/ inv'[s] = q
      BY <1>2, <1>3, <1>13 DEF RemovePlayerItem, WorldInv, HandsTyped, v
    <3>6. Without(q, h) = q
      BY <1>6, WithoutTwice
    <3>7. Repaired(inv', r) = q
      BY <1>10, <3>5, <3>6 DEF Repaired
    <3>8. Mine(ents, q, c) = {}
      BY <3>2, <3>4 DEF TakenOut
    <3>9. \A x \in ToSet(q) : LiveIn(x, ents)
      BY <3>1, <3>4 DEF Suits, TakenOut
    <3>10. Rest(ents, q, c) = f.others
      BY <3>2, <3>4 DEF TakenOut
    <3>. HIDE DEF q
    <3>. QED  BY <1>9, <3>7, <3>8, <3>9, <3>10 DEF Suits
  <2>2. NoneQuiet(Tail(stack))
    BY <1>1, PopQuiet
  <2>3. QuietStack(<<r>> \o <<f>> \o Tail(stack), ents, inv', result')
    BY <1>2, <1>9, <1>10, <2>1, <2>2, TwoOnTop
  <2>. QED  BY <1>1, <1>13, <2>3
<1>14. CASE stack' = Tail(stack)
  BY <1>1, <1>14, PopQuiet
<1>. QED  BY <1>7, <1>12, <1>13, <1>14

\* A call that is not a replacement goes on or returns.
LEMMA CreationQuiet ==
    ASSUME ReplaceInv, CreationStep \/ Created \/ GrenadeChecked
    PROVE  QuietStack(stack', ents', inv', result')
<1>1. /\ stack # <<>> /\ Top.do \in {"create", "grenade"}
      /\ stack' = Tail(stack) \/ \E p \in Places : Goto(p)
  <2>1. CASE CreationStep
    <3>1. {"placing", "placed", "spawning", "spawned", "released"} \subseteq Places
      BY DEF Places, InEngine
    <3>. QED  BY <2>1, <3>1, CreationSteps DEF Return, RollBack
  <2>2. CASE Created
    <3>1. "options" \in Places
      BY DEF Places
    <3>. QED  BY <2>2, <3>1 DEF Created, At, Return
  <2>3. CASE GrenadeChecked
    BY <2>3 DEF GrenadeChecked, At, Return
  <2>. QED  BY <2>1, <2>2, <2>3
<1>2. CASE stack' = Tail(stack)
  BY <1>1, <1>2, PopQuiet
<1>3. ASSUME NEW p \in Places, Goto(p) PROVE QuietStack(stack', ents', inv', result')
  <2>. DEFINE f == [Top EXCEPT !.at = p]
  <2>1. Top \in Call
    BY <1>1, TopIs DEF ReplaceInv
  <2>2. f \in Call /\ f.do = Top.do /\ stack' = <<f>> \o Tail(stack)
    BY <1>3, <2>1 DEF Call, Goto
  <2>. HIDE DEF f
  <2>. QED  BY <1>1, <2>2, OnQuiet DEF Quiet
<1>. QED  BY <1>1, <1>2, <1>3

LEMMA QuietNext == ASSUME ReplaceInv, Next PROVE QuietStack(stack', ents', inv', result')
<1>. DEFINE Q == QuietStack(stack', ents', inv', result')
<1>1. WorldInv
  BY DEF ReplaceInv
<1>2. ASSUME stack' = <<>> PROVE Q
  BY <1>2, EmptySeq DEF QuietStack
<1>3. Disturb => Q
  BY <1>1, DisturbQuiet
<1>. HIDE DEF Q
<1>4. ASSUME NEW i \in Index, EngineDeletes(i) PROVE Q
  BY <1>2, <1>4 DEF EngineDeletes
<1>5. ASSUME NEW s \in Slots, NEW i \in Index, EnginePicksUp(s, i) PROVE Q
  BY <1>2, <1>5 DEF EnginePicksUp
<1>6. ASSUME NEW i \in Index, RemoveEntity(i) PROVE Q
  BY <1>3, <1>6 DEF RemoveEntity
<1>7. ASSUME NEW s \in Slots, WeaponCount(s) \/ WeaponDropActive(s) \/ WeaponRemoveAll(s)
      PROVE  Q
  BY <1>3, <1>7 DEF WeaponCount, WeaponDropActive, WeaponRemoveAll
<1>8. ASSUME NEW s \in Slots, NEW i \in Index, WeaponDrop(s, i) \/ WeaponSwitch(s, i)
      PROVE  Q
  BY <1>3, <1>8 DEF WeaponDrop, WeaponSwitch
<1>9. ASSUME NEW s \in Slots, NEW i \in Index, NEW c \in Classes, WeaponGive(s, i, c)
      PROVE  Q
  BY <1>3, <1>9 DEF WeaponGive
<1>10. ASSUME NEW s \in Slots, NEW i \in Index, NEW delete \in BOOLEAN,
              RemoveWeapon(s, i, delete)
       PROVE  Q
  <2>1. Begin(Removal(s, i, delete)) /\ Holds(s, i)
    BY <1>10 DEF RemoveWeapon
  <2>2. Removal(s, i, delete) \in Call
    BY <1>1, <2>1, HoldsFacts, RemovalFacts DEF GoodCall
  <2>3. Removal(s, i, delete).do = "remove"
    BY DEF Removal, Frame
  <2>. QED  BY <1>1, <2>1, <2>2, <2>3, BeginQuiet DEF Q
<1>11. ASSUME NEW s \in Slots, NEW c \in Classes, NEW flag \in BOOLEAN,
              RemoveByClassname(s, c, flag) \/ ReplaceSlot(s, c, flag)
       PROVE  Q
  BY <1>1, <1>11, StartLoopQuiet DEF RemoveByClassname, ReplaceSlot, Q
<1>12. ASSUME NEW do \in {"create", "grenade"}, NEW i \in Index, NEW c \in Classes,
              BeginCreation(do, i, c)
       PROVE  Q
  <2>. DEFINE h == NewHandle(i)
              f == [Frame(do, None, c, FALSE) EXCEPT !.at = "creating", !.new = h]
  <2>1. Begin(f) /\ Make(i, c)
    BY <1>12 DEF BeginCreation
  <2>2. h \in Handle
    BY <1>1, <2>1, MakeFacts DEF WorldInv
  <2>. HIDE DEF h
  <2>3. f \in Call /\ f.do = do
    BY <2>2, EmptySeq DEF Frame, Call, Does, Places, InEngine
  <2>. HIDE DEF f
  <2>. QED  BY <1>1, <2>1, <2>3, BeginQuiet DEF Q
<1>13. ASSUME NEW i \in Index, NEW c \in Classes, CreateEntity(i, c) \/ SpawnGrenade(i, c)
       PROVE  Q
  BY <1>12, <1>13 DEF CreateEntity, SpawnGrenade
<1>14. ASSUME NEW i \in Index, GiveReplacement(i) PROVE Q
  BY <1>14, GiveReplacementQuiet DEF Q
<1>15. CASE RepairAndDelete \/ RemoveReturns \/ LoopStep \/ LoopRemoved \/ EquipReplacement
  BY <1>15, RepairQuiet, RemoveReturnsQuiet, LoopStepQuiet, LoopRemovedQuiet,
     EquipReplacementQuiet DEF Q
<1>16. CASE RemovedByClassname \/ GiveFails \/ Equipped \/ RolledBack
  <2>1. stack # <<>> /\ Top.do # "remove" /\ stack' = Tail(stack)
    BY <1>16 DEF RemovedByClassname, GiveFails, Equipped, RolledBack, At, Return
  <2>. QED  BY <2>1, PopQuiet DEF Q
<1>17. CASE CreationStep \/ Created \/ GrenadeChecked
  BY <1>17, CreationQuiet DEF Q
<1>. QED  BY <1>4, <1>5, <1>6, <1>7, <1>8, <1>9, <1>10, <1>11, <1>13, <1>14, <1>15, <1>16,
             <1>17 DEF Next, CreationStep, Q

LEMMA QuietInit == ASSUME Init PROVE QuietStack(stack, ents, inv, result)
BY EmptySeq DEF Init, QuietStack

LEMMA ReplaceNext == ASSUME ReplaceInv, Next PROVE ReplaceInv'
<1>1. WorldInv' /\ HoldInv'
  BY NextInv, HoldNext DEF ReplaceInv
<1>2. QuietStack(stack, ents, inv, result)'
  BY QuietNext
<1>. QED  BY <1>1, <1>2 DEF ReplaceInv

LEMMA ReplaceStutter == ASSUME ReplaceInv, UNCHANGED vars PROVE ReplaceInv'
<1>1. UNCHANGED <<ents, serials, inv, stack, result>>
  BY DEF vars
<1>2. WorldInv' /\ HoldInv'
  BY <1>1, StutterInv, EntsSame, HoldStays DEF ReplaceInv
<1>3. QuietStack(stack, ents, inv, result)'
  BY <1>1 DEF ReplaceInv
<1>. QED  BY <1>2, <1>3 DEF ReplaceInv

LEMMA ReplaceInvariance == Spec => []ReplaceInv
<1>1. Init => ReplaceInv
  BY InitInv, HoldInit, QuietInit DEF ReplaceInv
<1>2. ReplaceInv /\ [Next]_vars => ReplaceInv'
  BY ReplaceNext, ReplaceStutter
<1>. QED  BY <1>1, <1>2, PTL DEF Spec

\* A handle names one entity for good (entity_by_handle compares the serial number), and
\* whatever is picked up, given, dropped or removed no weapon is in an inventory twice:
\* the loops over m_hMyWeapons meet each of them once.
THEOREM HandlesNameOneWeapon == Spec => [](SerialsAreCurrent /\ HeldOnce)
<1>1. ReplaceInv => SerialsAreCurrent /\ HeldOnce
  BY DEF ReplaceInv, HoldInv
<1>. QED  BY <1>1, ReplaceInvariance, PTL

-----------------------------------------------------------------------------
(* A replacement returns.                                                 *)

ReplacesAlone ==
    (Returns("replace") /\ Top.quiet) =>
        LET mine == {h \in ToSet(inv'[Top.slot]) : Matches("replace", h, Top.class)}
        IN  /\ \/ InLoop /\ Top.i > 0
               \/ mine = IF result' = "ok" \/ Top.at = "giving" THEN {Top.new} ELSE {}
            /\ Kept(inv'[Top.slot], ToSet(inv'[Top.slot]) \ mine) = Top.others

LEMMA SuitsAlone ==
    ASSUME UNCHANGED inv, Suits(ents, inv[Top.slot], Top),
           \/ InLoop /\ Top.i > 0
           \/ Mine(ents, inv[Top.slot], Top.class)
                = IF result' = "ok" \/ Top.at = "giving" THEN {Top.new} ELSE {}
    PROVE  ReplacesAlone
<1>. DEFINE v == inv[Top.slot]
            mine == {h \in ToSet(v) : Matches("replace", h, Top.class)}
<1>1. Mine(ents, v, Top.class) = mine
  BY MineMatches
<1>. HIDE DEF mine
<1>2. Kept(v, ToSet(v) \ mine) = Top.others
  BY <1>1 DEF Suits, Rest
<1>. QED  BY <1>1, <1>2 DEF ReplacesAlone, mine

LEMMA ReplaceReturns ==
    ASSUME ReplaceInv, Returns("replace"), Top.quiet, UNCHANGED <<ents, inv>>,
           GiveFails \/ Equipped \/ RolledBack \/ EquipReplacement \/ LoopStep
    PROVE  ReplacesAlone
<1>1. stack # <<>> /\ Quiet(Top)
  BY DEF Returns, Quiet
<1>2. Suits(ents, inv[Top.slot], Top)
  BY <1>1, QuietTop
<1>3. CASE GiveFails
  <2>1. Top.at = "loop" /\ Top.i = 0 /\ result' = "failed"
    BY <1>3 DEF GiveFails, At, Return
  <2>2. inv[Top.slot] \in Seq(Handle)
    BY <1>1, TopOf, InvFacts DEF ReplaceInv, GoodCall, Fits, Quiet
  <2>3. Mine(ents, inv[Top.slot], Top.class) = {}
    BY <1>2, <2>1, <2>2, BeyondFacts DEF Suits
  <2>. QED  BY <1>2, <2>1, <2>3, SuitsAlone
<1>4. CASE Equipped \/ EquipReplacement
  <2>1. Top.at = "giving" \/ (Top.at = "selecting" /\ result' = "ok")
    BY <1>4 DEF Equipped, EquipReplacement, At, Return
  <2>. QED  BY <1>2, <2>1, SuitsAlone DEF Suits
<1>5. CASE RolledBack
  <2>1. Top.at = "rollback" /\ result' = "failed"
    BY <1>5 DEF RolledBack, At, Return
  <2>. QED  BY <1>2, <2>1, SuitsAlone DEF Suits
<1>6. CASE LoopStep
  BY <1>2, <1>6, SuitsAlone DEF LoopStep
<1>. QED  BY <1>3, <1>4, <1>5, <1>6

\* The steps of a replacement that nothing has disturbed and that does not return.
LEMMA OnTopNeverReturns ==
    ASSUME WorldInv, stack # <<>>, NEW f \in Call,
           \/ stack' = <<f>> \o Tail(stack)
           \/ \E r \in Call : stack' = <<r>> \o <<f>> \o Tail(stack)
    PROVE  NothingReturns
<1>. DEFINE u == Tail(stack)
            t == <<f>> \o u
<1>1. /\ u \in Seq(Call) /\ (stack # <<>> => Len(u) >= Len(stack) - 1)
      /\ Len(stack) \in Nat /\ Len(u) = Len(stack) - 1
  BY TopOf DEF GoodStack
<1>. HIDE DEF u
<1>2. t \in Seq(Call) /\ Len(t) = Len(u) + 1
  BY <1>1, ConsFacts
<1>3. CASE stack' = <<f>> \o Tail(stack)
  <2>1. stack' = <<f>> \o u
    BY <1>3 DEF u
  <2>. QED  BY <1>1, <2>1, PushNeverReturns
<1>4. CASE \E r \in Call : stack' = <<r>> \o <<f>> \o Tail(stack)
  <2>1. PICK r \in Call : stack' = <<r>> \o <<f>> \o u
    BY <1>4 DEF u
  <2>2. <<r>> \in Seq(Call) /\ <<f>> \in Seq(Call)
    OBVIOUS
  <2>. HIDE DEF t
  <2>3. stack' = <<r>> \o t
    BY <1>1, <2>1, <2>2, ConcatAssociative DEF t
  <2>4. stack # <<>> => Len(t) >= Len(stack) - 1
    BY <1>1, <1>2
  <2>. QED  BY <1>1, <1>2, <2>3, <2>4, PushNeverReturns
<1>. QED  BY <1>3, <1>4

\* The loop of such a replacement ends early only where the host refuses a weapon, and
\* then it has changed nothing in this step.
LEMMA LoopReturns ==
    ASSUME ReplaceInv, stack # <<>>, Quiet(Top), LoopStep \/ LoopRemoved
    PROVE  NothingReturns \/ (LoopStep /\ UNCHANGED <<ents, inv>>)
<1>1. WorldInv /\ GoodCall(Top, ents) /\ Top \in Call
  BY TopOf DEF ReplaceInv, GoodCall
<1>2. Top.do = "replace" /\ Top.slot \in Slots /\ Top.i \in Nat /\ Top.flag \in BOOLEAN
  BY <1>1 DEF GoodCall, Fits, Call, Quiet
<1>3. CASE LoopStep
  <2>. DEFINE v == WeaponAt(inv[Top.slot], Top.i)
              h == v[Top.i]
              delete == (Top.do = "replace" \/ Top.flag)
              f == [Top EXCEPT !.i = @ - 1]
              g == [Top EXCEPT !.at = "removing"]
  <2>1. Top.at = "loop" /\ Top.i > 0
    BY <1>3 DEF LoopStep, InLoop, At
  <2>2. Top.i <= Len(v) /\ v = inv[Top.slot]
    BY <2>1, QuietLoop
  <2>3. \/ inv' = [inv EXCEPT ![Top.slot] = v]
        \/ stack' = <<f>> \o Tail(stack)
        \/ stack' = <<Removal(Top.slot, h[1], delete)>> \o <<g>> \o Tail(stack)
    BY <1>3 DEF LoopStep, CallRemove
  <2>4. f \in Call /\ g \in Call
    <3>1. Top.i - 1 \in Nat
      BY <1>2, <2>1
    <3>. QED  BY <1>1, <3>1 DEF Call, Places
  <2>5. Removal(Top.slot, h[1], delete) \in Call
    <3>1. h \in Handle /\ LiveIn(h, ents)
      BY <1>1, <1>2, <2>1, <2>2, InvFacts, WeaponAtFacts
    <3>2. delete \in BOOLEAN
      BY <1>2
    <3>. HIDE DEF h, delete
    <3>3. h[1] \in Index /\ ents[h[1]] # None
      BY <3>1 DEF Handle, LiveIn
    <3>. QED  BY <1>1, <1>2, <3>2, <3>3, RemovalFacts DEF GoodCall
  <2>6. CASE inv' = [inv EXCEPT ![Top.slot] = v]
    <3>1. inv = [inv EXCEPT ![Top.slot] = inv[Top.slot]]
      BY <1>1, <1>2, InvFacts
    <3>. HIDE DEF v
    <3>2. inv' = inv
      BY <2>2, <2>6, <3>1
    <3>. QED  BY <1>3, <3>2 DEF LoopStep
  <2>. HIDE DEF f, g, h, v, delete
  <2>. QED  BY <1>1, <2>3, <2>4, <2>5, <2>6, OnTopNeverReturns
<1>4. CASE LoopRemoved
  <2>. DEFINE f == [Top EXCEPT !.at = "loop", !.i = @ - 1]
  <2>1. Top.at = "removing"
    BY <1>4 DEF LoopRemoved, At
  <2>2. result = "ok"
    BY <2>1, QuietTop
  <2>3. stack' = <<f>> \o Tail(stack)
    BY <1>4, <2>2 DEF LoopRemoved
  <2>4. f \in Call
    <3>1. Top.i - 1 \in Nat
      BY <1>1, <2>1 DEF GoodCall, Fits, Call
    <3>. QED  BY <1>1, <3>1 DEF Call, Places
  <2>. HIDE DEF f
  <2>. QED  BY <1>1, <2>3, <2>4, OnTopNeverReturns
<1>. QED  BY <1>3, <1>4

LEMMA EquipReturns ==
    ASSUME ReplaceInv, Quiet(Top), EquipReplacement
    PROVE  NothingReturns \/ UNCHANGED <<ents, inv>>
<1>. DEFINE s == Top.slot
            h == Top.new
            g == [Top EXCEPT !.at = "selecting"]
            f == [Top EXCEPT !.at = "rollback"]
<1>1. stack # <<>> /\ Top.do = "replace" /\ Top.at = "giving" /\ UNCHANGED ents
  BY DEF EquipReplacement, At
<1>2. WorldInv /\ GoodCall(Top, ents) /\ Top \in Call
  BY <1>1, TopOf DEF ReplaceInv, GoodCall
<1>3. s \in Slots /\ h \in Handle
  BY <1>1, <1>2 DEF GoodCall, Fits
<1>4. LiveIn(h, ents) /\ h[1] \in Index /\ h = <<h[1], h[2]>>
  BY <1>2, <1>3, WorldAssumption DEF GoodCall, PointsWell, Handle
<1>5. f \in Call /\ g \in Call /\ Removal(s, h[1], TRUE) \in Call
  <2>1. Removal(s, h[1], TRUE) \in Call
    BY <1>2, <1>3, <1>4, RemovalFacts DEF GoodCall, LiveIn
  <2>. QED  BY <1>2, <2>1 DEF Call, Places, InEngine
<1>6. \/ UNCHANGED <<ents, inv>>
      \/ stack' = <<g>> \o Tail(stack)
      \/ stack' = <<Removal(s, h[1], TRUE)>> \o <<f>> \o Tail(stack)
  BY DEF EquipReplacement, Return, Goto, hands
<1>. HIDE DEF f, g, h, s
<1>. QED  BY <1>1, <1>2, <1>5, <1>6, OnTopNeverReturns

LEMMA ReplaceStep == ASSUME ReplaceInv, Next PROVE ReplacesAlone
<1>. SUFFICES ASSUME Returns("replace"), Top.quiet PROVE ReplacesAlone
  BY DEF ReplacesAlone
<1>1. WorldInv /\ stack # <<>> /\ Top.do = "replace" /\ Quiet(Top) /\ ~NothingReturns
  BY DEF ReplaceInv, Returns, Quiet, NothingReturns
<1>2. ~(RepairAndDelete \/ RemoveReturns \/ RemovedByClassname)
  BY <1>1 DEF RepairAndDelete, RemoveReturns, RemovedByClassname, At
<1>3. ~(Created \/ GrenadeChecked \/ CreationStep)
  BY <1>1, CreationSteps DEF Created, GrenadeChecked, At
<1>4. CASE LoopStep \/ LoopRemoved
  BY <1>1, <1>4, LoopReturns, ReplaceReturns
<1>5. ASSUME NEW i \in Index, GiveReplacement(i) PROVE FALSE
  <2>. DEFINE f == [Top EXCEPT !.at = "giving", !.new = NewHandle(i)]
  <2>1. stack' = <<f>> \o Tail(stack)
    BY <1>5 DEF GiveReplacement
  <2>2. f \in Call
    <3>1. NewHandle(i) \in Handle
      BY <1>1, <1>5 DEF WorldInv, NewHandle, Handle
    <3>. QED  BY <1>1, <3>1, TopIs DEF Call, Places, InEngine
  <2>. HIDE DEF f
  <2>. QED  BY <1>1, <2>1, <2>2, OnTopNeverReturns
<1>6. CASE GiveFails \/ Equipped \/ RolledBack
  <2>1. UNCHANGED <<ents, inv>>
    BY <1>6 DEF GiveFails, Equipped, RolledBack, hands
  <2>. QED  BY <1>6, <2>1, ReplaceReturns
<1>7. CASE EquipReplacement
  BY <1>1, <1>7, EquipReturns, ReplaceReturns
<1>. QED  BY <1>1, <1>2, <1>3, <1>4, <1>5, <1>6, <1>7, StepsThatReturn

\* weapons.replace_slot (weapons.cpp:475): if no callback interferes, the slot holds
\* the replacement alone when the call succeeds, or when the host cannot read what it
\* has given, and nothing when it fails in a later step; whether it succeeds or fails,
\* the weapons of the other slots are those that were there, in their order, whether
\* RemovePlayerItem leaves the handles or not and however many weapons there are.
THEOREM SlotIsReplaced == Spec => ReplacesOneSlot
<1>1. ReplaceInv /\ [Next]_vars => [ReplacesAlone]_vars
  BY ReplaceStep
<1>2. ReplacesOneSlot <=> [][ReplacesAlone]_vars
  BY DEF ReplacesOneSlot, ReplacesAlone
<1>. QED  BY <1>1, <1>2, ReplaceInvariance, PTL DEF Spec
=============================================================================
